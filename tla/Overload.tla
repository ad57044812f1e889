------------------------------- MODULE Overload -------------------------------
(***************************************************************************)
(* One app instance under load: the hooks that count requests and the      *)
(* reservation route (app/src/server.js), load shedding and the timeout    *)
(* (app/src/overload.js), the connection pool and its errors               *)
(* (app/src/db.js), clients that give up, what k6 counts (k6/lib.js), and  *)
(* the order in which server and pool are closed.                          *)
(*                                                                         *)
(* createReservation is a job: on the synchronous path it needs one of     *)
(* PoolMax connections, and what it returns or throws is chosen freely.    *)
(* The code up to the first await runs in one step.                        *)
(***************************************************************************)
EXTENDS Integers, Sequences, FiniteSets

CONSTANTS
  Req,            \* requests to the reservation route, each made once
  PoolMax,        \* PG_POOL_MAX
  Settings,       \* the other settings, one chosen per behaviour
  Results,        \* what a job may return or throw
  MaxAborts       \* clients that give up

\* max: MAX_CONCURRENT; inflight: SHED_INFLIGHT; slow: SLOW_MS or asynchronous
\* burning; timeout: REQUEST_TIMEOUT_MS; acquire: PG_ACQUIRE_TIMEOUT_MS; lag:
\* SHED_LOOP_LAG_MS; async: ASYNC_WRITE.  A limit of 0 is off.
Setting == [max : Nat, inflight : Nat, slow : BOOLEAN, timeout : BOOLEAN, acquire : BOOLEAN,
            lag : BOOLEAN, async : BOOLEAN]

ASSUME LimitAssumption   == PoolMax \in Nat \ {0} /\ MaxAborts \in Nat
ASSUME ReqAssumption     == IsFiniteSet(Req)
ASSUME SettingAssumption == Settings \subseteq Setting

VARIABLES
  set,       \* the settings
  inFlight,  \* the counter of the hooks
  probe,     \* a request to another route (/healthz, /metrics) is being served
  stage,     \* where each request is
  tally,     \* the outcome counted for it (reservation_outcomes_total)
  status,    \* the status sent, 0 before
  client,    \* the client waits, has given up, or what status it got
  job,       \* its createReservation
  result,    \* what that returned or threw
  waiters,   \* callers of pool.connect, in order
  lagging,   \* loopLagMs is above the limit
  server,    \* up, closing (app.close), ending (pool.end), or exited
  aborts

reqs == <<stage, tally, status, client>>
jobs == <<job, result, waiters>>
vars == <<set, inFlight, probe, reqs, jobs, lagging, server, aborts>>

Seqs == INSTANCE SequencesExt

Stage   == {"idle", "hooked", "slow", "race", "sent", "done", "leaked"}
Outcome == {"created", "idempotent_replay", "sold_out", "not_found", "accepted"}
Tally   == Outcome \cup {"error", "shed", "bad_request", "timeout", "none"}

-----------------------------------------------------------------------------
(* classifyDbError and the status of an answer                             *)

\* What a job returns, or throws: a failure is told by its code, or by a phrase
\* of its message.
Ok(outcome)     == [outcome |-> outcome, code |-> "none", says |-> "none"]
Err(code, says) == [outcome |-> "error", code |-> code, says |-> says]
NoResult        == Ok("none")

Unreachable == {"ENOTFOUND", "ECONNREFUSED", "ECONNRESET", "EHOSTUNREACH", "ETIMEDOUT"}

ClassifyDbError(e) ==
  CASE e.code \in Unreachable    -> "upstream_unreachable"
    [] e.code = "MQ_NOT_READY"   -> "mq_unavailable"
    [] e.code = "53300" \/ e.says = "too many clients"      -> "too_many_clients"
    [] e.code = "57014" \/ e.says = "statement timeout"     -> "statement_timeout"
    [] e.code = "55P03" \/ e.says = "lock timeout"          -> "lock_timeout"
    [] e.code = "25P03" \/ e.says = "idle-in-transaction"   -> "idle_in_tx_timeout"
    [] e.says = "timeout exceeded when trying to connect"   -> "pool_acquire_timeout"
    [] e.code = "40P01"          -> "deadlock"
    [] OTHER                     -> "other"

\* Fault: the list as it was before Phase 06 (server.js:191).
TransientBefore06 ==
  {"too_many_clients", "pool_acquire_timeout", "statement_timeout", "lock_timeout",
   "idle_in_tx_timeout", "deadlock"}

Transient ==
  {"too_many_clients", "pool_acquire_timeout", "statement_timeout", "lock_timeout",
   "idle_in_tx_timeout", "deadlock", "upstream_unreachable", "mq_unavailable"}

StatusOfError(e) == IF ClassifyDbError(e) \in Transient THEN 503 ELSE 500

StatusOfOutcome(o) ==
  CASE o = "created" -> 201 [] o = "idempotent_replay" -> 200 [] o = "sold_out" -> 409
    [] o = "not_found" -> 404 [] o = "accepted" -> 202

IsError(x) == x.outcome = "error"

StatusOf(x) == IF IsError(x) THEN StatusOfError(x) ELSE StatusOfOutcome(x.outcome)

AcquireError == Err("none", "timeout exceeded when trying to connect")
EndedError   == Err("none", "Cannot use a pool after calling end on the pool")

\* Failures that pass and failures that stay.  Unrecognised ones pass as well,
\* but are answered 500.
Passing == {Err(c, "other") : c \in Unreachable \cup {"MQ_NOT_READY", "53300", "57014", "55P03",
                                                     "25P03", "40P01"}} \cup {AcquireError}
Unrecognised == {Err("none", "Connection terminated unexpectedly"), Err("57P01", "other"),
                 Err("57P03", "other"), Err("08P01", "client_login_timeout")}
Lasting == {Err("23503", "other"), Err("22003", "other"), Err("none", "other"), EndedError}

ASSUME ResultAssumption ==
  Results \subseteq {Ok(o) : o \in Outcome} \cup Passing \cup Unrecognised \cup Lasting

\* How k6 counts an answer: recordStatus of lib.js, reserve of lb-test.js and
\* final.js, and the failures of the callback both register.
Bucket(s) ==
  CASE s \in {200, 201, 409, 0} -> s [] s >= 500 -> 500 [] OTHER -> 400

\* Fault: 202 is not yet a success (lb-test.js:116).
ReserveWithout202(s) ==
  CASE s \in {200, 201} -> "ok" [] s = 0 -> "noResponse" [] s = 502 -> "e502"
    [] s = 503 -> "e503" [] s = 504 -> "e504" [] s = 409 -> "soldOut" [] OTHER -> "other"

Reserve(s) ==
  CASE s \in {200, 201, 202} -> "ok" [] s = 0 -> "noResponse" [] s = 502 -> "e502"
    [] s = 503 -> "e503" [] s = 504 -> "e504" [] s = 409 -> "soldOut" [] OTHER -> "other"

Expected == {200, 201, 202}

\* What analyze-final.mjs adds up as real failures.
RealFailures == {"noResponse", "e502", "e503", "e504", "other"}

-----------------------------------------------------------------------------
Init ==
  /\ set \in Settings
  /\ inFlight = 0
  /\ probe = FALSE
  /\ stage = [r \in Req |-> "idle"]
  /\ tally = [r \in Req |-> "none"]
  /\ status = [r \in Req |-> 0]
  /\ client = [r \in Req |-> "waits"]
  /\ job = [r \in Req |-> "none"]
  /\ result = [r \in Req |-> NoResult]
  /\ waiters = <<>>
  /\ lagging = FALSE
  /\ server = "up"
  /\ aborts = 0

Goes(r, s) == stage' = [stage EXCEPT ![r] = s]

\* reply.code(s).send(...), with the outcome that is counted for it.
Reply(r, s, outcome) ==
  /\ Goes(r, "sent")
  /\ status' = [status EXCEPT ![r] = s]
  /\ tally' = [tally EXCEPT ![r] = outcome]

Running   == {r \in Req : job[r] = "running"}
Holding   == IF set.async THEN {} ELSE Running
Served    == {r \in Req : stage[r] \in {"hooked", "slow", "race", "sent"}}
Pending   == {r \in Req : stage[r] \in {"slow", "race"}}
Leaked    == {r \in Req : stage[r] = "leaked"}
Alive     == server # "exited"

-----------------------------------------------------------------------------
(* The route                                                               *)

OnRequest(r) ==
  /\ server = "up"
  /\ stage[r] = "idle"
  /\ inFlight' = inFlight + 1
  /\ Goes(r, "hooked")
  /\ UNCHANGED <<set, probe, tally, status, client, jobs, lagging, server, aborts>>

\* The handler runs once the body has arrived.
Invalid(r) ==
  /\ Alive
  /\ stage[r] = "hooked"
  /\ Reply(r, 400, "bad_request")
  /\ UNCHANGED <<set, inFlight, probe, client, jobs, lagging, server, aborts>>

\* Fault: one request more than the bulkhead allows is taken.
ShouldShedLate ==
  \/ set.max > 0 /\ inFlight > set.max + 1
  \/ set.inflight > 0 /\ inFlight > set.inflight
  \/ set.lag /\ lagging

ShouldShed ==
  \/ set.max > 0 /\ inFlight > set.max
  \/ set.inflight > 0 /\ inFlight > set.inflight
  \/ set.lag /\ lagging

Shed(r) ==
  /\ Alive
  /\ stage[r] = "hooked"
  /\ ShouldShed
  /\ Reply(r, 503, "shed")
  /\ UNCHANGED <<set, inFlight, probe, client, jobs, lagging, server, aborts>>

\* createReservation is called: it is published, or asks the pool for a
\* connection.  A pool that is ending throws.
StartJob(r) ==
  IF set.async \/ (waiters = <<>> /\ Cardinality(Holding) < PoolMax /\ server # "ending")
    THEN /\ job' = [job EXCEPT ![r] = "running"]
         /\ Goes(r, "race")
         /\ UNCHANGED <<result, waiters, tally, status>>
    ELSE IF server = "ending"
    THEN /\ job' = [job EXCEPT ![r] = "ended"]
         /\ result' = [result EXCEPT ![r] = EndedError]
         /\ Reply(r, StatusOfError(EndedError), "error")
         /\ UNCHANGED waiters
    ELSE /\ job' = [job EXCEPT ![r] = "waiting"]
         /\ waiters' = Append(waiters, r)
         /\ Goes(r, "race")
         /\ UNCHANGED <<result, tally, status>>

Admit(r) ==
  /\ Alive
  /\ stage[r] = "hooked"
  /\ ~ShouldShed
  /\ IF set.slow THEN Goes(r, "slow") /\ UNCHANGED <<jobs, tally, status>> ELSE StartJob(r)
  /\ UNCHANGED <<set, inFlight, probe, client, lagging, server, aborts>>

SlowEnds(r) ==
  /\ Alive
  /\ stage[r] = "slow"
  /\ StartJob(r)
  /\ UNCHANGED <<set, inFlight, probe, client, lagging, server, aborts>>

\* Fault: the timeout covers the query, not the wait for its connection.
TimesOutRunning(r) ==
  /\ Alive /\ set.timeout
  /\ stage[r] = "race" /\ job[r] = "running"
  /\ Reply(r, 504, "timeout")
  /\ UNCHANGED <<set, inFlight, probe, client, jobs, lagging, server, aborts>>

\* withTimeout: the answer is given up, the job goes on.
TimesOut(r) ==
  /\ Alive /\ set.timeout
  /\ stage[r] = "race"
  /\ Reply(r, 504, "timeout")
  /\ UNCHANGED <<set, inFlight, probe, client, jobs, lagging, server, aborts>>

\* Fault: a job counts its outcome when it ends, answered or not.
SettleCountsLate(r, x) ==
  /\ job' = [job EXCEPT ![r] = "ended"]
  /\ result' = [result EXCEPT ![r] = x]
  /\ IF stage[r] = "race"
       THEN Reply(r, StatusOf(x), x.outcome)
       ELSE tally' = [tally EXCEPT ![r] = x.outcome] /\ UNCHANGED <<stage, status>>
  /\ UNCHANGED <<set, inFlight, probe, client, lagging, server, aborts>>

\* What the job returned or threw is answered, if the race is still on.
Settle(r, x) ==
  /\ job' = [job EXCEPT ![r] = "ended"]
  /\ result' = [result EXCEPT ![r] = x]
  /\ IF stage[r] = "race"
       THEN Reply(r, StatusOf(x), x.outcome)
       ELSE UNCHANGED <<stage, status, tally>>
  /\ UNCHANGED <<set, inFlight, probe, client, lagging, server, aborts>>

\* The asynchronous path accepts, or refuses at the gate.
Returns(x) == IsError(x) \/ x.outcome \in (IF set.async THEN {"accepted", "sold_out"}
                                                        ELSE Outcome \ {"accepted"})

JobEnds(r) ==
  /\ Alive
  /\ job[r] = "running"
  /\ \E x \in Results : Returns(x) /\ Settle(r, x)
  /\ UNCHANGED waiters

-----------------------------------------------------------------------------
(* The pool                                                                *)

\* Fault: the connection goes to the waiter that came last.
GrantLast ==
  /\ Alive /\ server # "ending"
  /\ waiters # <<>>
  /\ Cardinality(Holding) < PoolMax
  /\ job' = [job EXCEPT ![waiters[Len(waiters)]] = "running"]
  /\ waiters' = Seqs!Front(waiters)
  /\ UNCHANGED <<set, inFlight, probe, reqs, result, lagging, server, aborts>>

\* A connection that is returned goes to the first waiter, not while ending.
Grant ==
  /\ Alive /\ server # "ending"
  /\ waiters # <<>>
  /\ Cardinality(Holding) < PoolMax
  /\ job' = [job EXCEPT ![Head(waiters)] = "running"]
  /\ waiters' = Tail(waiters)
  /\ UNCHANGED <<set, inFlight, probe, reqs, result, lagging, server, aborts>>

\* Fault: a caller that gave up stays in the queue of the pool.
AcquireTimesOutStays(r) ==
  /\ Alive /\ set.acquire
  /\ job[r] = "waiting"
  /\ UNCHANGED waiters
  /\ Settle(r, AcquireError)

AcquireTimesOut(r) ==
  /\ Alive /\ set.acquire
  /\ job[r] = "waiting"
  /\ \E i \in DOMAIN waiters : waiters[i] = r /\ waiters' = Seqs!RemoveAt(waiters, i)
  /\ Settle(r, AcquireError)

-----------------------------------------------------------------------------
(* Responses and clients                                                   *)

\* Fault: requests that were refused are not counted down.
OnResponseServedOnly(r) ==
  /\ Alive
  /\ stage[r] = "sent"
  /\ inFlight' = IF tally[r] = "shed" THEN inFlight ELSE inFlight - 1
  /\ client' = [client EXCEPT ![r] = IF @ = "waits" THEN "got" ELSE @]
  /\ Goes(r, "done")
  /\ UNCHANGED <<set, probe, tally, status, jobs, lagging, server, aborts>>

\* The response is written ('finish').
OnResponse(r) ==
  /\ Alive
  /\ stage[r] = "sent"
  /\ inFlight' = inFlight - 1
  /\ client' = [client EXCEPT ![r] = IF @ = "waits" THEN "got" ELSE @]
  /\ Goes(r, "done")
  /\ UNCHANGED <<set, probe, tally, status, jobs, lagging, server, aborts>>

\* The client is gone (HAProxy's timeout server, k6's own): its socket is
\* destroyed, and writing to it need not end in 'finish'.
ClientGivesUp(r) ==
  /\ stage[r] \in {"hooked", "slow", "race", "sent"}
  /\ client[r] = "waits"
  /\ aborts < MaxAborts
  /\ aborts' = aborts + 1
  /\ client' = [client EXCEPT ![r] = "gone"]
  /\ UNCHANGED <<set, inFlight, probe, stage, tally, status, jobs, lagging, server>>

NoFinish(r) ==
  /\ Alive
  /\ stage[r] = "sent"
  /\ client[r] = "gone"
  /\ Goes(r, "leaked")
  /\ UNCHANGED <<set, inFlight, probe, tally, status, client, jobs, lagging, server, aborts>>

\* The hooks count the other routes, too.
Probe ==
  /\ Alive
  /\ probe \/ server = "up"
  /\ probe' = ~probe
  /\ inFlight' = inFlight + (IF probe THEN -1 ELSE 1)
  /\ UNCHANGED <<set, reqs, jobs, lagging, server, aborts>>

\* The probe of the event loop's delay runs.
LagProbe ==
  /\ Alive /\ set.lag
  /\ lagging' = ~lagging
  /\ UNCHANGED <<set, inFlight, probe, reqs, jobs, server, aborts>>

-----------------------------------------------------------------------------
(* app.close, then closeDb, then exit.                                     *)

Close ==
  /\ server = "up"
  /\ server' = "closing"
  /\ UNCHANGED <<set, inFlight, probe, reqs, jobs, lagging, aborts>>

\* The sockets are closed: every client that waited has its response.
Closed ==
  /\ server = "closing"
  /\ ~probe /\ \A r \in Served : client[r] = "gone"
  /\ server' = "ending"
  /\ UNCHANGED <<set, inFlight, probe, reqs, jobs, lagging, aborts>>

\* Fault: the pool is not ended before the exit.
ExitNow ==
  /\ server = "ending"
  /\ server' = "exited"
  /\ UNCHANGED <<set, inFlight, probe, reqs, jobs, lagging, aborts>>

\* pool.end resolves when every connection is back; whoever waits for one is
\* left behind.
Exit ==
  /\ server = "ending"
  /\ Holding = {}
  /\ server' = "exited"
  /\ UNCHANGED <<set, inFlight, probe, reqs, jobs, lagging, aborts>>

-----------------------------------------------------------------------------
Handler(r) == Shed(r) \/ Admit(r) \/ Invalid(r)

Next ==
  \/ \E r \in Req : \/ OnRequest(r) \/ Handler(r) \/ SlowEnds(r) \/ TimesOut(r) \/ JobEnds(r)
                    \/ AcquireTimesOut(r) \/ OnResponse(r) \/ NoFinish(r) \/ ClientGivesUp(r)
  \/ Grant \/ Probe \/ LagProbe \/ Close \/ Closed \/ Exit

Spec == Init /\ [][Next]_vars

\* Callbacks and timers run.  Nothing says that the database answers: JobEnds
\* is not fair.
Fairness ==
  WF_vars(Grant \/ \E r \in Req : \/ Handler(r) \/ SlowEnds(r) \/ TimesOut(r)
                                  \/ AcquireTimesOut(r) \/ OnResponse(r) \/ NoFinish(r))

FairSpec == Spec /\ Fairness

-----------------------------------------------------------------------------
TypeOK ==
  /\ set \in Settings
  /\ inFlight \in Int
  /\ probe \in BOOLEAN /\ lagging \in BOOLEAN
  /\ stage \in [Req -> Stage]
  /\ tally \in [Req -> Tally]
  /\ status \in [Req -> {0, 200, 201, 202, 400, 404, 409, 500, 503, 504}]
  /\ client \in [Req -> {"waits", "gone", "got"}]
  /\ job \in [Req -> {"none", "waiting", "running", "ended"}]
  /\ result \in [Req -> Results \cup {NoResult, AcquireError, EndedError}]
  /\ waiters \in Seq(Req)
  /\ \A r \in Req : job[r] = "waiting" <=> \E i \in DOMAIN waiters : waiters[i] = r
  /\ \A i, j \in DOMAIN waiters : waiters[i] = waiters[j] => i = j
  /\ server \in {"up", "closing", "ending", "exited"}
  /\ aborts \in 0 .. MaxAborts

\* The counter that shedding relies on is what it claims to be (server.js:74-82):
\* the requests being served, and besides them only those whose client had
\* given up and whose response never finished.
InFlightCounts ==
  inFlight = Cardinality(Served) + Cardinality(Leaked) + (IF probe THEN 1 ELSE 0)

\* overload.js:82, "at most N at once": so many requests are worked on for a
\* client, and, without REQUEST_TIMEOUT_MS, so many jobs exist at all; with it,
\* abandoned jobs come on top, and only the pool bounds those that hold a
\* connection.
BulkheadBounds ==
  /\ set.max > 0 => Cardinality(Pending) <= set.max
  /\ set.max > 0 /\ ~set.timeout =>
       Cardinality({r \in Req : job[r] \in {"waiting", "running"}}) <= set.max
  /\ Cardinality(Holding) <= PoolMax

\* What k6 has a counter for, by the outcome the server counted; it has none
\* for 202, which goes with the other 4xx.
BucketOf(t) ==
  CASE t = "created" -> 201 [] t = "idempotent_replay" -> 200 [] t = "sold_out" -> 409
    [] t \in {"shed", "timeout", "error"} -> 500
    [] OTHER -> 400

\* The answer, what happened and what both sides count agree: a request that
\* was refused did no work (server.js:115-116), one that was answered with a
\* result has that result, only a timeout leaves a job behind, and what the job
\* does then is not counted any more.
AnswersMatchJobs == \A r \in Req :
  /\ tally[r] \in {"shed", "bad_request"} => job[r] = "none"
  /\ tally[r] \in Outcome \cup {"error"} =>
       tally[r] = result[r].outcome /\ status[r] = StatusOf(result[r])
  /\ job[r] \in {"waiting", "running"} => stage[r] = "race" \/ tally[r] = "timeout"
  /\ status[r] # 0 => Bucket(status[r]) = BucketOf(tally[r])

\* db.js:76-78, server.js:186-192: 503 tells a client that a retry may help, and
\* is sent for every failure the code knows to pass and for none that stays.
\* lb-test.js:41 and 48-51, analyze-final.mjs:136: for the server, for k6 and
\* its callback, and for the analysis, the same answers are failures, except
\* that a refusal for want of seats is no failure in the end.
StatusesAgree == \A r \in Req : status[r] # 0 =>
  /\ tally[r] = "error" => status[r] = IF result[r] \in Passing THEN 503 ELSE 500
  /\ Reserve(status[r]) \in RealFailures <=> status[r] \notin Expected \cup {409}
  /\ Reserve(status[r]) \in RealFailures <=>
       tally[r] \notin {"created", "idempotent_replay", "accepted", "sold_out"}

\* server.js:343-351: when the process exits, no transaction is cut off and
\* every client that waited was answered.
ExitIsClean == server = "exited" =>
  Holding = {} /\ \A r \in Req : stage[r] # "idle" => client[r] # "waits"

\* Whatever times out, is abandoned or is closed around it, the pool serves its
\* callers in order: those whose job runs on the synchronous path hold a
\* connection.
Pool == INSTANCE ConnectionPool WITH
          Caller <- Req, Max <- PoolMax, holds <- Holding, queue <- waiters
ImplementsPool == Pool!Spec

\* Whatever the database does, a request is answered when REQUEST_TIMEOUT_MS
\* is set, and every response ends in 'finish' or with its client gone.
EveryoneIsAnswered == \A r \in Req :
  set.timeout /\ stage[r] # "idle" ~> stage[r] \in {"done", "leaked"} \/ server = "exited"
=============================================================================
