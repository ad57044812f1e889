------------------------------ MODULE Lifecycle ------------------------------
(***************************************************************************)
(* The life of one process: an app instance (app/src/server.js) behind the *)
(* load balancer, or a worker (app/src/worker.js): boot, readiness, the    *)
(* graceful shutdown and its order, crashes, and what restarts it (Docker, *)
(* or the cluster primary of app/src/main.js).  Its broker connection is   *)
(* QueueConn.                                                              *)
(*                                                                         *)
(* HAProxy checks /healthz every interval.  Time is counted in checks: a   *)
(* drain of DRAIN_WAIT_MS contains DrainChecks of them.                    *)
(***************************************************************************)
EXTENDS QueueConn

CONSTANTS
  DrainChecks, \* settings of DRAIN_WAIT_MS, one chosen per behaviour
  Fall, Rise,  \* LB_CHECK_FALL, LB_CHECK_RISE
  MaxOpen,     \* requests being served at once
  MaxStops,    \* how often the process is asked to end
  MaxCrashes,  \* how often it dies by itself
  MaxRedis     \* how often Redis goes away

ASSUME LifeAssumption ==
  /\ DrainChecks \subseteq Nat
  /\ Fall \in Nat \ {0} /\ Rise \in Nat \ {0}
  /\ MaxOpen \in Nat /\ MaxStops \in Nat /\ MaxCrashes \in Nat /\ MaxRedis \in Nat

VARIABLES
  phase,     \* what the process does
  ready,     \* what /healthz answers
  open,      \* reservations being served
  drain,     \* DRAIN_WAIT_MS in checks
  left,      \* how much of it is left
  stopped,   \* SIGTERM was sent: nothing restarts the process by itself
  health,    \* what the load balancer thinks of the server
  streak,    \* checks in a row that contradict it
  redis,     \* Redis accepts connections
  stops, crashes, redisFaults

life   == <<phase, ready, open, left, stopped>>
lb     == <<health, streak>>
limits == <<stops, crashes>>
cache  == <<redis, redisFaults>>
vars   == <<qvars, life, drain, lb, cache, limits>>

\* "offline": quit() was called on a Redis client that is not connected.
Phase == {"down", "cache", "queue", "run", "drain", "close", "closeQueue", "closeCache",
          "offline", "closeDb"}

Serving   == phase \in {"run", "drain"}
Listening == ~consumer /\ Serving
Finishing == {"close", "closeQueue", "closeCache", "offline", "closeDb"}

Init ==
  /\ QueueInit
  /\ phase = "down" /\ ready = FALSE /\ open = 0 /\ left = 0 /\ stopped = FALSE
  /\ drain \in DrainChecks
  /\ health = TRUE /\ streak = 0   \* HAProxy starts with every server up
  /\ redis \in BOOLEAN
  /\ stops = 0 /\ crashes = 0 /\ redisFaults = 0

\* The process is gone, and the requests it was serving with it.
Gone ==
  /\ QueueGone
  /\ phase' = "down" /\ ready' = FALSE /\ open' = 0 /\ left' = 0

-----------------------------------------------------------------------------
(* Boot                                                                    *)

\* restart: unless-stopped, or the fork of a cluster worker.
Start ==
  /\ phase = "down"
  /\ ~stopped
  /\ phase' = IF consumer THEN "queue" ELSE "cache"
  /\ ready' = TRUE
  /\ UNCHANGED <<qvars, open, drain, left, stopped, lb, cache, limits>>

\* Somebody starts the container that was stopped.
Deploy ==
  /\ phase = "down"
  /\ stopped
  /\ stopped' = FALSE
  /\ UNCHANGED <<qvars, phase, ready, open, drain, left, lb, cache, limits>>

\* initCache: connect() resolves when Redis answers and retries until then.
CacheConnected ==
  /\ phase = "cache"
  /\ redis
  /\ phase' = "queue"
  /\ UNCHANGED <<qvars, ready, open, drain, left, stopped, lb, cache, limits>>

BootQueue ==
  /\ phase = "queue"
  /\ InitQueue
  /\ UNCHANGED <<life, drain, lb, cache, limits>>

\* Fault: the app does not catch what initQueue throws.
BootedNoCatch ==
  /\ phase = "queue"
  /\ init = "ok"
  /\ phase' = "run"
  /\ UNCHANGED <<qvars, ready, open, drain, left, stopped, lb, cache, limits>>

\* The app catches what initQueue throws and listens; a worker goes on only if
\* it consumes.
Booted ==
  /\ phase = "queue"
  /\ init = "ok" \/ (init = "failed" /\ ~consumer)
  /\ phase' = "run"
  /\ UNCHANGED <<qvars, ready, open, drain, left, stopped, lb, cache, limits>>

\* worker_fatal: exit 1, whatever the shutdown has come to.
BootFails ==
  /\ phase # "down"
  /\ init = "failed" /\ consumer
  /\ Gone
  /\ UNCHANGED <<drain, stopped, lb, cache, limits>>

-----------------------------------------------------------------------------
(* Requests and health checks                                              *)

\* A request is routed to a server that is up; one that is refused is sent to
\* another server, and one on a kept connection of a closing server gets 503.
Arrive ==
  /\ Listening
  /\ health
  /\ open < MaxOpen
  /\ open' = open + 1
  /\ UNCHANGED <<qvars, phase, ready, drain, left, stopped, lb, cache, limits>>

Answer ==
  /\ open > 0
  /\ open' = open - 1
  /\ UNCHANGED <<qvars, phase, ready, drain, left, stopped, lb, cache, limits>>

\* Fault: /healthz does not look at ready.
HealthzAlwaysOk == Listening

Healthz == Listening /\ ready

\* Fault: the wait is counted on below zero.
CheckNoFloor ==
  /\ ~consumer
  /\ IF Healthz = health
       THEN streak' = 0 /\ UNCHANGED health
       ELSE IF streak + 1 >= (IF health THEN Fall ELSE Rise)
              THEN streak' = 0 /\ health' = ~health
              ELSE streak' = streak + 1 /\ UNCHANGED health
  /\ left' = left - 1
  /\ UNCHANGED <<qvars, phase, ready, open, stopped, drain, cache, limits>>

\* One interval: after Fall failures in a row the server is down, after Rise
\* successes it is up.
Check ==
  /\ ~consumer
  /\ IF Healthz = health
       THEN streak' = 0 /\ UNCHANGED health
       ELSE IF streak + 1 >= (IF health THEN Fall ELSE Rise)
              THEN streak' = 0 /\ health' = ~health
              ELSE streak' = streak + 1 /\ UNCHANGED health
  /\ left' = IF left > 0 THEN left - 1 ELSE 0
  /\ UNCHANGED <<qvars, phase, ready, open, stopped, drain, cache, limits>>

\* /debug/ready/:state, used by hand; not on a server that is draining.
DebugReady ==
  /\ ~consumer
  /\ phase = "run"
  /\ ready' = ~ready
  /\ UNCHANGED <<qvars, phase, open, left, stopped, drain, lb, cache, limits>>

-----------------------------------------------------------------------------
(* Shutdown                                                                *)

Signalled == stops < MaxStops /\ stops' = stops + 1 /\ ~stopped /\ stopped' = TRUE

\* The handlers of the app are installed once it listens, those of a worker when
\* main is waiting for the broker.  Before that the signal ends a process of a
\* cluster; node as process 1 of its container ignores it and goes on booting.
\* A container that is down only stays down.
TermAtBoot ==
  /\ Signalled
  /\ phase \in {"down", "cache", "queue"}
  /\ phase = "queue" /\ consumer => init = "none"
  /\ \/ UNCHANGED <<qvars, phase, ready, open, left>>
     \/ phase # "down" /\ Gone
  /\ UNCHANGED <<drain, lb, cache, crashes>>

\* Fault: the wait for the load balancer is left out.
TermNoWait ==
  /\ Signalled
  /\ ~consumer
  /\ phase = "run"
  /\ ready' = FALSE
  /\ phase' = "close"
  /\ UNCHANGED <<qvars, open, left, drain, lb, cache, crashes>>

Term ==
  /\ Signalled
  /\ ~consumer
  /\ phase = "run"
  /\ ready' = FALSE
  /\ phase' = "drain"
  /\ left' = drain
  /\ UNCHANGED <<qvars, open, drain, lb, cache, crashes>>

\* app.close: no new connections from here on.
Drained ==
  /\ phase = "drain"
  /\ left = 0
  /\ phase' = "close"
  /\ UNCHANGED <<qvars, ready, open, left, stopped, drain, lb, cache, limits>>

\* Fault: the queue is closed first.
ServerClosedLater ==
  /\ phase = "close"
  /\ CloseQueue
  /\ phase' = "closeQueue"
  /\ UNCHANGED <<ready, open, left, stopped, drain, lb, cache, limits>>

\* app.close waits for the requests; then closeQueue.
ServerClosed ==
  /\ phase = "close"
  /\ open = 0
  /\ CloseQueue
  /\ phase' = "closeQueue"
  /\ UNCHANGED <<ready, open, left, stopped, drain, lb, cache, limits>>

\* A worker's handler closes the queue at once, with messages in hand.
TermWorker ==
  /\ Signalled
  /\ consumer
  /\ phase = "run" \/ (phase = "queue" /\ init # "none")
  /\ CloseQueue
  /\ phase' = "closeQueue"
  /\ UNCHANGED <<ready, open, left, drain, lb, cache, crashes>>

\* closeCache calls quit(); after a fault of Redis the client may not be
\* connected.  A worker has no cache.
QueueClosed ==
  /\ phase = "closeQueue"
  /\ quit = "done"
  /\ \/ consumer /\ phase' = "closeDb"
     \/ ~consumer /\ phase' = "closeCache"
     \/ ~consumer /\ redisFaults > 0 /\ phase' = "offline"
  /\ UNCHANGED <<qvars, ready, open, left, stopped, drain, lb, cache, limits>>

\* Connected, quit() is answered or rejected, which is caught.  Not connected, it
\* may stay queued for ever: no step leaves "offline" but the end of the process.
CacheClosed ==
  /\ phase = "closeCache"
  /\ phase' = "closeDb"
  /\ UNCHANGED <<qvars, ready, open, left, stopped, drain, lb, cache, limits>>

\* process.exit(0), after pool.end() (which Overload follows).
DbClosed ==
  /\ phase = "closeDb"
  /\ Gone
  /\ UNCHANGED <<stopped, drain, lb, cache, limits>>

\* The grace period of docker stop, or the 15 s of the primary, run out, wherever
\* the shutdown is and also if the process ignored the signal.
Killed ==
  /\ stopped
  /\ phase # "down"
  /\ Gone
  /\ UNCHANGED <<stopped, drain, lb, cache, limits>>

Crash ==
  /\ phase # "down"
  /\ crashes < MaxCrashes
  /\ crashes' = crashes + 1
  /\ Gone
  /\ UNCHANGED <<stopped, drain, lb, cache, stops>>

\* The ack throws, and so does what the catch does: the rejection ends the process.
OrphanEnds ==
  /\ Orphaned
  /\ Gone
  /\ UNCHANGED <<stopped, drain, lb, cache, limits>>

RedisToggles ==
  /\ \/ ~redis /\ redis' = TRUE /\ UNCHANGED redisFaults
     \/ redis /\ redis' = FALSE /\ redisFaults < MaxRedis /\ redisFaults' = redisFaults + 1
  /\ UNCHANGED <<qvars, life, drain, lb, limits>>

-----------------------------------------------------------------------------
Queues(A) == phase # "down" /\ A /\ UNCHANGED <<life, drain, lb, cache, limits>>
Faulty    == QueueFault /\ UNCHANGED <<life, drain, lb, cache, limits>>
Boots     == Start \/ CacheConnected \/ BootQueue \/ Booted \/ BootFails
Ends      == Drained \/ ServerClosed \/ QueueClosed \/ CacheClosed \/ DbClosed

Next ==
  \/ Boots \/ Ends \/ Queues(QueueStep) \/ Faulty
  \/ Arrive \/ Answer \/ Check \/ DebugReady \/ Deploy
  \/ TermAtBoot \/ Term \/ TermWorker \/ Killed \/ Crash \/ OrphanEnds \/ RedisToggles

Spec == Init /\ [][Next]_vars

\* Docker restarts what died, the event loop runs its callbacks and timers, a
\* lost connection is noticed (heartbeats), requests and jobs end, and HAProxy
\* keeps checking.  Nobody has to start, stop or reconnect anything by hand.
Fairness ==
  /\ WF_vars(Boots \/ Ends \/ Queues(ChannelClosed \/ ConnectionClosed))
  /\ WF_vars(Queues(TimerFires))
  /\ \A k \in Slot : WF_vars(Queues(Attempt(k))) /\ WF_vars(Queues(NoticeLoss(k)))
  /\ WF_vars(Answer) /\ WF_vars(Check)

FairSpec == Spec /\ Fairness

-----------------------------------------------------------------------------
LifeTypeOK ==
  /\ phase \in Phase
  /\ ready \in BOOLEAN /\ stopped \in BOOLEAN /\ health \in BOOLEAN /\ redis \in BOOLEAN
  /\ open \in 0 .. MaxOpen
  /\ drain \in DrainChecks /\ left \in 0 .. drain
  /\ streak \in Nat
  /\ stops \in 0 .. MaxStops /\ crashes \in 0 .. MaxCrashes /\ redisFaults \in 0 .. MaxRedis

\* Every variable of the process and of its connection has its type.
TypeOK == QueueTypeOK /\ LifeTypeOK

\* docs/labs/03-loadbalancer.md:256: with a drain longer than inter x fall the
\* load balancer takes the server out before it stops listening, so no request
\* is sent to a closed port while the process shuts down.
NoDeadWindow ==
  ~consumer /\ phase \in Finishing /\ drain >= Fall => ~health

\* server.js:324-330: while a reservation is being served, what it may need is
\* still there, whatever signal arrived: the queue is not closing.
ResourcesOutliveRequests == open > 0 => ~closing /\ phase \in {"run", "drain", "close"}

\* server.js:324-354, worker.js:162-168, queue.js:171-176: a shutdown that has
\* begun ends by itself, whatever was under way: a drain, requests, a connection
\* attempt, an event of a connection that is gone, a message in hand.  It hangs in
\* two places only, and is killed then: in closeQueue, if the connection is lost
\* before the broker answered, and in closeCache, if Redis is not connected.
ShutdownEnds ==
  phase \in {"drain"} \cup Finishing ~> phase = "down" \/ quit = "lost" \/ phase = "offline"

\* server.js:300-304: an app that was started listens in the end, although the
\* broker is down or goes away under its first attempt, unless it is told to end
\* or dies.  Its boot does wait for Redis, as long as that takes and no longer.
BootEnds ==
  ([]<>redis) => (phase \in {"cache", "queue"} /\ ~consumer ~> phase \in {"run", "down"})

\* server.js:292-293: an app that does not find Redis listens all the same.
ListensWithoutRedis == phase = "cache" ~> phase \in {"queue", "run", "down"}

\* queue.js:86-93, worker.js:61-65: once the broker stays up, a process that
\* runs can publish, and a worker consumes, again and again, with nobody's
\* help, unless a channel closed alone or the process is told to end.
Works == mqReady /\ (consumer => \E k \in Slot : consumes[k] > 0 /\ link[k] = "open")
FindsBroker ==
  (<>[]broker) => [](phase = "run" => <>(Works \/ phase # "run" \/ channelFaults > 0))
=============================================================================
