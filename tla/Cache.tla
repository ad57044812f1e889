-------------------------------- MODULE Cache --------------------------------
(***************************************************************************)
(* The cache in front of the reservation paths (app/src/cache.js) and the  *)
(* short circuit of createReservation that answers from it: a bounded map  *)
(* per app instance, Redis shared by all, loads of the same key shared by  *)
(* singleflight, entries that expire at any time, and Redis commands and   *)
(* queries that fail.                                                      *)
(*                                                                         *)
(* A cached state is what the short circuit tells apart: "missing",        *)
(* "sold_out" or "open".  The reservation itself is one step, as           *)
(* ReservationTx shows, with a key of its own.                             *)
(***************************************************************************)
EXTENDS ReservationBase, Sequences

CONSTANTS
  Call,       \* requests, each made once
  Instance,   \* app processes
  At,         \* the instance that serves each call
  NoCall,     \* no load is under way
  LocalMax,   \* CACHE_LOCAL_MAX
  Modes       \* settings of CACHE_MODE and SINGLEFLIGHT, one chosen per behaviour

Mode == [local : BOOLEAN, redis : BOOLEAN, flight : BOOLEAN]

ASSUME AtAssumption       == At \in [Call -> Instance]
ASSUME NoCallAssumption   == NoCall \notin Call
ASSUME LocalMaxAssumption == LocalMax \in Nat \ {0}
ASSUME ModesAssumption    == Modes \subseteq Mode /\ \A m \in Modes : m.local \/ m.redis

VARIABLES
  mode,       \* which tiers are on
  remaining,  \* committed column events.remaining
  local,      \* the Map of each instance, oldest entry first
  redis,      \* the Redis entries
  inflight,   \* per instance and event, the call whose load others share
  step,       \* where each call is in createReservation
  req,        \* what it asks for
  got,        \* the state cacheGet has for it, or read for it
  answer      \* what it was answered

tiers == <<local, redis>>
vars  == <<mode, remaining, local, redis, inflight, step, req, got, answer>>

State   == {"missing", "sold_out", "open"}
Nothing == "nothing"
Entry   == [event : EventId, state : State, live : BOOLEAN]
Step    == {"idle", "join", "redis", "load", "fill", "set", "judge", "write", "put", "putset", "done"}
Reply   == {"none", "created", "sold_out", "not_found", "refused", "unknown", "error"}

EventOf(c) == req[c].event

Init ==
  /\ mode \in Modes
  /\ remaining = Total
  /\ local = [i \in Instance |-> <<>>]
  /\ redis = [e \in EventId |-> Nothing]
  /\ inflight = [i \in Instance |-> [e \in EventId |-> NoCall]]
  /\ step = [c \in Call |-> "idle"]
  /\ req \in [Call -> Request]
  /\ got = [c \in Call |-> Nothing]
  /\ answer = [c \in Call |-> "none"]

Goto(c, l)   == step' = [step EXCEPT ![c] = l]
Finish(c, o) == Goto(c, "done") /\ answer' = [answer EXCEPT ![c] = o]

-----------------------------------------------------------------------------
(* The local tier.                                                         *)

Find(map, e) == {n \in DOMAIN map : map[n].event = e}
Fresh(i, e)  == {n \in Find(local[i], e) : local[i][n].live}

\* Map.delete of the only entry a key can have.
Without(map, e) ==
  IF Find(map, e) = {} THEN map
  ELSE LET n == CHOOSE k \in Find(map, e) : TRUE
       IN  [k \in 1 .. Len(map) - 1 |-> IF k < n THEN map[k] ELSE map[k + 1]]

\* Map.set keeps the place of a key that is there.
SetIn(map, x) ==
  IF Find(map, x.event) = {}
    THEN Append(map, x)
    ELSE [n \in DOMAIN map |-> IF map[n].event = x.event THEN x ELSE map[n]]

\* Fault: the map is not bounded.
LocalSetUnbounded(map, e, s) == SetIn(map, [event |-> e, state |-> s, live |-> TRUE])

\* A full map loses its oldest entry first, whether or not the key is new.
LocalSet(map, e, s) ==
  SetIn(IF Len(map) >= LocalMax THEN Tail(map) ELSE map,
        [event |-> e, state |-> s, live |-> TRUE])

Remember(c, s) ==
  local' = IF mode.local THEN [local EXCEPT ![At[c]] = LocalSet(@, EventOf(c), s)] ELSE local

-----------------------------------------------------------------------------
(* singleflight                                                            *)

Leads(c) == inflight[At[c]][EventOf(c)] = c
Joined(c) == {d \in Call : step[d] = "join" /\ At[d] = At[c] /\ EventOf(d) = EventOf(c)}
Sharers(c) == {c} \cup (IF Leads(c) THEN Joined(c) ELSE {})

Land(c) == inflight' = [inflight EXCEPT ![At[c]][EventOf(c)] = IF Leads(c) THEN NoCall ELSE @]

\* The promise of c's load resolves for all that share it.
Resolve(c, s) ==
  /\ got' = [d \in Call |-> IF d \in Sharers(c) THEN s ELSE got[d]]
  /\ step' = [d \in Call |-> IF d \in Sharers(c) THEN "judge" ELSE step[d]]
  /\ Land(c)

-----------------------------------------------------------------------------
(* cacheGet                                                                *)

\* An entry that expired is deleted by the look-up that finds it.
Forget(c) == local' = [local EXCEPT ![At[c]] = IF mode.local THEN Without(@, EventOf(c)) ELSE @]

HitLocal(c) ==
  /\ step[c] = "idle"
  /\ mode.local
  /\ \E n \in Fresh(At[c], EventOf(c)) : got' = [got EXCEPT ![c] = local[At[c]][n].state]
  /\ Goto(c, "judge")
  /\ UNCHANGED <<mode, remaining, tiers, inflight, req, answer>>

Misses(c) == step[c] = "idle" /\ (mode.local => Fresh(At[c], EventOf(c)) = {})

\* Fault: a running load is not looked for.
JoinsNever(c) == FALSE /\ Misses(c)

Joins(c) == mode.flight /\ inflight[At[c]][EventOf(c)] # NoCall

Join(c) ==
  /\ Misses(c)
  /\ Joins(c)
  /\ Forget(c)
  /\ Goto(c, "join")
  /\ UNCHANGED <<mode, remaining, redis, inflight, req, got, answer>>

Lead(c) ==
  /\ Misses(c)
  /\ ~Joins(c)
  /\ Forget(c)
  /\ inflight' = IF mode.flight THEN [inflight EXCEPT ![At[c]][EventOf(c)] = c] ELSE inflight
  /\ Goto(c, IF mode.redis THEN "redis" ELSE "load")
  /\ UNCHANGED <<mode, remaining, redis, req, got, answer>>

HitRedis(c) ==
  /\ step[c] = "redis"
  /\ redis[EventOf(c)] # Nothing
  /\ Remember(c, redis[EventOf(c)])
  /\ Resolve(c, redis[EventOf(c)])
  /\ UNCHANGED <<mode, remaining, redis, req, answer>>

\* Nothing is there, or Redis is down or fails: a failure counts as a miss.
MissRedis(c) ==
  /\ step[c] = "redis"
  /\ Goto(c, "load")
  /\ UNCHANGED <<mode, remaining, tiers, inflight, req, got, answer>>

\* loadEventState
StateOf(e) ==
  IF e \notin Event THEN "missing" ELSE IF remaining[e] <= 0 THEN "sold_out" ELSE "open"

\* The query reads the row; its reply comes later.
Load(c) ==
  /\ step[c] = "load"
  /\ got' = [got EXCEPT ![c] = StateOf(EventOf(c))]
  /\ Goto(c, "fill")
  /\ UNCHANGED <<mode, remaining, tiers, inflight, req, answer>>

\* Fault: a load that fails stays in the map of running loads.
LoadFailsInFlight(c) ==
  /\ step[c] = "load"
  /\ step' = [d \in Call |-> IF d \in Sharers(c) THEN "done" ELSE step[d]]
  /\ answer' = [d \in Call |-> IF d \in Sharers(c) THEN "error" ELSE answer[d]]
  /\ UNCHANGED <<mode, remaining, tiers, inflight, req, got>>

\* The query fails for everyone who shares it.
LoadFails(c) ==
  /\ step[c] = "load"
  /\ step' = [d \in Call |-> IF d \in Sharers(c) THEN "done" ELSE step[d]]
  /\ answer' = [d \in Call |-> IF d \in Sharers(c) THEN "error" ELSE answer[d]]
  /\ Land(c)
  /\ UNCHANGED <<mode, remaining, tiers, req, got>>

Fill(c) ==
  /\ step[c] = "fill"
  /\ Remember(c, got[c])
  /\ IF mode.redis
       THEN Goto(c, "set") /\ UNCHANGED <<inflight, got>>
       ELSE Resolve(c, got[c])
  /\ UNCHANGED <<mode, remaining, redis, req, answer>>

\* SET with PX; its failure is swallowed.
SetRedis(c) ==
  /\ step[c] = "set"
  /\ redis' \in {redis, [redis EXCEPT ![EventOf(c)] = got[c]]}
  /\ Resolve(c, got[c])
  /\ UNCHANGED <<mode, remaining, local, req, answer>>

-----------------------------------------------------------------------------
(* createReservation                                                       *)

\* The short circuit: only a refusal is answered from the cache.
Judge(c) ==
  /\ step[c] = "judge"
  /\ CASE got[c] = "missing"  -> Finish(c, "unknown")
       [] got[c] = "sold_out" -> Finish(c, "refused")
       [] got[c] = "open"     -> Goto(c, "write") /\ UNCHANGED answer
  /\ UNCHANGED <<mode, remaining, tiers, inflight, req, got>>

Covers(e, n) == e \in Event /\ remaining[e] >= n

Write(c) ==
  /\ step[c] = "write"
  /\ Covers(EventOf(c), req[c].qty)
  /\ remaining' = [remaining EXCEPT ![EventOf(c)] = @ - req[c].qty]
  /\ Finish(c, "created")
  /\ UNCHANGED <<mode, tiers, inflight, req, got>>

\* sold_out and not_found are put into the cache before they are answered.
WriteRefused(c) ==
  /\ step[c] = "write"
  /\ ~Covers(EventOf(c), req[c].qty)
  /\ got' = [got EXCEPT ![c] = IF EventOf(c) \in Event THEN "sold_out" ELSE "missing"]
  /\ Goto(c, "put")
  /\ UNCHANGED <<mode, remaining, tiers, inflight, req, answer>>

\* Fault: an error is cached as a refusal.
WriteFailsCached(c) ==
  /\ step[c] = "write"
  /\ got' = [got EXCEPT ![c] = "sold_out"]
  /\ Goto(c, "put")
  /\ UNCHANGED <<mode, remaining, tiers, inflight, req, answer>>

WriteFails(c) ==
  /\ step[c] = "write"
  /\ Finish(c, "error")
  /\ UNCHANGED <<mode, remaining, tiers, inflight, req, got>>

RefusalOf(s) == IF s = "missing" THEN "not_found" ELSE "sold_out"

\* cachePut
Put(c) ==
  /\ step[c] = "put"
  /\ Remember(c, got[c])
  /\ IF mode.redis THEN Goto(c, "putset") /\ UNCHANGED answer ELSE Finish(c, RefusalOf(got[c]))
  /\ UNCHANGED <<mode, remaining, redis, inflight, req, got>>

PutRedis(c) ==
  /\ step[c] = "putset"
  /\ redis' \in {redis, [redis EXCEPT ![EventOf(c)] = got[c]]}
  /\ Finish(c, RefusalOf(got[c]))
  /\ UNCHANGED <<mode, remaining, local, inflight, req, got>>

-----------------------------------------------------------------------------
\* An entry outlives its TTL in the Map until somebody looks for it.
ExpireLocal(i) ==
  /\ \E n \in DOMAIN local[i] : local[i][n].live /\ local' = [local EXCEPT ![i][n].live = FALSE]
  /\ UNCHANGED <<mode, remaining, redis, inflight, step, req, got, answer>>

ExpireRedis(e) ==
  /\ redis[e] # Nothing
  /\ redis' = [redis EXCEPT ![e] = Nothing]
  /\ UNCHANGED <<mode, remaining, local, inflight, step, req, got, answer>>

CallStep(c) ==
  \/ HitLocal(c) \/ Join(c) \/ Lead(c) \/ HitRedis(c) \/ MissRedis(c)
  \/ Load(c) \/ LoadFails(c) \/ Fill(c) \/ SetRedis(c)
  \/ Judge(c) \/ Write(c) \/ WriteRefused(c) \/ WriteFails(c) \/ Put(c) \/ PutRedis(c)

Next ==
  \/ \E c \in Call : CallStep(c)
  \/ \E i \in Instance : ExpireLocal(i)
  \/ \E e \in EventId : ExpireRedis(e)

Spec == Init /\ [][Next]_vars

\* The event loop runs every callback, and every command and query is answered
\* or fails.  Clients need not call.
Fairness == \A c \in Call : WF_vars(step[c] # "idle" /\ CallStep(c))

FairSpec == Spec /\ Fairness

-----------------------------------------------------------------------------
TypeOK ==
  /\ mode \in Modes
  /\ remaining \in [Event -> Nat]
  /\ local \in [Instance -> Seq(Entry)]
  /\ redis \in [EventId -> State \cup {Nothing}]
  /\ inflight \in [Instance -> [EventId -> Call \cup {NoCall}]]
  /\ step \in [Call -> Step]
  /\ req \in [Call -> Request]
  /\ got \in [Call -> State \cup {Nothing}]
  /\ answer \in [Call -> Reply]
  /\ \A i \in Instance : Len(local[i]) <= LocalMax
  /\ \A i \in Instance, e \in EventId : Cardinality(Find(local[i], e)) <= 1

Loading(c) == step[c] \in {"redis", "load", "fill", "set"}

\* With singleflight an instance never loads a key twice at once, a call that
\* waits waits for a load that is under way, and a load under way is the one
\* that others find, also after loads that failed.
OneLoadPerKey == mode.flight =>
  /\ \A c, d \in Call :
       Loading(c) /\ Loading(d) /\ At[c] = At[d] /\ EventOf(c) = EventOf(d) => c = d
  /\ \A c \in Call : step[c] = "join" => Loading(inflight[At[c]][EventOf(c)])
  /\ \A c \in Call : Loading(c) <=> inflight[At[c]][EventOf(c)] = c

\* Every copy of event e's state: in a map (expired or not), in Redis, or on
\* its way to a call or to one of them.
Copies(e) ==
  (UNION {{local[i][n].state : n \in Find(local[i], e)} : i \in Instance})
    \cup {redis[e]} \cup {got[c] : c \in {d \in Call : EventOf(d) = e}}

\* However stale, a copy refuses only what the database would: an event that
\* is not there, or one that some request asks too much of.  So with requests
\* of one size a cached refusal is always right.
RefusalHasReason == \A e \in EventId :
  /\ "missing" \in Copies(e) => e \notin Event
  /\ "sold_out" \in Copies(e) =>
       e \in Event /\ \E r \in Request : r.event = e /\ remaining[e] < r.qty

\* A call that reached the cache is answered, whoever's load it shares and
\* whatever fails.
EveryCallFinishes == \A c \in Call : step[c] # "idle" ~> step[c] = "done"

\* Comment at app/src/reservation.js:316: sold_out from the database is the
\* truth and goes into the cache.  A call refused by the short circuit asks
\* for more than is left.
CachedRefusalIsTrue == \A c \in Call :
  answer[c] = "refused" => ~Covers(EventOf(c), req[c].qty)
=============================================================================
