------------------------------ MODULE CacheProofs ------------------------------
(***************************************************************************)
(* Cache for any number of calls, app instances and events, any map size   *)
(* and any settings.                                                       *)
(***************************************************************************)
EXTENDS Cache, FiniteSetTheorems, TLAPS

-----------------------------------------------------------------------------
(* The local map                                                           *)

\* A map the code can have built: bounded, one entry per key.
Bounded(map) == map \in Seq(Entry) /\ Len(map) <= LocalMax
KeyedBy(map) == \A m, n \in DOMAIN map : map[m].event = map[n].event => m = n

\* Whatever a map holds is what was there or what was put.
StatesIn(map, e) == {map[n].state : n \in Find(map, e)}

LEMMA FindIsSmall ==
  ASSUME NEW map, NEW e, KeyedBy(map)
  PROVE  Cardinality(Find(map, e)) <= 1 /\ Cardinality(Find(map, e)) \in Nat
<1>1. CASE Find(map, e) = {}
  BY <1>1, FS_EmptySet
<1>2. CASE Find(map, e) # {}
  <2>1. PICK n : n \in Find(map, e)
    BY <1>2
  <2>2. Find(map, e) = {n}
    BY <2>1 DEF Find, KeyedBy
  <2>3. Cardinality({n}) = 1
    BY FS_Singleton
  <2>. QED
    BY <2>2, <2>3
<1>. QED
  BY <1>1, <1>2

LEMMA KeyedOfCount ==
  ASSUME NEW map \in Seq(Entry), \A e \in EventId : Cardinality(Find(map, e)) <= 1
  PROVE  KeyedBy(map)
<1>. SUFFICES ASSUME NEW m \in DOMAIN map, NEW n \in DOMAIN map, map[m].event = map[n].event
              PROVE  m = n
  BY DEF KeyedBy
<1>1. map[m].event \in EventId
  <2>1. map[m] \in Entry
    OBVIOUS
  <2>. QED
    BY <2>1 DEF Entry
<1>. DEFINE S == Find(map, map[m].event)
<1>2. {m, n} \subseteq S /\ S \subseteq 1 .. Len(map) /\ Len(map) \in Nat
  BY DEF Find
<1>3. IsFiniteSet(S)
  <2>1. IsFiniteSet(1 .. Len(map)) /\ S \in SUBSET (1 .. Len(map))
    BY <1>2, FS_Interval
  <2>. HIDE DEF S
  <2>. QED
    BY <2>1, FS_Subset
<1>4. Cardinality(S) \in Nat /\ Cardinality(S) <= 1
  BY <1>1, <1>3, FS_CardinalityType
<1>5. CASE m # n
  <2>1. IsFiniteSet({m}) /\ Cardinality({m}) = 1 /\ {m} \in SUBSET S /\ {m} # S
    BY <1>2, <1>5, FS_Singleton
  <2>2. Cardinality({m}) < Cardinality(S)
    <3>. HIDE DEF S
    <3>1. Cardinality({m}) <= Cardinality(S) /\ Cardinality({m}) # Cardinality(S)
      BY <1>3, <2>1, FS_Subset
    <3>. QED
      BY <1>4, <2>1, <3>1
  <2>. QED
    BY <1>4, <2>1, <2>2
<1>. QED
  BY <1>5

LEMMA WithoutType ==
  ASSUME NEW map \in Seq(Entry), KeyedBy(map), Len(map) <= LocalMax, NEW e
  PROVE  /\ Bounded(Without(map, e)) /\ KeyedBy(Without(map, e))
         /\ \A f : StatesIn(Without(map, e), f) \subseteq StatesIn(map, f)
<1>1. CASE Find(map, e) = {}
  BY <1>1 DEF Without, Bounded
<1>2. CASE Find(map, e) # {}
  <2>1. PICK n : n \in Find(map, e) /\ n = CHOOSE k \in Find(map, e) : TRUE
    BY <1>2
  <2>2. n \in 1 .. Len(map) /\ Len(map) \in Nat
    BY <2>1 DEF Find
  <2>3. Without(map, e) = [k \in 1 .. Len(map) - 1 |-> IF k < n THEN map[k] ELSE map[k + 1]]
    BY <1>2, <2>1 DEF Without
  <2>4. \A k \in 1 .. Len(map) - 1 : k \in 1 .. Len(map) /\ k + 1 \in 1 .. Len(map)
    BY <2>2
  <2>5. \A k \in 1 .. Len(map) : map[k] \in Entry
    OBVIOUS
  <2>6. PICK w : w = Without(map, e)
    OBVIOUS
  <2>7. /\ w = [k \in 1 .. Len(map) - 1 |-> IF k < n THEN map[k] ELSE map[k + 1]]
        /\ \A k \in 1 .. Len(map) - 1 : w[k] \in Entry
        /\ DOMAIN w = 1 .. Len(map) - 1
    BY <2>3, <2>4, <2>5, <2>6
  <2>8. w \in Seq(Entry) /\ Len(w) = Len(map) - 1
    <3>1. Len(map) - 1 \in Nat
      BY <2>2
    <3>. QED
      BY <2>7, <3>1
  <2>9. Bounded(w)
    BY <2>2, <2>8, LocalMaxAssumption DEF Bounded
  <2>10. ASSUME NEW k \in DOMAIN w
         PROVE  \E j \in DOMAIN map : j = (IF k < n THEN k ELSE k + 1) /\ w[k] = map[j]
    BY <2>4, <2>7
  <2>11. KeyedBy(w)
    <3>. SUFFICES ASSUME NEW k \in DOMAIN w, NEW l \in DOMAIN w, w[k].event = w[l].event PROVE k = l
      BY DEF KeyedBy
    <3>1. PICK i \in DOMAIN map : i = (IF k < n THEN k ELSE k + 1) /\ w[k] = map[i]
      BY <2>10
    <3>2. PICK j \in DOMAIN map : j = (IF l < n THEN l ELSE l + 1) /\ w[l] = map[j]
      BY <2>10
    <3>3. i = j
      BY <3>1, <3>2 DEF KeyedBy
    <3>. QED
      BY <2>2, <2>7, <3>1, <3>2, <3>3
  <2>12. \A f : StatesIn(w, f) \subseteq StatesIn(map, f)
    BY <2>10 DEF StatesIn, Find
  <2>. QED
    BY <2>6, <2>9, <2>11, <2>12
<1>. QED
  BY <1>1, <1>2

LEMMA SetInType ==
  ASSUME NEW map \in Seq(Entry), KeyedBy(map), NEW x \in Entry
  PROVE  /\ SetIn(map, x) \in Seq(Entry) /\ KeyedBy(SetIn(map, x))
         /\ Len(SetIn(map, x)) <= Len(map) + 1
         /\ Find(map, x.event) # {} => Len(SetIn(map, x)) = Len(map)
         /\ \A f : StatesIn(SetIn(map, x), f) \subseteq
                     StatesIn(map, f) \cup (IF f = x.event THEN {x.state} ELSE {})
<1>0. Len(map) \in Nat /\ DOMAIN map = 1 .. Len(map) /\ \A k \in 1 .. Len(map) : map[k] \in Entry
  OBVIOUS
<1>1. CASE Find(map, x.event) = {}
  <2>1. PICK w : w = SetIn(map, x)
    OBVIOUS
  <2>2. w = Append(map, x)
    BY <1>1, <2>1 DEF SetIn
  <2>3. /\ w \in Seq(Entry) /\ Len(w) = Len(map) + 1 /\ DOMAIN w = 1 .. Len(map) + 1
        /\ w[Len(map) + 1] = x /\ \A k \in 1 .. Len(map) : w[k] = map[k]
    BY <1>0, <2>2
  <2>4. \A k \in DOMAIN w : k \in DOMAIN map \/ k = Len(map) + 1
    BY <1>0, <2>3
  <2>5. KeyedBy(w)
    BY <1>0, <1>1, <2>3, <2>4 DEF KeyedBy, Find
  <2>6. \A f : StatesIn(w, f) \subseteq StatesIn(map, f) \cup (IF f = x.event THEN {x.state} ELSE {})
    BY <1>0, <2>3, <2>4 DEF StatesIn, Find
  <2>. QED
    BY <1>0, <1>1, <2>1, <2>3, <2>5, <2>6
<1>2. CASE Find(map, x.event) # {}
  <2>1. PICK w : w = SetIn(map, x)
    OBVIOUS
  <2>2. w = [n \in DOMAIN map |-> IF map[n].event = x.event THEN x ELSE map[n]]
    BY <1>2, <2>1 DEF SetIn
  <2>3. w \in Seq(Entry) /\ Len(w) = Len(map) /\ DOMAIN w = DOMAIN map
    BY <1>0, <2>2
  <2>4. \A k \in DOMAIN map : w[k] = (IF map[k].event = x.event THEN x ELSE map[k])
    BY <2>2
  <2>5. KeyedBy(w)
    BY <2>3, <2>4 DEF KeyedBy
  <2>6. \A f : StatesIn(w, f) \subseteq StatesIn(map, f) \cup (IF f = x.event THEN {x.state} ELSE {})
    BY <2>3, <2>4 DEF StatesIn, Find
  <2>. QED
    BY <1>0, <2>1, <2>3, <2>5, <2>6
<1>. QED
  BY <1>1, <1>2

LEMMA TailType ==
  ASSUME NEW map \in Seq(Entry), KeyedBy(map), map # <<>>
  PROVE  /\ Tail(map) \in Seq(Entry) /\ KeyedBy(Tail(map)) /\ Len(Tail(map)) = Len(map) - 1
         /\ \A f : StatesIn(Tail(map), f) \subseteq StatesIn(map, f)
<1>1. /\ Tail(map) \in Seq(Entry) /\ Len(Tail(map)) = Len(map) - 1 /\ Len(map) \in Nat
      /\ DOMAIN map = 1 .. Len(map) /\ DOMAIN Tail(map) = 1 .. Len(map) - 1
      /\ \A k \in 1 .. Len(map) - 1 : Tail(map)[k] = map[k + 1]
  OBVIOUS
<1>2. \A k \in DOMAIN Tail(map) : k + 1 \in DOMAIN map /\ Tail(map)[k] = map[k + 1]
  BY <1>1
<1>3. KeyedBy(Tail(map))
  <2>. SUFFICES ASSUME NEW k \in DOMAIN Tail(map), NEW l \in DOMAIN Tail(map),
                       Tail(map)[k].event = Tail(map)[l].event
                PROVE  k = l
    BY DEF KeyedBy
  <2>1. k + 1 = l + 1
    BY <1>2 DEF KeyedBy
  <2>. QED
    BY <1>1, <2>1
<1>4. \A f : StatesIn(Tail(map), f) \subseteq StatesIn(map, f)
  BY <1>2 DEF StatesIn, Find
<1>. QED
  BY <1>1, <1>3, <1>4

\* localSet keeps the bound and puts one state in.
LEMMA LocalSetType ==
  ASSUME NEW map, Bounded(map), KeyedBy(map), NEW e \in EventId, NEW s \in State
  PROVE  /\ Bounded(LocalSet(map, e, s)) /\ KeyedBy(LocalSet(map, e, s))
         /\ \A f : StatesIn(LocalSet(map, e, s), f) \subseteq
                     StatesIn(map, f) \cup (IF f = e THEN {s} ELSE {})
<1>0. [event |-> e, state |-> s, live |-> TRUE] \in Entry
  BY DEF Entry
<1>1. PICK x \in Entry : x = [event |-> e, state |-> s, live |-> TRUE] /\ x.event = e /\ x.state = s
  BY <1>0
<1>2. map \in Seq(Entry) /\ Len(map) \in Nat /\ Len(map) <= LocalMax /\ LocalMax \in Nat \ {0}
  BY LocalMaxAssumption DEF Bounded
<1>3. CASE Len(map) >= LocalMax
  <2>1. map # <<>>
    BY <1>2, <1>3
  <2>2. LocalSet(map, e, s) = SetIn(Tail(map), x)
    BY <1>1, <1>3 DEF LocalSet
  <2>3. /\ Tail(map) \in Seq(Entry) /\ KeyedBy(Tail(map)) /\ Len(Tail(map)) = Len(map) - 1
        /\ \A f : StatesIn(Tail(map), f) \subseteq StatesIn(map, f)
    BY <1>2, <2>1, TailType
  <2>4. PICK t \in Seq(Entry) : t = Tail(map)
    BY <2>3
  <2>5. PICK w : w = SetIn(t, x)
    OBVIOUS
  <2>6. /\ w \in Seq(Entry) /\ KeyedBy(w) /\ Len(w) <= Len(t) + 1
        /\ \A f : StatesIn(w, f) \subseteq StatesIn(t, f) \cup (IF f = x.event THEN {x.state} ELSE {})
    <3>1. KeyedBy(t)
      BY <2>3, <2>4
    <3>. QED
      BY <2>5, <3>1, SetInType
  <2>7. Bounded(w)
    BY <1>2, <2>3, <2>4, <2>6 DEF Bounded
  <2>8. \A f : StatesIn(w, f) \subseteq StatesIn(map, f) \cup (IF f = e THEN {s} ELSE {})
    BY <1>1, <2>3, <2>4, <2>6
  <2>. QED
    BY <2>2, <2>4, <2>5, <2>6, <2>7, <2>8
<1>4. CASE ~(Len(map) >= LocalMax)
  <2>1. PICK w : w = SetIn(map, x)
    OBVIOUS
  <2>2. LocalSet(map, e, s) = w
    BY <1>1, <1>4, <2>1 DEF LocalSet
  <2>3. /\ w \in Seq(Entry) /\ KeyedBy(w) /\ Len(w) <= Len(map) + 1
        /\ \A f : StatesIn(w, f) \subseteq StatesIn(map, f) \cup (IF f = e THEN {s} ELSE {})
    BY <1>1, <1>2, <2>1, SetInType
  <2>4. Bounded(w)
    BY <1>2, <1>4, <2>3 DEF Bounded
  <2>. QED
    BY <2>2, <2>3, <2>4
<1>. QED
  BY <1>3, <1>4

-----------------------------------------------------------------------------
(* The invariant                                                           *)

\* A state that the database would confirm, for some request at least.
Just(e, s) ==
  /\ s = "missing" => e \notin Event
  /\ s = "sold_out" => e \in Event /\ \E r \in Request : r.event = e /\ remaining[e] < r.qty

Base ==
  /\ mode \in Modes
  /\ remaining \in [Event -> Nat]
  /\ redis \in [EventId -> State \cup {Nothing}]
  /\ inflight \in [Instance -> [EventId -> Call \cup {NoCall}]]
  /\ step \in [Call -> Step]
  /\ req \in [Call -> Request]
  /\ got \in [Call -> State \cup {Nothing}]
  /\ answer \in [Call -> Reply]

MapOK(map) ==
  /\ Bounded(map) /\ KeyedBy(map)
  /\ \A e \in EventId : \A s \in StatesIn(map, e) : Just(e, s)

Maps == local \in [Instance -> Seq(Entry)] /\ \A i \in Instance : MapOK(local[i])

\* What is in Redis, and what a call read and goes on with.
Seen ==
  /\ \A e \in EventId : Just(e, redis[e])
  /\ \A c \in Call : /\ Just(EventOf(c), got[c])
                     /\ step[c] \in {"fill", "set", "judge", "put", "putset"} => got[c] # Nothing

\* The load others find is under way, is for their key, and is the only one.
Flight == mode.flight =>
  /\ \A i \in Instance, e \in EventId, d \in Call :
       inflight[i][e] = d => At[d] = i /\ EventOf(d) = e /\ Loading(d)
  /\ \A c \in Call : Loading(c) => inflight[At[c]][EventOf(c)] = c
  /\ \A c \in Call : step[c] = "join" => inflight[At[c]][EventOf(c)] # NoCall

Inv == Base /\ Maps /\ Seen /\ Flight

LEMMA CallType ==
  ASSUME Base, NEW c \in Call
  PROVE  /\ req[c] \in Request /\ EventOf(c) \in EventId /\ req[c].event = EventOf(c)
         /\ req[c].qty \in Nat \ {0} /\ At[c] \in Instance /\ c # NoCall
  BY RequestAssumption, AtAssumption, NoCallAssumption DEF Base, EventOf

LEMMA JustKept ==
  ASSUME UNCHANGED remaining, NEW e, NEW s
  PROVE  Just(e, s)' <=> Just(e, s)
  BY DEF Just

-----------------------------------------------------------------------------
(* The maps                                                                *)

\* Only one map changes, and keeps its shape.
LEMMA MapsMove ==
  ASSUME Maps, UNCHANGED remaining, NEW i \in Instance, NEW map, MapOK(map),
         local' = [local EXCEPT ![i] = map]
  PROVE  Maps'
<1>1. map \in Seq(Entry)
  BY DEF MapOK, Bounded
<1>2. local' \in [Instance -> Seq(Entry)]
  BY <1>1 DEF Maps
<1>3. ASSUME NEW j \in Instance PROVE MapOK(local'[j])
  BY <1>3 DEF Maps
<1>4. \A j \in Instance : MapOK(local[j])'
  BY <1>3, JustKept DEF MapOK
<1>. QED
  BY <1>2, <1>4 DEF Maps

LEMMA MapsStay ==
  ASSUME Maps, UNCHANGED <<remaining, local>>
  PROVE  Maps'
  BY JustKept DEF Maps, MapOK

LEMMA RememberMaps ==
  ASSUME Base, Maps, UNCHANGED remaining, NEW c \in Call, NEW s \in State,
         Just(EventOf(c), s), Remember(c, s)
  PROVE  Maps'
<1>1. CASE ~mode.local
  BY <1>1, MapsStay DEF Remember
<1>2. CASE mode.local
  <2>1. At[c] \in Instance /\ EventOf(c) \in EventId /\ MapOK(local[At[c]])
    BY CallType DEF Maps
  <2>2. PICK map : map = LocalSet(local[At[c]], EventOf(c), s)
    OBVIOUS
  <2>3. /\ Bounded(map) /\ KeyedBy(map)
        /\ \A f : StatesIn(map, f) \subseteq
                    StatesIn(local[At[c]], f) \cup (IF f = EventOf(c) THEN {s} ELSE {})
    BY <2>1, <2>2, LocalSetType DEF MapOK
  <2>4. MapOK(map)
    BY <2>1, <2>3 DEF MapOK
  <2>5. local' = [local EXCEPT ![At[c]] = map]
    BY <1>2, <2>2 DEF Remember
  <2>. QED
    BY <2>1, <2>4, <2>5, MapsMove
<1>. QED
  BY <1>1, <1>2

LEMMA ForgetMaps ==
  ASSUME Base, Maps, UNCHANGED remaining, NEW c \in Call, Forget(c)
  PROVE  Maps'
<1>1. At[c] \in Instance /\ MapOK(local[At[c]]) /\ local[At[c]] \in Seq(Entry)
  BY CallType DEF Maps
<1>2. PICK map : map = IF mode.local THEN Without(local[At[c]], EventOf(c)) ELSE local[At[c]]
  OBVIOUS
<1>3. MapOK(map)
  <2>1. CASE mode.local
    <3>1. /\ Bounded(map) /\ KeyedBy(map)
          /\ \A f : StatesIn(map, f) \subseteq StatesIn(local[At[c]], f)
      BY <1>1, <1>2, <2>1, WithoutType DEF MapOK, Bounded
    <3>. QED
      BY <1>1, <3>1 DEF MapOK
  <2>. QED
    BY <1>1, <1>2, <2>1
<1>4. local' = [local EXCEPT ![At[c]] = map]
  BY <1>2 DEF Forget
<1>. QED
  BY <1>1, <1>3, <1>4, MapsMove

LEMMA ExpireMaps ==
  ASSUME Maps, NEW i \in Instance, ExpireLocal(i)
  PROVE  Maps'
<1>1. PICK n \in DOMAIN local[i] : local' = [local EXCEPT ![i][n].live = FALSE]
  BY DEF ExpireLocal
<1>2. PICK m : m = local[i]
  OBVIOUS
<1>3. PICK map : map = [m EXCEPT ![n].live = FALSE]
  OBVIOUS
<1>4. m \in Seq(Entry) /\ MapOK(m) /\ n \in DOMAIN m /\ DOMAIN m = 1 .. Len(m) /\ Len(m) \in Nat
  BY <1>1, <1>2 DEF Maps
<1>5. local' = [local EXCEPT ![i] = map]
  BY <1>1, <1>2, <1>3 DEF Maps
<1>6. DOMAIN map = DOMAIN m /\ \A k \in DOMAIN m : k # n => map[k] = m[k]
  BY <1>3, <1>4
<1>7. map[n] = [m[n] EXCEPT !.live = FALSE] /\ m[n] \in Entry
  BY <1>3, <1>4
<1>8. map[n] \in Entry /\ map[n].event = m[n].event /\ map[n].state = m[n].state
  BY <1>7 DEF Entry
<1>9. \A k \in DOMAIN m : map[k] \in Entry /\ map[k].event = m[k].event /\ map[k].state = m[k].state
  BY <1>4, <1>6, <1>8
<1>10. map \in Seq(Entry) /\ Len(map) = Len(m)
  <2>1. map = [k \in 1 .. Len(m) |-> map[k]]
    BY <1>3, <1>4
  <2>. QED
    BY <1>4, <1>9, <2>1
<1>11. KeyedBy(map) /\ \A e : StatesIn(map, e) = StatesIn(m, e)
  BY <1>4, <1>6, <1>9 DEF KeyedBy, MapOK, StatesIn, Find
<1>12. MapOK(map)
  BY <1>4, <1>10, <1>11 DEF MapOK, Bounded
<1>. QED
  BY <1>5, <1>12, MapsMove DEF ExpireLocal

\* A booking only makes a refusal more right.
LEMMA WriteShrinks ==
  ASSUME Base, NEW c \in Call, Write(c)
  PROVE  /\ remaining' \in [Event -> Nat]
         /\ \A e, s : Just(e, s) => Just(e, s)'
<1>1. /\ EventOf(c) \in Event /\ remaining[EventOf(c)] >= req[c].qty
      /\ remaining' = [remaining EXCEPT ![EventOf(c)] = @ - req[c].qty]
      /\ req[c].qty \in Nat \ {0}
  BY CallType DEF Write, Covers
<1>2. remaining[EventOf(c)] - req[c].qty \in Nat
  BY <1>1 DEF Base
<1>3. remaining' \in [Event -> Nat]
  BY <1>1, <1>2 DEF Base
<1>4. \A e \in Event : remaining'[e] <= remaining[e]
  BY <1>1, <1>2 DEF Base
<1>5. ASSUME NEW e, NEW s, Just(e, s) PROVE Just(e, s)'
  <2>1. CASE s = "sold_out"
    <3>1. PICK r \in Request : e \in Event /\ r.event = e /\ remaining[e] < r.qty
      BY <1>5, <2>1 DEF Just
    <3>2. remaining'[e] < r.qty
      <4>1. r.qty \in Nat /\ remaining[e] \in Nat /\ remaining'[e] \in Nat /\ remaining'[e] <= remaining[e]
        BY <1>3, <1>4, <3>1, RequestAssumption DEF Base
      <4>. QED
        BY <3>1, <4>1
    <3>. QED
      BY <2>1, <3>1, <3>2 DEF Just
  <2>2. CASE s # "sold_out"
    BY <1>5, <2>2 DEF Just
  <2>. QED
    BY <2>1, <2>2
<1>. QED
  BY <1>3, <1>5

LEMMA MapsStep ==
  ASSUME Base, Maps, Seen, [Next]_vars
  PROVE  Maps'
<1>1. ASSUME NEW c \in Call, CallStep(c) PROVE Maps'
  <2>1. CASE UNCHANGED <<remaining, local>>
    BY <2>1, MapsStay
  <2>2. CASE Join(c) \/ Lead(c)
    BY <2>2, ForgetMaps DEF Join, Lead
  <2>3. CASE HitRedis(c)
    <3>1. redis[EventOf(c)] \in State /\ Just(EventOf(c), redis[EventOf(c)])
      BY <2>3, CallType DEF HitRedis, Base, Seen
    <3>. QED
      BY <2>3, <3>1, RememberMaps DEF HitRedis
  <2>4. CASE Fill(c) \/ Put(c)
    <3>1. got[c] \in State /\ Just(EventOf(c), got[c])
      BY <2>4 DEF Fill, Put, Base, Seen
    <3>. QED
      BY <2>4, <3>1, RememberMaps DEF Fill, Put
  <2>5. CASE Write(c)
    BY <2>5, WriteShrinks DEF Write, tiers, Maps, MapOK
  <2>. QED
    BY <1>1, <2>1, <2>2, <2>3, <2>4, <2>5 DEF CallStep, HitLocal, MissRedis, Load, LoadFails, SetRedis,
       Judge, WriteRefused, WriteFails, PutRedis, tiers
<1>2. ASSUME NEW e \in EventId, ExpireRedis(e) PROVE Maps'
  BY <1>2, MapsStay DEF ExpireRedis
<1>3. CASE UNCHANGED vars
  BY <1>3, MapsStay DEF vars, tiers
<1>. QED
  BY <1>1, <1>2, <1>3, ExpireMaps DEF Next

-----------------------------------------------------------------------------
(* What is cached and what was read                                        *)

\* The state of the row, for the request that asks.
LEMMA StateIsJust ==
  ASSUME Base, NEW c \in Call
  PROVE  StateOf(EventOf(c)) \in State /\ Just(EventOf(c), StateOf(EventOf(c)))
<1>1. /\ req[c] \in Request /\ req[c].event = EventOf(c) /\ req[c].qty \in Nat \ {0}
      /\ EventOf(c) \in Event => remaining[EventOf(c)] \in Nat
  BY CallType DEF Base
<1>. QED
  BY <1>1 DEF StateOf, State, Just

LEMMA RefusalIsJust ==
  ASSUME Base, NEW c \in Call, ~Covers(EventOf(c), req[c].qty)
  PROVE  Just(EventOf(c), IF EventOf(c) \in Event THEN "sold_out" ELSE "missing")
<1>1. /\ req[c] \in Request /\ req[c].event = EventOf(c) /\ req[c].qty \in Nat \ {0}
      /\ EventOf(c) \in Event => remaining[EventOf(c)] \in Nat
  BY CallType DEF Base
<1>. QED
  BY <1>1 DEF Covers, Just

LEMMA SharersAgree ==
  ASSUME NEW c \in Call
  PROVE  /\ Sharers(c) \subseteq Call /\ c \in Sharers(c)
         /\ \A d \in Sharers(c) : d # c => step[d] = "join" /\ At[d] = At[c] /\ EventOf(d) = EventOf(c)
         /\ Leads(c) => \A d \in Call :
              step[d] = "join" /\ At[d] = At[c] /\ EventOf(d) = EventOf(c) => d \in Sharers(c)
  BY DEF Sharers, Joined

LEMMA ResolveKeeps ==
  ASSUME Base, Seen, NEW c \in Call, NEW s \in State, Just(EventOf(c), s), Resolve(c, s),
         UNCHANGED <<mode, remaining, req, answer>>,
         redis' \in [EventId -> State \cup {Nothing}], \A e \in EventId : Just(e, redis'[e])
  PROVE  Base' /\ Seen'
<1>1. /\ got' = [d \in Call |-> IF d \in Sharers(c) THEN s ELSE got[d]]
      /\ step' = [d \in Call |-> IF d \in Sharers(c) THEN "judge" ELSE step[d]]
      /\ inflight' = [inflight EXCEPT ![At[c]][EventOf(c)] = IF Leads(c) THEN NoCall ELSE @]
  BY DEF Resolve, Land
<1>2. inflight' \in [Instance -> [EventId -> Call \cup {NoCall}]]
  BY <1>1, CallType DEF Base
<1>3. Base'
  BY <1>1, <1>2 DEF Base, Step
<1>4. ASSUME NEW d \in Call
      PROVE  /\ Just(EventOf(d), got'[d])
             /\ step'[d] \in {"fill", "set", "judge", "put", "putset"} => got'[d] # Nothing
  <2>1. CASE d \in Sharers(c)
    BY <1>1, <2>1, SharersAgree DEF State, Nothing
  <2>2. CASE d \notin Sharers(c)
    BY <1>1, <2>2 DEF Seen
  <2>. QED
    BY <2>1, <2>2
<1>5. Seen'
  BY <1>4, JustKept DEF Seen, EventOf
<1>. QED
  BY <1>3, <1>5

\* Steps that leave cache and table alone and move one call.
LEMMA MoveKeeps ==
  ASSUME Base, Seen, NEW c \in Call, NEW l \in Step, Goto(c, l),
         UNCHANGED <<mode, remaining, redis, req, got>>,
         l \in {"fill", "set", "judge", "put", "putset"} => got[c] # Nothing,
         answer' \in [Call -> Reply], inflight' \in [Instance -> [EventId -> Call \cup {NoCall}]]
  PROVE  Base' /\ Seen'
<1>1. step' = [step EXCEPT ![c] = l]
  BY DEF Goto
<1>2. Base'
  BY <1>1 DEF Base
<1>3. \A d \in Call : step'[d] \in {"fill", "set", "judge", "put", "putset"} => got[d] # Nothing
  BY <1>1 DEF Base, Seen
<1>. QED
  BY <1>2, <1>3, JustKept DEF Seen, EventOf

LEMMA ReadKeeps ==
  ASSUME Base, Seen, NEW c \in Call, NEW l \in Step, Goto(c, l), NEW s \in State,
         got' = [got EXCEPT ![c] = s], Just(EventOf(c), s),
         UNCHANGED <<mode, remaining, redis, inflight, req, answer>>
  PROVE  Base' /\ Seen'
<1>1. step' = [step EXCEPT ![c] = l]
  BY DEF Goto
<1>2. Base'
  BY <1>1 DEF Base
<1>3. ASSUME NEW d \in Call
      PROVE  /\ Just(EventOf(d), got'[d])
             /\ step'[d] \in {"fill", "set", "judge", "put", "putset"} => got'[d] # Nothing
  <2>1. CASE d = c
    BY <1>1, <2>1 DEF Base, State, Nothing
  <2>2. CASE d # c
    BY <1>1, <2>2 DEF Base, Seen
  <2>. QED
    BY <2>1, <2>2
<1>. QED
  BY <1>2, <1>3, JustKept DEF Seen, EventOf

LEMMA FinishType ==
  ASSUME Base, NEW c \in Call, NEW o \in Reply, Finish(c, o)
  PROVE  Goto(c, "done") /\ answer' \in [Call -> Reply]
  BY DEF Finish, Base

LEMMA SeenStep ==
  ASSUME Base, Maps, Seen, [Next]_vars
  PROVE  Base' /\ Seen'
<1>1. ASSUME NEW c \in Call, HitLocal(c) PROVE Base' /\ Seen'
  <2>1. PICK n \in Fresh(At[c], EventOf(c)) : got' = [got EXCEPT ![c] = local[At[c]][n].state]
    BY <1>1 DEF HitLocal
  <2>2. /\ n \in DOMAIN local[At[c]] /\ local[At[c]] \in Seq(Entry) /\ MapOK(local[At[c]])
        /\ n \in Find(local[At[c]], EventOf(c)) /\ EventOf(c) \in EventId
    BY <2>1, CallType DEF Fresh, Find, Maps
  <2>3. local[At[c]][n] \in Entry
    BY <2>2
  <2>4. PICK s \in State : s = local[At[c]][n].state
    BY <2>3 DEF Entry
  <2>5. Just(EventOf(c), s)
    BY <2>2, <2>4 DEF MapOK, StatesIn
  <2>. QED
    BY <1>1, <2>1, <2>4, <2>5, ReadKeeps DEF HitLocal, tiers, Step
<1>2. ASSUME NEW c \in Call, Join(c) PROVE Base' /\ Seen'
  BY <1>2, MoveKeeps DEF Join, Step, Base
<1>3. ASSUME NEW c \in Call, Lead(c) PROVE Base' /\ Seen'
  <2>1. inflight' \in [Instance -> [EventId -> Call \cup {NoCall}]]
    BY <1>3, CallType DEF Lead, Base
  <2>2. PICK l \in {"redis", "load"} : Goto(c, l)
    BY <1>3 DEF Lead
  <2>. QED
    BY <1>3, <2>1, <2>2, MoveKeeps DEF Lead, Step, Base
<1>4. ASSUME NEW c \in Call, HitRedis(c) PROVE Base' /\ Seen'
  <2>1. redis[EventOf(c)] \in State /\ Just(EventOf(c), redis[EventOf(c)])
    BY <1>4, CallType DEF HitRedis, Base, Seen
  <2>. QED
    BY <1>4, <2>1, ResolveKeeps DEF HitRedis, Base, Seen
<1>5. ASSUME NEW c \in Call, MissRedis(c) PROVE Base' /\ Seen'
  BY <1>5, MoveKeeps DEF MissRedis, tiers, Step, Base
<1>6. ASSUME NEW c \in Call, Load(c) PROVE Base' /\ Seen'
  BY <1>6, StateIsJust, ReadKeeps DEF Load, tiers, Step
<1>7. ASSUME NEW c \in Call, LoadFails(c) PROVE Base' /\ Seen'
  <2>1. inflight' \in [Instance -> [EventId -> Call \cup {NoCall}]]
    BY <1>7, CallType DEF LoadFails, Land, Base
  <2>2. Base'
    BY <1>7, <2>1 DEF LoadFails, tiers, Base, Step, Reply
  <2>3. \A d \in Call : step'[d] = "done" \/ step'[d] = step[d]
    BY <1>7 DEF LoadFails
  <2>. QED
    BY <1>7, <2>2, <2>3, JustKept DEF LoadFails, tiers, Seen, EventOf
<1>8. ASSUME NEW c \in Call, Fill(c) PROVE Base' /\ Seen'
  <2>1. got[c] \in State /\ Just(EventOf(c), got[c]) /\ got[c] # Nothing
    BY <1>8 DEF Fill, Base, Seen
  <2>2. CASE mode.redis
    BY <1>8, <2>1, <2>2, MoveKeeps DEF Fill, Step, Base
  <2>3. CASE ~mode.redis
    BY <1>8, <2>1, <2>3, ResolveKeeps DEF Fill, Base, Seen
  <2>. QED
    BY <2>2, <2>3
<1>9. ASSUME NEW c \in Call, SetRedis(c) PROVE Base' /\ Seen'
  <2>1. got[c] \in State /\ Just(EventOf(c), got[c])
    BY <1>9 DEF SetRedis, Base, Seen
  <2>2. redis' \in [EventId -> State \cup {Nothing}] /\ \A e \in EventId : Just(e, redis'[e])
    BY <1>9, <2>1, CallType DEF SetRedis, Base, Seen
  <2>. QED
    BY <1>9, <2>1, <2>2, ResolveKeeps DEF SetRedis
<1>10. ASSUME NEW c \in Call, Judge(c) PROVE Base' /\ Seen'
  <2>1. got[c] \in State
    BY <1>10 DEF Judge, Base, Seen
  <2>2. Finish(c, "unknown") \/ Finish(c, "refused") \/ (Goto(c, "write") /\ UNCHANGED answer)
    BY <1>10, <2>1 DEF Judge, State
  <2>3. answer' \in [Call -> Reply] /\ (Goto(c, "done") \/ Goto(c, "write"))
    BY <2>2, FinishType DEF Reply, Base
  <2>. QED
    BY <1>10, <2>3, MoveKeeps DEF Judge, tiers, Step, Base
<1>11. ASSUME NEW c \in Call, Write(c) PROVE Base' /\ Seen'
  <2>1. Goto(c, "done") /\ answer' \in [Call -> Reply]
    BY <1>11, FinishType DEF Write, Reply
  <2>2. Base'
    BY <1>11, <2>1, WriteShrinks DEF Write, Goto, tiers, Base, Step
  <2>3. \A d \in Call : step'[d] = "done" \/ step'[d] = step[d]
    BY <2>1 DEF Goto, Base
  <2>. QED
    BY <1>11, <2>2, <2>3, WriteShrinks DEF Write, tiers, Seen, EventOf, Just
<1>12. ASSUME NEW c \in Call, WriteRefused(c) PROVE Base' /\ Seen'
  <2>1. PICK s \in State : s = IF EventOf(c) \in Event THEN "sold_out" ELSE "missing"
    BY DEF State
  <2>. QED
    BY <1>12, <2>1, RefusalIsJust, ReadKeeps DEF WriteRefused, tiers, Step
<1>13. ASSUME NEW c \in Call, WriteFails(c) PROVE Base' /\ Seen'
  <2>1. Goto(c, "done") /\ answer' \in [Call -> Reply]
    BY <1>13, FinishType DEF WriteFails, Reply
  <2>. QED
    BY <1>13, <2>1, MoveKeeps DEF WriteFails, tiers, Step, Base
<1>14. ASSUME NEW c \in Call, Put(c) PROVE Base' /\ Seen'
  <2>1. got[c] # Nothing /\ RefusalOf(got[c]) \in Reply
    BY <1>14 DEF Put, Seen, RefusalOf, Reply
  <2>2. answer' \in [Call -> Reply] /\ (Goto(c, "done") \/ Goto(c, "putset"))
    BY <1>14, <2>1, FinishType DEF Put, Base
  <2>. QED
    BY <1>14, <2>1, <2>2, MoveKeeps DEF Put, Step, Base
<1>15. ASSUME NEW c \in Call, PutRedis(c) PROVE Base' /\ Seen'
  <2>1. got[c] \in State /\ Just(EventOf(c), got[c]) /\ RefusalOf(got[c]) \in Reply
    BY <1>15 DEF PutRedis, Base, Seen, RefusalOf, Reply
  <2>2. redis' \in [EventId -> State \cup {Nothing}] /\ \A e \in EventId : Just(e, redis'[e])
    BY <1>15, <2>1, CallType DEF PutRedis, Base, Seen
  <2>3. Goto(c, "done") /\ answer' \in [Call -> Reply]
    BY <1>15, <2>1, FinishType DEF PutRedis
  <2>4. Base'
    BY <1>15, <2>2, <2>3 DEF PutRedis, Goto, Base, Step
  <2>5. \A d \in Call : step'[d] = "done" \/ step'[d] = step[d]
    BY <2>3 DEF Goto, Base
  <2>. QED
    BY <1>15, <2>2, <2>4, <2>5, JustKept DEF PutRedis, Seen, EventOf
<1>16. ASSUME NEW i \in Instance, ExpireLocal(i) PROVE Base' /\ Seen'
  BY <1>16, JustKept DEF ExpireLocal, Base, Seen, EventOf
<1>17. ASSUME NEW e \in EventId, ExpireRedis(e) PROVE Base' /\ Seen'
  <2>1. Base'
    BY <1>17 DEF ExpireRedis, Base
  <2>2. \A f \in EventId : Just(f, redis'[f])
    BY <1>17 DEF ExpireRedis, Base, Seen, Just, Nothing
  <2>. QED
    BY <1>17, <2>1, <2>2, JustKept DEF ExpireRedis, Seen, EventOf
<1>18. CASE UNCHANGED vars
  BY <1>18, JustKept DEF vars, tiers, Base, Seen, EventOf
<1>. QED
  BY <1>1, <1>2, <1>3, <1>4, <1>5, <1>6, <1>7, <1>8, <1>9, <1>10, <1>11, <1>12, <1>13, <1>14, <1>15,
     <1>16, <1>17, <1>18 DEF Next, CallStep

-----------------------------------------------------------------------------
(* One load per key                                                        *)

\* Nobody begins or ends a load, or begins to wait for one.
LEMMA FlightStays ==
  ASSUME Flight, UNCHANGED <<mode, inflight, req>>,
         \A d \in Call : (Loading(d)' <=> Loading(d)) /\ (step'[d] = "join" => step[d] = "join"),
         Base
  PROVE  Flight'
<1>. SUFFICES ASSUME mode.flight PROVE Flight'
  BY DEF Flight
<1>1. \A d \in Call : EventOf(d)' = EventOf(d)
  BY DEF EventOf
<1>2. \A i \in Instance, e \in EventId : inflight[i][e] # NoCall => inflight[i][e] \in Call
  BY DEF Base
<1>. QED
  BY <1>1, <1>2 DEF Flight

\* One call moves to a place with the same role.
LEMMA OneMoves ==
  ASSUME Base, Flight, NEW c \in Call, NEW l \in Step, Goto(c, l), UNCHANGED <<mode, inflight, req>>,
         l # "join", l \in {"redis", "load", "fill", "set"} <=> Loading(c)
  PROVE  Flight'
<1>1. step'[c] = l /\ \A d \in Call : d # c => step'[d] = step[d]
  BY DEF Goto, Base
<1>2. \A d \in Call : (Loading(d)' <=> Loading(d)) /\ (step'[d] = "join" => step[d] = "join")
  BY <1>1 DEF Loading
<1>. QED
  BY <1>2, FlightStays

LEMMA JoinFlight ==
  ASSUME Base, Flight, NEW c \in Call, Join(c)
  PROVE  Flight'
<1>. SUFFICES ASSUME mode.flight PROVE Flight'
  BY DEF Flight, Join
<1>1. /\ step[c] = "idle" /\ step'[c] = "join" /\ \A d \in Call : d # c => step'[d] = step[d]
      /\ inflight[At[c]][EventOf(c)] # NoCall /\ UNCHANGED <<mode, inflight, req>>
  BY DEF Join, Misses, Joins, Goto, Base
<1>2. \A d \in Call : (Loading(d)' <=> Loading(d)) /\ EventOf(d)' = EventOf(d)
  BY <1>1 DEF Loading, EventOf
<1>3. \A i \in Instance, e \in EventId : inflight[i][e] # NoCall => inflight[i][e] \in Call
  BY DEF Base
<1>. QED
  BY <1>1, <1>2, <1>3 DEF Flight

LEMMA LeadFlight ==
  ASSUME Base, Flight, NEW c \in Call, Lead(c)
  PROVE  Flight'
<1>. SUFFICES ASSUME mode.flight PROVE Flight'
  BY DEF Flight, Lead
<1>1. /\ step[c] = "idle" /\ step'[c] \in {"redis", "load"}
      /\ \A d \in Call : d # c => step'[d] = step[d]
      /\ inflight[At[c]][EventOf(c)] = NoCall /\ UNCHANGED <<mode, req>>
      /\ inflight' = [inflight EXCEPT ![At[c]][EventOf(c)] = c]
  BY DEF Lead, Misses, Joins, Goto, Base
<1>2. /\ Loading(c)' /\ ~Loading(c)
      /\ \A d \in Call : d # c => (Loading(d)' <=> Loading(d))
      /\ \A d \in Call : EventOf(d)' = EventOf(d)
  BY <1>1 DEF Loading, EventOf
<1>3. At[c] \in Instance /\ EventOf(c) \in EventId /\ c # NoCall
  BY CallType
<1>4. \A i \in Instance, e \in EventId :
        inflight'[i][e] = IF i = At[c] /\ e = EventOf(c) THEN c ELSE inflight[i][e]
  BY <1>1 DEF Base
<1>5. \A d \in Call : At[d] \in Instance /\ EventOf(d) \in EventId
  BY CallType
<1>6. \A d \in Call : Loading(d)' => inflight'[At[d]][EventOf(d)] = d
  <2>. SUFFICES ASSUME NEW d \in Call, Loading(d)' PROVE inflight'[At[d]][EventOf(d)] = d
    OBVIOUS
  <2>1. CASE d = c
    BY <1>3, <1>4, <2>1
  <2>2. CASE d # c
    <3>1. inflight[At[d]][EventOf(d)] = d /\ d # NoCall
      BY <1>2, <2>2, NoCallAssumption DEF Flight
    <3>. QED
      BY <1>1, <1>4, <1>5, <3>1
  <2>. QED
    BY <2>1, <2>2
<1>7. \A d \in Call : step'[d] = "join" => inflight'[At[d]][EventOf(d)] # NoCall
  <2>. SUFFICES ASSUME NEW d \in Call, step'[d] = "join"
                PROVE  inflight'[At[d]][EventOf(d)] # NoCall
    OBVIOUS
  <2>1. d # c /\ step[d] = "join"
    BY <1>1
  <2>. QED
    BY <1>3, <1>4, <1>5, <2>1 DEF Flight
<1>8. ASSUME NEW i \in Instance, NEW e \in EventId, NEW d \in Call, inflight'[i][e] = d
       PROVE  At[d] = i /\ EventOf(d)' = e /\ Loading(d)'
  <2>1. CASE i = At[c] /\ e = EventOf(c)
    BY <1>2, <1>4, <1>8, <2>1
  <2>2. CASE ~(i = At[c] /\ e = EventOf(c))
    BY <1>2, <1>4, <1>8, <2>2 DEF Flight
  <2>. QED
    BY <2>1, <2>2
<1>. QED
  BY <1>2, <1>6, <1>7, <1>8 DEF Flight

\* The load of c ends, and with it the wait of all that share it.
LEMMA LandFlight ==
  ASSUME Base, Flight, NEW c \in Call, Loading(c), Land(c), UNCHANGED <<mode, req>>,
         NEW l \in {"judge", "done"},
         step' = [d \in Call |-> IF d \in Sharers(c) THEN l ELSE step[d]]
  PROVE  Flight'
<1>. SUFFICES ASSUME mode.flight PROVE Flight'
  BY DEF Flight
<1>1. /\ At[c] \in Instance /\ EventOf(c) \in EventId /\ inflight[At[c]][EventOf(c)] = c /\ Leads(c)
  BY CallType DEF Flight, Leads
<1>2. /\ \A i \in Instance, e \in EventId :
           inflight'[i][e] = IF i = At[c] /\ e = EventOf(c) THEN NoCall ELSE inflight[i][e]
  BY <1>1 DEF Land, Base
<1>3. \A d \in Call : /\ EventOf(d)' = EventOf(d) /\ At[d] \in Instance /\ EventOf(d) \in EventId
                      /\ d # NoCall
  BY CallType DEF EventOf
<1>4. \A d \in Call : /\ d \in Sharers(c) => ~Loading(d)' /\ step'[d] # "join"
                      /\ d \notin Sharers(c) => step'[d] = step[d] /\ (Loading(d)' <=> Loading(d))
  BY DEF Loading
<1>5. c \in Sharers(c) /\ \A d \in Sharers(c) : d # c => step[d] = "join"
  BY SharersAgree
<1>6. \A d \in Call : Loading(d)' => Loading(d) /\ d # c
  BY <1>4, <1>5
<1>7. \A d \in Call : Loading(d) /\ d # c => Loading(d)'
  BY <1>4, <1>5 DEF Loading
<1>8. ASSUME NEW d \in Call, Loading(d)' PROVE inflight'[At[d]][EventOf(d)] = d
  <2>1. inflight[At[d]][EventOf(d)] = d /\ d # c
    BY <1>6, <1>8 DEF Flight
  <2>. QED
    BY <1>1, <1>2, <1>3, <2>1
<1>9. ASSUME NEW d \in Call, step'[d] = "join" PROVE inflight'[At[d]][EventOf(d)] # NoCall
  <2>1. step[d] = "join" /\ ~(At[d] = At[c] /\ EventOf(d) = EventOf(c))
    BY <1>1, <1>4, <1>9, SharersAgree
  <2>. QED
    BY <1>2, <1>3, <2>1 DEF Flight
<1>10. ASSUME NEW i \in Instance, NEW e \in EventId, NEW d \in Call, inflight'[i][e] = d
       PROVE  At[d] = i /\ EventOf(d)' = e /\ Loading(d)'
  <2>1. inflight[i][e] = d /\ ~(i = At[c] /\ e = EventOf(c))
    BY <1>2, <1>3, <1>10
  <2>2. At[d] = i /\ EventOf(d) = e /\ Loading(d) /\ d # c
    BY <2>1 DEF Flight
  <2>. QED
    BY <1>3, <1>7, <2>2
<1>. QED
  BY <1>3, <1>8, <1>9, <1>10 DEF Flight

LEMMA FlightStep ==
  ASSUME Base, Seen, Flight, [Next]_vars
  PROVE  Flight'
<1>1. ASSUME NEW c \in Call, CallStep(c) PROVE Flight'
  <2>1. CASE Join(c) \/ Lead(c)
    BY <2>1, JoinFlight, LeadFlight
  <2>2. CASE HitRedis(c) \/ SetRedis(c) \/ LoadFails(c)
    <3>1. Loading(c) /\ Land(c) /\ UNCHANGED <<mode, req>>
      BY <2>2 DEF HitRedis, SetRedis, LoadFails, Resolve, Loading
    <3>2. PICK l \in {"judge", "done"} :
            step' = [d \in Call |-> IF d \in Sharers(c) THEN l ELSE step[d]]
      BY <2>2 DEF HitRedis, SetRedis, LoadFails, Resolve
    <3>. QED
      BY <3>1, <3>2, LandFlight
  <2>3. CASE Fill(c)
    <3>1. CASE mode.redis
      <4>1. Goto(c, "set") /\ UNCHANGED <<mode, inflight, req>> /\ Loading(c)
        BY <2>3, <3>1 DEF Fill, Loading
      <4>. QED
        BY <4>1, OneMoves DEF Step
    <3>2. CASE ~mode.redis
      <4>1. /\ Loading(c) /\ Land(c) /\ UNCHANGED <<mode, req>>
            /\ step' = [d \in Call |-> IF d \in Sharers(c) THEN "judge" ELSE step[d]]
        BY <2>3, <3>2 DEF Fill, Loading, Resolve
      <4>. QED
        BY <4>1, LandFlight
    <3>. QED
      BY <3>1, <3>2
  <2>4. CASE MissRedis(c) \/ Load(c)
    <3>1. Loading(c) /\ UNCHANGED <<mode, inflight, req>> /\ (Goto(c, "load") \/ Goto(c, "fill"))
      BY <2>4 DEF MissRedis, Load, Loading
    <3>. QED
      BY <3>1, OneMoves DEF Step
  <2>5. CASE \/ HitLocal(c) \/ Judge(c) \/ Write(c) \/ WriteRefused(c) \/ WriteFails(c)
             \/ Put(c) \/ PutRedis(c)
    <3>1. ~Loading(c) /\ UNCHANGED <<mode, inflight, req>>
      BY <2>5 DEF HitLocal, Judge, Write, WriteRefused, WriteFails, Put, PutRedis, Loading
    <3>2. Judge(c) => got[c] \in State
      BY DEF Judge, Base, Seen
    <3>3. \E l \in {"judge", "write", "done", "put", "putset"} : Goto(c, l)
      BY <2>5, <3>2 DEF HitLocal, Judge, Write, WriteRefused, WriteFails, Put, PutRedis, Finish, State
    <3>. QED
      BY <3>1, <3>3, OneMoves DEF Step
  <2>. QED
    BY <1>1, <2>1, <2>2, <2>3, <2>4, <2>5 DEF CallStep
<1>2. CASE UNCHANGED <<mode, inflight, req, step>>
  BY <1>2, FlightStays DEF Loading
<1>. QED
  BY <1>1, <1>2 DEF Next, ExpireLocal, ExpireRedis, vars

-----------------------------------------------------------------------------
LEMMA InvInit == Init => Inv
<1>. SUFFICES ASSUME Init PROVE Inv
  OBVIOUS
<1>1. Base
  BY TotalAssumption DEF Init, Base, Step, Reply
<1>2. Maps
  <2>1. <<>> \in Seq(Entry) /\ Bounded(<<>>) /\ KeyedBy(<<>>)
    BY LocalMaxAssumption DEF Bounded, KeyedBy
  <2>2. \A e : StatesIn(<<>>, e) = {}
    BY DEF StatesIn, Find
  <2>. QED
    BY <2>1, <2>2 DEF Init, Maps, MapOK
<1>3. Seen
  BY DEF Init, Seen, Just, Nothing
<1>4. Flight
  BY NoCallAssumption DEF Init, Flight, Loading
<1>. QED
  BY <1>1, <1>2, <1>3, <1>4 DEF Inv

LEMMA InvHolds == Spec => []Inv
<1>1. Inv /\ [Next]_vars => Inv'
  BY MapsStep, SeenStep, FlightStep DEF Inv
<1>. QED
  BY <1>1, InvInit, PTL DEF Spec

\* The maps of the instances stay bounded with one entry per key, whatever
\* expires, fails or is evicted.
THEOREM TypeCorrect == Spec => []TypeOK
<1>1. Inv => TypeOK
  <2>. SUFFICES ASSUME Inv PROVE TypeOK
    OBVIOUS
  <2>1. \A i \in Instance : Len(local[i]) <= LocalMax
    BY DEF Inv, Maps, MapOK, Bounded
  <2>2. \A i \in Instance, e \in EventId : Cardinality(Find(local[i], e)) <= 1
    BY FindIsSmall DEF Inv, Maps, MapOK
  <2>. QED
    BY <2>1, <2>2 DEF Inv, Base, Maps, TypeOK
<1>. QED
  BY <1>1, InvHolds, PTL

\* singleflight keeps one load per instance and key under way, and nobody waits
\* for a load that is over.
THEOREM LoadsAreShared == Spec => []OneLoadPerKey
<1>1. Inv => OneLoadPerKey
  <2>. SUFFICES ASSUME Inv, mode.flight PROVE OneLoadPerKey
    BY DEF OneLoadPerKey
  <2>1. \A c \in Call : At[c] \in Instance /\ EventOf(c) \in EventId /\ c # NoCall
    BY CallType DEF Inv
  <2>2. \A c \in Call : Loading(c) <=> inflight[At[c]][EventOf(c)] = c
    BY <2>1 DEF Inv, Flight
  <2>3. ASSUME NEW c \in Call, step[c] = "join" PROVE Loading(inflight[At[c]][EventOf(c)])
    <3>1. PICK d \in Call : d = inflight[At[c]][EventOf(c)]
      BY <2>1, <2>3 DEF Inv, Flight, Base
    <3>. QED
      BY <2>1, <3>1 DEF Inv, Flight
  <2>. QED
    BY <2>2, <2>3 DEF OneLoadPerKey
<1>. QED
  BY <1>1, InvHolds, PTL

\* However old a cached refusal is, some request would be refused by the
\* database too.
THEOREM RefusalsAreJust == Spec => []RefusalHasReason
<1>1. Inv => RefusalHasReason
  <2>. SUFFICES ASSUME Inv, NEW e \in EventId, NEW s \in Copies(e) PROVE Just(e, s)
    BY DEF RefusalHasReason, Just
  <2>1. ASSUME NEW i \in Instance, NEW n \in Find(local[i], e), s = local[i][n].state
        PROVE  Just(e, s)
    BY <2>1 DEF Inv, Maps, MapOK, StatesIn
  <2>2. CASE s = redis[e] \/ \E c \in Call : EventOf(c) = e /\ s = got[c]
    BY <2>2 DEF Inv, Seen
  <2>3. \/ s \in UNION {{local[i][n].state : n \in Find(local[i], e)} : i \in Instance}
        \/ s \in {redis[e]}
        \/ s \in {got[c] : c \in {d \in Call : EventOf(d) = e}}
    BY Zenon DEF Copies
  <2>4. \/ \E i \in Instance : \E n \in Find(local[i], e) : s = local[i][n].state
        \/ s = redis[e] \/ \E c \in Call : EventOf(c) = e /\ s = got[c]
    BY <2>3
  <2>. QED
    BY <2>1, <2>2, <2>4
<1>. QED
  BY <1>1, InvHolds, PTL
=============================================================================
