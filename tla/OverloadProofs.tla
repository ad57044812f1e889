----------------------------- MODULE OverloadProofs -----------------------------
(***************************************************************************)
(* Overload for every set of requests, every pool and every setting: the   *)
(* counter of the hooks, the bulkhead, the agreement of answers and jobs,  *)
(* and the exit.                                                           *)
(*                                                                         *)
(* Course says where each request can be and what it then has; the bounds  *)
(* follow because the requests that are worked on are among those that are *)
(* served, and the counter counts the latter.                              *)
(***************************************************************************)
EXTENDS Overload, FiniteSetTheorems, SequenceTheorems, TLAPS

\* What a request that was answered left behind.
Answered(r) ==
  \/ tally[r] = "shed" /\ status[r] = 503 /\ job[r] = "none"
  \/ tally[r] = "bad_request" /\ status[r] = 400 /\ job[r] = "none"
  \/ tally[r] = "timeout" /\ status[r] = 504 /\ job[r] # "none" /\ set.timeout
  \/ /\ tally[r] \in Outcome \cup {"error"}
     /\ tally[r] = result[r].outcome /\ status[r] = StatusOf(result[r])
     /\ job[r] = "ended"

Course(r) ==
  /\ stage[r] = "idle" => client[r] = "waits"
  /\ stage[r] \in {"idle", "hooked", "slow", "race"} => tally[r] = "none" /\ status[r] = 0
  /\ stage[r] \in {"idle", "hooked", "slow"} => job[r] = "none"
  /\ stage[r] = "race" => job[r] \in {"waiting", "running"}
  /\ stage[r] \in {"sent", "done", "leaked"} => Answered(r)
  /\ stage[r] = "done" => client[r] # "waits"
  /\ stage[r] = "leaked" => client[r] = "gone"

Courses == \A r \in Req : Course(r)

\* The jobs of a bulkhead and the connections of the pool.
Bounded ==
  /\ set.max > 0 => Cardinality(Pending) <= set.max
  /\ Cardinality(Holding) <= PoolMax

\* What the shutdown has waited for.
Shutdown ==
  /\ server \in {"ending", "exited"} => \A r \in Served : client[r] = "gone"
  /\ server = "exited" => Holding = {}

\* Nobody asks the pool on the asynchronous path.
AsyncQueue == set.async => \A r \in Req : job[r] # "waiting"

Inv == TypeOK /\ InFlightCounts /\ Courses /\ Bounded /\ Shutdown /\ AsyncQueue

-----------------------------------------------------------------------------
(* The queue of the pool                                                   *)

\* Whoever waits for a connection stands in the queue once.
Queued(w, j) ==
  /\ w \in Seq(Req)
  /\ \A r \in Req : j[r] = "waiting" <=> \E i \in DOMAIN w : w[i] = r
  /\ \A h, i \in DOMAIN w : w[h] = w[i] => h = i

\* Position i is taken out of s.
Without(s, i, t) ==
  /\ t \in Seq(Req)
  /\ Len(t) = Len(s) - 1
  /\ \A h \in 1 .. Len(s) - 1 : t[h] = IF h < i THEN s[h] ELSE s[h + 1]

LEMMA RemoveAtWithout ==
  ASSUME NEW s \in Seq(Req), NEW i \in 1 .. Len(s)
  PROVE  Without(s, i, Seqs!RemoveAt(s, i))
<1>. DEFINE a == SubSeq(s, 1, i - 1)
            b == SubSeq(s, i + 1, Len(s))
<1>1. Len(s) \in Nat /\ \A h \in 1 .. Len(s) : s[h] \in Req
  BY LenProperties, ElementOfSeq
<1>2. /\ a \in Seq(Req)
      /\ Len(a) = i - 1
      /\ \A h \in 1 .. i - 1 : a[h] = s[h]
  <2>1. \A h \in 1 .. i - 1 : s[h] \in Req
    BY <1>1
  <2>2. /\ a \in Seq(Req)
        /\ Len(a) = IF 1 <= i - 1 THEN i - 1 - 1 + 1 ELSE 0
        /\ \A h \in 1 .. i - 1 - 1 + 1 : a[h] = s[1 + h - 1]
    BY <2>1, SubSeqProperties
  <2>. QED
    BY <1>1, <2>2
<1>3. /\ b \in Seq(Req)
      /\ Len(b) = Len(s) - i
      /\ \A h \in 1 .. Len(s) - i : b[h] = s[i + h]
  <2>1. \A h \in i + 1 .. Len(s) : s[h] \in Req
    BY <1>1
  <2>2. /\ b \in Seq(Req)
        /\ Len(b) = IF i + 1 <= Len(s) THEN Len(s) - (i + 1) + 1 ELSE 0
        /\ \A h \in 1 .. Len(s) - (i + 1) + 1 : b[h] = s[i + 1 + h - 1]
    BY <1>1, <2>1, SubSeqProperties
  <2>. QED
    BY <1>1, <2>2
<1>4. /\ a \o b \in Seq(Req)
      /\ Len(a \o b) = Len(a) + Len(b)
      /\ \A h \in 1 .. Len(a) + Len(b) : (a \o b)[h] = IF h <= Len(a) THEN a[h] ELSE b[h - Len(a)]
  BY <1>2, <1>3, ConcatProperties
<1>5. Seqs!RemoveAt(s, i) = a \o b
  BY DEF Seqs!RemoveAt
<1>. HIDE DEF a, b
<1>6. Len(a \o b) = Len(s) - 1
  BY <1>1, <1>2, <1>3, <1>4
<1>7. ASSUME NEW h \in 1 .. Len(s) - 1
      PROVE  (a \o b)[h] = IF h < i THEN s[h] ELSE s[h + 1]
  <2>1. (a \o b)[h] = IF h <= i - 1 THEN a[h] ELSE b[h - (i - 1)]
    BY <1>1, <1>2, <1>3, <1>4
  <2>2. CASE h < i
    BY <1>2, <2>1, <2>2
  <2>3. CASE h >= i
    <3>1. h - (i - 1) \in 1 .. Len(s) - i
      BY <1>1, <2>3
    <3>2. b[h - (i - 1)] = s[i + (h - (i - 1))]
      BY <1>3, <3>1
    <3>3. b[h - (i - 1)] = s[h + 1]
      BY <3>2
    <3>. QED
      BY <1>1, <2>1, <2>3, <3>3
  <2>4. h < i \/ h >= i
    BY <1>1
  <2>. QED
    BY <2>2, <2>3, <2>4
<1>. QED
  BY <1>4, <1>5, <1>6, <1>7 DEF Without

LEMMA TailWithout ==
  ASSUME NEW s \in Seq(Req), s # <<>>
  PROVE  1 \in 1 .. Len(s) /\ s[1] = Head(s) /\ Without(s, 1, Tail(s))
<1>1. Len(s) \in Nat \ {0}
  BY EmptySeq
<1>. QED
  BY <1>1, HeadTailProperties DEF Without

\* Whoever is served next does wait.
LEMMA HeadWaits ==
  ASSUME NEW w, NEW j, Queued(w, j), w # <<>>
  PROVE  Head(w) \in Req /\ j[Head(w)] = "waiting"
<1>1. w \in Seq(Req)
  BY DEF Queued
<1>2. 1 \in DOMAIN w /\ w[1] = Head(w) /\ w[1] \in Req
  BY <1>1, TailWithout, LenProperties, ElementOfSeq
<1>. QED
  BY <1>2 DEF Queued

LEMMA QueueJoined ==
  ASSUME NEW w, NEW j \in [Req -> {"none", "waiting", "running", "ended"}],
         NEW r \in Req, j[r] # "waiting", Queued(w, j)
  PROVE  Queued(Append(w, r), [j EXCEPT ![r] = "waiting"])
<1>1. w \in Seq(Req) /\ DOMAIN w = 1 .. Len(w) /\ Len(w) \in Nat
  BY LenProperties DEF Queued
<1>2. /\ Append(w, r) \in Seq(Req)
      /\ Len(Append(w, r)) = Len(w) + 1
      /\ \A h \in 1 .. Len(w) : Append(w, r)[h] = w[h]
      /\ Append(w, r)[Len(w) + 1] = r
  BY <1>1
<1>3. DOMAIN Append(w, r) = 1 .. Len(w) + 1
  BY <1>1, <1>2
<1>4. \A h \in DOMAIN w : w[h] # r
  BY DEF Queued
<1>5. \A g, h \in DOMAIN Append(w, r) : Append(w, r)[g] = Append(w, r)[h] => g = h
  BY <1>1, <1>2, <1>3, <1>4 DEF Queued
<1>6. ASSUME NEW q \in Req, q # r
      PROVE  (\E h \in DOMAIN w : w[h] = q) <=> \E h \in DOMAIN Append(w, r) : Append(w, r)[h] = q
  BY <1>1, <1>2, <1>3, <1>6
<1>7. Len(w) + 1 \in DOMAIN Append(w, r)
  BY <1>1, <1>3
<1>8. ASSUME NEW q \in Req
      PROVE  [j EXCEPT ![r] = "waiting"][q] = "waiting"
               <=> \E h \in DOMAIN Append(w, r) : Append(w, r)[h] = q
  BY <1>2, <1>6, <1>7 DEF Queued
<1>. QED
  BY <1>2, <1>5, <1>8 DEF Queued

LEMMA QueueLeft ==
  ASSUME NEW w, NEW j \in [Req -> {"none", "waiting", "running", "ended"}],
         NEW i \in DOMAIN w, NEW t, Without(w, i, t), NEW to, to # "waiting", Queued(w, j)
  PROVE  Queued(t, [j EXCEPT ![w[i]] = to])
<1>1. w \in Seq(Req) /\ DOMAIN w = 1 .. Len(w) /\ Len(w) \in Nat /\ w[i] \in Req
  BY LenProperties, ElementOfSeq DEF Queued
<1>2. /\ t \in Seq(Req) /\ Len(t) = Len(w) - 1 /\ DOMAIN t = 1 .. Len(w) - 1
      /\ \A h \in 1 .. Len(w) - 1 : t[h] = IF h < i THEN w[h] ELSE w[h + 1]
  BY LenProperties DEF Without
<1>3. ASSUME NEW g \in DOMAIN t, NEW h \in DOMAIN t, t[g] = t[h] PROVE g = h
  <2>. DEFINE At(n) == IF n < i THEN n ELSE n + 1
  <2>1. At(g) \in DOMAIN w /\ At(h) \in DOMAIN w
    BY <1>1, <1>2
  <2>2. w[At(g)] = w[At(h)]
    BY <1>2, <1>3
  <2>3. At(g) = At(h)
    BY <2>1, <2>2 DEF Queued
  <2>. QED
    BY <1>1, <1>2, <2>3
<1>4. \A h \in DOMAIN t : t[h] # w[i]
  BY <1>1, <1>2 DEF Queued
<1>5. ASSUME NEW r \in Req, r # w[i]
      PROVE  (\E h \in DOMAIN w : w[h] = r) <=> (\E h \in DOMAIN t : t[h] = r)
  <2>1. ASSUME NEW h \in DOMAIN w, w[h] = r PROVE \E g \in DOMAIN t : t[g] = r
    <3>1. h # i
      BY <1>5, <2>1
    <3>2. CASE h < i
      <4>1. h \in DOMAIN t /\ t[h] = w[h]
        BY <1>1, <1>2, <2>1, <3>2
      <4>. QED
        BY <2>1, <4>1
    <3>3. CASE h > i
      <4>1. h - 1 \in DOMAIN t /\ t[h - 1] = w[h]
        BY <1>1, <1>2, <2>1, <3>3
      <4>. QED
        BY <2>1, <4>1
    <3>. QED
      BY <1>1, <3>1, <3>2, <3>3
  <2>2. ASSUME NEW g \in DOMAIN t, t[g] = r PROVE \E h \in DOMAIN w : w[h] = r
    <3>1. g \in DOMAIN w /\ g + 1 \in DOMAIN w /\ t[g] \in {w[g], w[g + 1]}
      BY <1>1, <1>2, <2>2
    <3>. QED
      BY <2>2, <3>1
  <2>. QED
    BY <2>1, <2>2
<1>6. ASSUME NEW q \in Req
      PROVE  [j EXCEPT ![w[i]] = to][q] = "waiting" <=> \E h \in DOMAIN t : t[h] = q
  BY <1>1, <1>4, <1>5 DEF Queued
<1>. QED
  BY <1>2, <1>3, <1>6 DEF Queued

-----------------------------------------------------------------------------
(* Types                                                                   *)

Basic ==
  /\ set \in Settings
  /\ inFlight \in Int
  /\ probe \in BOOLEAN /\ lagging \in BOOLEAN
  /\ stage \in [Req -> Stage]
  /\ tally \in [Req -> Tally]
  /\ status \in [Req -> {0, 200, 201, 202, 400, 404, 409, 500, 503, 504}]
  /\ client \in [Req -> {"waits", "gone", "got"}]
  /\ job \in [Req -> {"none", "waiting", "running", "ended"}]
  /\ result \in [Req -> Results \cup {NoResult, AcquireError, EndedError}]
  /\ server \in {"up", "closing", "ending", "exited"}
  /\ aborts \in 0 .. MaxAborts

LEMMA TypeParts == TypeOK <=> Basic /\ Queued(waiters, job)
  BY DEF TypeOK, Basic, Queued

\* What a job may have returned or thrown, and what is made of it.
Plausible(x) == IsError(x) \/ x.outcome \in Outcome

LEMMA PlausibleAnswer ==
  ASSUME NEW x, Plausible(x)
  PROVE  /\ x.outcome \in Tally
         /\ StatusOf(x) \in {200, 201, 202, 404, 409, 500, 503}
  BY DEF Plausible, IsError, Outcome, Tally, StatusOf, StatusOfError, StatusOfOutcome

LEMMA PoolErrors ==
  /\ Plausible(AcquireError) /\ IsError(AcquireError) /\ AcquireError.outcome = "error"
  /\ Plausible(EndedError) /\ IsError(EndedError) /\ EndedError.outcome = "error"
  BY DEF Plausible, IsError, AcquireError, EndedError, Err

LEMMA SettleTypes ==
  ASSUME Basic, NEW r \in Req, NEW x \in Results \cup {AcquireError}, Plausible(x), Settle(r, x)
  PROVE  Basic'
  BY PlausibleAnswer DEF Basic, Settle, Reply, Goes, Stage

LEMMA StartTypes ==
  ASSUME Basic, Queued(waiters, job), NEW r \in Req, job[r] = "none", StartJob(r),
         UNCHANGED <<set, inFlight, probe, client, lagging, server, aborts>>
  PROVE  Basic' /\ Queued(waiters, job)'
<1>1. CASE stage' = [stage EXCEPT ![r] = "race"] /\ job' = [job EXCEPT ![r] = "running"]
           /\ UNCHANGED <<result, waiters, tally, status>>
  BY <1>1 DEF Basic, Queued, Stage
<1>2. CASE /\ job' = [job EXCEPT ![r] = "ended"] /\ UNCHANGED waiters
           /\ result' = [result EXCEPT ![r] = EndedError]
           /\ Reply(r, StatusOfError(EndedError), "error")
  <2>1. StatusOfError(EndedError) \in {500, 503} /\ "error" \in Tally
    BY DEF StatusOfError, Tally
  <2>. QED
    BY <1>2, <2>1 DEF Basic, Queued, Reply, Goes, Stage
<1>3. CASE /\ job' = [job EXCEPT ![r] = "waiting"] /\ waiters' = Append(waiters, r)
           /\ Goes(r, "race") /\ UNCHANGED <<result, tally, status>>
  <2>1. Basic'
    BY <1>3 DEF Basic, Goes, Stage
  <2>2. Queued(Append(waiters, r), [job EXCEPT ![r] = "waiting"])
    BY QueueJoined DEF Basic
  <2>. QED
    BY <1>3, <2>1, <2>2 DEF Queued
<1>. QED
  BY <1>1, <1>2, <1>3 DEF StartJob, Goes

\* The steps that start no job, end none, and leave the queue alone.
Calm(r) ==
  \/ OnRequest(r) \/ Shed(r) \/ Invalid(r) \/ TimesOut(r) \/ OnResponse(r) \/ NoFinish(r)
  \/ ClientGivesUp(r)

Around == Probe \/ LagProbe \/ Close \/ Closed \/ Exit

LEMMA StepKinds ==
  ASSUME Next
  PROVE  \/ \E r \in Req : \/ Calm(r) \/ Admit(r) \/ SlowEnds(r) \/ JobEnds(r)
                           \/ AcquireTimesOut(r)
         \/ Grant \/ Around
  BY DEF Next, Handler, Calm, Around

LEMMA TypeStep ==
  ASSUME TypeOK, Courses, Next
  PROVE  TypeOK'
<1>. USE TypeParts
<1>. SUFFICES ASSUME Basic, Queued(waiters, job) PROVE Basic' /\ Queued(waiters, job)'
  BY DEF TypeOK, Basic, Queued
<1>1. ASSUME NEW r \in Req, Calm(r) PROVE Basic' /\ Queued(waiters, job)'
  <2>1. UNCHANGED <<waiters, job, result>>
    BY <1>1 DEF Calm, OnRequest, Shed, Invalid, TimesOut, OnResponse, NoFinish, ClientGivesUp, jobs
  <2>2. Basic'
    <3>. USE DEF Basic, Goes, Reply, Stage, Tally, jobs
    <3>1. CASE OnRequest(r)
      BY <3>1 DEF OnRequest
    <3>2. CASE Shed(r) \/ Invalid(r) \/ TimesOut(r)
      BY <3>2 DEF Shed, Invalid, TimesOut
    <3>3. CASE OnResponse(r)
      BY <3>3 DEF OnResponse
    <3>4. CASE NoFinish(r)
      BY <3>4 DEF NoFinish
    <3>5. CASE ClientGivesUp(r)
      BY <3>5, LimitAssumption DEF ClientGivesUp
    <3>. QED
      BY <1>1, <3>1, <3>2, <3>3, <3>4, <3>5 DEF Calm
  <2>. QED
    BY <2>1, <2>2 DEF Queued
<1>2. ASSUME NEW r \in Req, Admit(r) \/ SlowEnds(r) PROVE Basic' /\ Queued(waiters, job)'
  <2>1. job[r] = "none"
    BY <1>2 DEF Courses, Course, Admit, SlowEnds
  <2>2. CASE StartJob(r)
    BY <1>2, <2>1, <2>2, StartTypes DEF Admit, SlowEnds
  <2>3. CASE Goes(r, "slow") /\ UNCHANGED <<jobs, tally, status>>
    BY <1>2, <2>3 DEF Basic, Queued, Goes, Stage, jobs, Admit, SlowEnds
  <2>. QED
    BY <1>2, <2>2, <2>3 DEF Admit, SlowEnds
<1>3. ASSUME NEW r \in Req, JobEnds(r) PROVE Basic' /\ Queued(waiters, job)'
  <2>1. PICK x \in Results : Returns(x) /\ Settle(r, x)
    BY <1>3 DEF JobEnds
  <2>2. Plausible(x)
    BY <2>1 DEF Returns, Plausible, Outcome
  <2>3. job[r] # "waiting" /\ waiters' = waiters /\ job' = [job EXCEPT ![r] = "ended"]
    BY <1>3, <2>1 DEF JobEnds, Settle
  <2>. QED
    BY <2>1, <2>2, <2>3, SettleTypes DEF Queued, Basic
<1>4. ASSUME NEW r \in Req, AcquireTimesOut(r) PROVE Basic' /\ Queued(waiters, job)'
  <2>1. PICK i \in DOMAIN waiters : waiters[i] = r /\ waiters' = Seqs!RemoveAt(waiters, i)
    BY <1>4 DEF AcquireTimesOut
  <2>2. job' = [job EXCEPT ![r] = "ended"]
    BY <1>4 DEF AcquireTimesOut, Settle
  <2>3. Without(waiters, i, Seqs!RemoveAt(waiters, i))
    BY RemoveAtWithout, LenProperties DEF Queued
  <2>4. Queued(waiters', job')
    BY <2>1, <2>2, <2>3, QueueLeft DEF Basic
  <2>5. Basic'
    BY <1>4, PoolErrors, SettleTypes DEF AcquireTimesOut
  <2>. QED
    BY <2>4, <2>5 DEF Queued
<1>5. CASE Grant
  <2>1. waiters \in Seq(Req) /\ waiters # <<>> /\ waiters' = Tail(waiters)
        /\ job' = [job EXCEPT ![Head(waiters)] = "running"]
    BY <1>5 DEF Grant, Queued
  <2>2. 1 \in DOMAIN waiters /\ waiters[1] = Head(waiters) /\ Without(waiters, 1, Tail(waiters))
    BY <2>1, TailWithout, LenProperties
  <2>3. Queued(waiters', job')
    BY <2>1, <2>2, QueueLeft DEF Basic
  <2>4. Basic'
    BY <1>5 DEF Grant, Basic, reqs
  <2>. QED
    BY <2>3, <2>4 DEF Queued
<1>6. CASE Around
  <2>1. UNCHANGED <<set, reqs, jobs, aborts>>
    BY <1>6 DEF Around, Probe, LagProbe, Close, Closed, Exit
  <2>2. /\ inFlight' \in Int /\ probe' \in BOOLEAN /\ lagging' \in BOOLEAN
        /\ server' \in {"up", "closing", "ending", "exited"}
    <3>1. CASE Probe
      BY <3>1 DEF Probe, Basic
    <3>2. CASE LagProbe
      BY <3>2 DEF LagProbe, Basic
    <3>3. CASE Close \/ Closed \/ Exit
      BY <3>3 DEF Close, Closed, Exit, Basic
    <3>. QED
      BY <1>6, <3>1, <3>2, <3>3 DEF Around
  <2>. QED
    BY <2>1, <2>2 DEF Basic, Queued, reqs, jobs
<1>. QED
  BY <1>1, <1>2, <1>3, <1>4, <1>5, <1>6, StepKinds

-----------------------------------------------------------------------------
(* Courses                                                                 *)

LEMMA CourseKept ==
  ASSUME NEW q \in Req, Course(q), set' = set,
         stage'[q] = stage[q], tally'[q] = tally[q], status'[q] = status[q],
         client'[q] = client[q], job'[q] = job[q], result'[q] = result[q]
  PROVE  Course(q)'
  BY DEF Course, Answered

LEMMA StartCourse ==
  ASSUME Basic, NEW r \in Req, Course(r), job[r] = "none", stage[r] \in {"hooked", "slow"},
         StartJob(r), UNCHANGED <<set, client>>
  PROVE  Course(r)'
  BY PoolErrors DEF Basic, Course, Answered, StartJob, Goes, Reply, StatusOf

LEMMA SettleCourse ==
  ASSUME Basic, NEW r \in Req, Course(r), NEW x, Plausible(x),
         job[r] \in {"waiting", "running"}, Settle(r, x)
  PROVE  Course(r)'
<1>1. CASE stage[r] = "race"
  <2>1. /\ stage'[r] = "sent" /\ status'[r] = StatusOf(x) /\ tally'[r] = x.outcome
        /\ job'[r] = "ended" /\ result'[r] = x
    BY <1>1 DEF Settle, Reply, Goes, Basic
  <2>2. Answered(r)'
    BY <2>1 DEF Answered, Plausible, IsError
  <2>. QED
    BY <2>1, <2>2 DEF Course
<1>2. CASE stage[r] # "race"
  <2>1. Answered(r) /\ tally[r] = "timeout" /\ stage[r] \in {"sent", "done", "leaked"}
    BY <1>2 DEF Course, Answered, Basic, Stage
  <2>. QED
    BY <1>2, <2>1 DEF Settle, Basic, Course, Answered, Outcome
<1>. QED
  BY <1>1, <1>2

LEMMA CourseStep ==
  ASSUME TypeOK, Courses, Next
  PROVE  Courses'
<1>. SUFFICES ASSUME NEW q \in Req PROVE Course(q)'
  BY DEF Courses
<1>. Basic /\ Queued(waiters, job)
  BY TypeParts
<1>0. Course(q)
  BY DEF Courses
<1>1. ASSUME NEW r \in Req, Calm(r) PROVE Course(q)'
  <2>1. CASE q # r
    <3>1. set' = set /\ stage'[q] = stage[q] /\ tally'[q] = tally[q] /\ status'[q] = status[q]
          /\ client'[q] = client[q] /\ job'[q] = job[q] /\ result'[q] = result[q]
      BY <1>1, <2>1
         DEF Calm, OnRequest, Shed, Invalid, TimesOut, OnResponse, NoFinish, ClientGivesUp,
             Reply, Goes, jobs, Basic
    <3>. QED
      BY <1>0, <3>1, CourseKept
  <2>2. CASE q = r
    <3>. USE <1>0, <2>2 DEF Course, Answered, Goes, Reply, jobs, Basic
    <3>1. CASE OnRequest(r) \/ Shed(r) \/ Invalid(r) \/ TimesOut(r)
      BY <3>1 DEF OnRequest, Shed, Invalid, TimesOut
    <3>2. CASE OnResponse(r) \/ NoFinish(r)
      BY <3>2 DEF OnResponse, NoFinish
    <3>3. CASE ClientGivesUp(r)
      BY <3>3 DEF ClientGivesUp
    <3>. QED
      BY <1>1, <3>1, <3>2, <3>3 DEF Calm
  <2>. QED
    BY <2>1, <2>2
<1>2. ASSUME NEW r \in Req, Admit(r) \/ SlowEnds(r) PROVE Course(q)'
  <2>1. CASE q # r
    <3>1. set' = set /\ stage'[q] = stage[q] /\ tally'[q] = tally[q] /\ status'[q] = status[q]
          /\ client'[q] = client[q] /\ job'[q] = job[q] /\ result'[q] = result[q]
      BY <1>2, <2>1 DEF Admit, SlowEnds, StartJob, Reply, Goes, jobs, Basic
    <3>. QED
      BY <1>0, <3>1, CourseKept
  <2>2. CASE q = r /\ StartJob(r)
    BY <1>0, <1>2, <2>2, StartCourse DEF Admit, SlowEnds, Course
  <2>3. CASE q = r /\ Goes(r, "slow") /\ UNCHANGED <<jobs, tally, status>>
    BY <1>0, <1>2, <2>3 DEF Admit, SlowEnds, Course, Goes, jobs, Basic
  <2>. QED
    BY <1>2, <2>1, <2>2, <2>3 DEF Admit, SlowEnds
<1>3. ASSUME NEW r \in Req, NEW x, Plausible(x), job[r] \in {"waiting", "running"}, Settle(r, x)
      PROVE  Course(q)'
  <2>1. CASE q # r
    <3>1. set' = set /\ stage'[q] = stage[q] /\ tally'[q] = tally[q] /\ status'[q] = status[q]
          /\ client'[q] = client[q] /\ job'[q] = job[q] /\ result'[q] = result[q]
      BY <1>3, <2>1 DEF Settle, Reply, Goes, Basic
    <3>. QED
      BY <1>0, <3>1, CourseKept
  <2>. QED
    BY <1>0, <1>3, <2>1, SettleCourse
<1>4. ASSUME NEW r \in Req, JobEnds(r) \/ AcquireTimesOut(r) PROVE Course(q)'
  BY <1>3, <1>4, PoolErrors DEF JobEnds, AcquireTimesOut, Returns, Plausible, Outcome
<1>5. CASE Grant
  <2>1. PICK r \in Req : job[r] = "waiting" /\ job' = [job EXCEPT ![r] = "running"]
    BY <1>5, HeadWaits DEF Grant
  <2>2. job'[q] = job[q] \/ (job[q] = "waiting" /\ job'[q] = "running")
    BY <2>1 DEF Basic
  <2>. QED
    BY <1>0, <1>5, <2>2 DEF Grant, reqs, Course, Answered
<1>6. CASE Around
  BY <1>0, <1>6, CourseKept DEF Around, Probe, LagProbe, Close, Closed, Exit, reqs, jobs
<1>. QED
  BY <1>1, <1>2, <1>4, <1>5, <1>6, StepKinds

-----------------------------------------------------------------------------
(* The counter, the bounds, and the shutdown                               *)

LEMMA FiniteParts ==
  /\ IsFiniteSet(Served) /\ IsFiniteSet(Leaked) /\ IsFiniteSet(Pending) /\ IsFiniteSet(Running)
  /\ IsFiniteSet(Holding)
  /\ Cardinality(Served) \in Nat /\ Cardinality(Leaked) \in Nat
  /\ Cardinality(Pending) \in Nat /\ Cardinality(Holding) \in Nat
<1>1. Served \subseteq Req /\ Leaked \subseteq Req /\ Pending \subseteq Req /\ Running \subseteq Req
  BY DEF Served, Leaked, Pending, Running
<1>2. Holding \subseteq Req
  BY <1>1 DEF Holding
<1>. QED
  BY <1>1, <1>2, ReqAssumption, FS_Subset, FS_CardinalityType

\* The steps that keep a request among those that are served.
Stays(r) ==
  Shed(r) \/ Invalid(r) \/ TimesOut(r) \/ ClientGivesUp(r) \/ Admit(r) \/ SlowEnds(r) \/ JobEnds(r)
    \/ AcquireTimesOut(r)

LEMMA StaysServed ==
  ASSUME TypeOK, Courses, NEW r \in Req, Stays(r)
  PROVE  Served' = Served /\ Leaked' = Leaked /\ inFlight' = inFlight /\ probe' = probe
<1>. Basic
  BY TypeParts
<1>1. inFlight' = inFlight /\ probe' = probe
  BY DEF Stays, Shed, Invalid, TimesOut, ClientGivesUp, Admit, SlowEnds, JobEnds, AcquireTimesOut,
         Settle
<1>2. \A q \in Req : q # r => stage'[q] = stage[q]
  BY DEF Stays, Shed, Invalid, TimesOut, ClientGivesUp, Admit, SlowEnds, JobEnds, AcquireTimesOut,
         Settle, StartJob, Reply, Goes, Basic
<1>3. stage'[r] = stage[r] \/ {stage[r], stage'[r]} \subseteq {"hooked", "slow", "race", "sent"}
  BY DEF Stays, Shed, Invalid, TimesOut, ClientGivesUp, Admit, SlowEnds, JobEnds, AcquireTimesOut,
         Settle, StartJob, Reply, Goes, Basic
<1>. QED
  BY <1>1, <1>2, <1>3 DEF Served, Leaked

LEMMA CountStep ==
  ASSUME TypeOK, Courses, InFlightCounts, Next
  PROVE  InFlightCounts'
<1>. Basic
  BY TypeParts
<1>. USE FiniteParts
<1>1. ASSUME NEW r \in Req, OnRequest(r) PROVE InFlightCounts'
  <2>1. Served' = Served \cup {r} /\ r \notin Served /\ Leaked' = Leaked
    BY <1>1 DEF OnRequest, Goes, Served, Leaked, Basic
  <2>2. Cardinality(Served') = Cardinality(Served) + 1
    BY <2>1, FS_AddElement
  <2>. QED
    BY <1>1, <2>1, <2>2 DEF OnRequest, InFlightCounts
<1>2. ASSUME NEW r \in Req, OnResponse(r) \/ NoFinish(r) PROVE InFlightCounts'
  <2>1. Served' = Served \ {r} /\ r \in Served
    BY <1>2 DEF OnResponse, NoFinish, Goes, Served, Basic
  <2>2. Cardinality(Served') = Cardinality(Served) - 1
    BY <2>1, FS_RemoveElement
  <2>3. CASE OnResponse(r)
    <3>1. Leaked' = Leaked
      BY <2>3 DEF OnResponse, Goes, Leaked, Basic
    <3>. QED
      BY <2>2, <2>3, <3>1 DEF OnResponse, InFlightCounts
  <2>4. CASE NoFinish(r)
    <3>1. Leaked' = Leaked \cup {r} /\ r \notin Leaked
      BY <2>4 DEF NoFinish, Goes, Leaked, Basic
    <3>2. Cardinality(Leaked') = Cardinality(Leaked) + 1
      BY <3>1, FS_AddElement
    <3>. QED
      BY <2>2, <2>4, <3>2 DEF NoFinish, InFlightCounts
  <2>. QED
    BY <1>2, <2>3, <2>4
<1>3. ASSUME NEW r \in Req, Stays(r) PROVE InFlightCounts'
  BY <1>3, StaysServed DEF InFlightCounts
<1>4. CASE Grant \/ Around
  <2>1. Served' = Served /\ Leaked' = Leaked
    BY <1>4 DEF Grant, Around, Probe, LagProbe, Close, Closed, Exit, reqs, Served, Leaked
  <2>2. CASE Probe
    <3>1. probe \in BOOLEAN /\ probe' = ~probe
      BY <2>2 DEF Probe, Basic
    <3>2. inFlight' = inFlight + (IF probe THEN -1 ELSE 1)
      BY <2>2 DEF Probe
    <3>3. inFlight = Cardinality(Served) + Cardinality(Leaked) + (IF probe THEN 1 ELSE 0)
      BY DEF InFlightCounts
    <3>4. inFlight' = Cardinality(Served) + Cardinality(Leaked) + (IF probe' THEN 1 ELSE 0)
      <4>1. CASE probe
        <5>1. /\ (IF probe THEN 1 ELSE 0) = 1 /\ (IF probe' THEN 1 ELSE 0) = 0
              /\ inFlight' = inFlight + (-1)
          BY <3>1, <3>2, <4>1, Zenon
        <5>. QED
          BY <3>3, <5>1
      <4>2. CASE ~probe
        <5>1. /\ (IF probe THEN 1 ELSE 0) = 0 /\ (IF probe' THEN 1 ELSE 0) = 1
              /\ inFlight' = inFlight + 1
          BY <3>1, <3>2, <4>2, Zenon
        <5>. QED
          BY <3>3, <5>1
      <4>. QED
        BY <4>1, <4>2
    <3>. QED
      BY <2>1, <3>4 DEF InFlightCounts
  <2>3. CASE ~Probe
    <3>1. inFlight' = inFlight /\ probe' = probe
      BY <1>4, <2>3 DEF Grant, Around, LagProbe, Close, Closed, Exit
    <3>. QED
      BY <2>1, <3>1 DEF InFlightCounts
  <2>. QED
    BY <2>2, <2>3
<1>. QED
  BY <1>1, <1>2, <1>3, <1>4, StepKinds DEF Calm, Stays

\* A bulkhead that lets a request in has served no more than its limit.
LEMMA BoundStep ==
  ASSUME TypeOK, Courses, InFlightCounts, Bounded, Next
  PROVE  Bounded'
<1>. Basic /\ Queued(waiters, job)
  BY TypeParts
<1>. USE FiniteParts
<1>1. set' = set
  BY StepKinds DEF Calm, OnRequest, Shed, Invalid, TimesOut, OnResponse, NoFinish, ClientGivesUp,
                   Admit, SlowEnds, JobEnds, AcquireTimesOut, Settle,
                   Grant, Around, Probe, LagProbe, Close, Closed, Exit
<1>2. set \in Setting /\ set.max \in Nat
  BY SettingAssumption DEF Basic, Setting
<1>3. (set.max > 0 => Cardinality(Pending) <= set.max)'
  <2>1. SUFFICES ASSUME set.max > 0 PROVE Cardinality(Pending') <= set.max
    BY <1>1
  <2>2. ASSUME NEW r \in Req, Admit(r) PROVE Cardinality(Pending') <= set.max
    <3>1. inFlight <= set.max
      BY <1>2, <2>1, <2>2 DEF Admit, ShouldShed, Basic
    <3>2. r \in Served /\ Pending \subseteq Served
      BY <2>2 DEF Admit, Served, Pending
    <3>3. Pending' \subseteq Pending \cup {r}
      BY <2>2 DEF Admit, StartJob, Reply, Goes, Pending, Basic
    <3>4. Cardinality(Pending') <= Cardinality(Served)
      BY <3>2, <3>3, FS_Subset
    <3>5. Cardinality(Served) <= inFlight
      BY DEF InFlightCounts, Basic
    <3>6. Cardinality(Pending') \in Nat
      BY <3>2, <3>3, FS_Subset, FS_CardinalityType
    <3>. QED
      BY <1>2, <3>1, <3>4, <3>5, <3>6 DEF Basic
  <2>3. ASSUME Pending' \subseteq Pending PROVE Cardinality(Pending') <= set.max
    <3>1. Cardinality(Pending') <= Cardinality(Pending) /\ Cardinality(Pending') \in Nat
      BY <2>3, FS_Subset, FS_CardinalityType
    <3>. QED
      BY <1>2, <2>1, <3>1 DEF Bounded
  <2>4. ASSUME NEW r \in Req, Calm(r) PROVE Pending' \subseteq Pending
    BY <2>4 DEF Calm, OnRequest, Shed, Invalid, TimesOut, OnResponse, NoFinish, ClientGivesUp,
                Reply, Goes, Pending, Basic
  <2>5. ASSUME NEW r \in Req, SlowEnds(r) PROVE Pending' \subseteq Pending
    BY <2>5 DEF SlowEnds, StartJob, Reply, Goes, Pending, Basic
  <2>6. ASSUME NEW r \in Req, JobEnds(r) \/ AcquireTimesOut(r) PROVE Pending' \subseteq Pending
    BY <2>6 DEF JobEnds, AcquireTimesOut, Settle, Reply, Goes, Pending, Basic
  <2>7. CASE Grant \/ Around
    <3>1. Pending' = Pending
      BY <2>7 DEF Grant, Around, Probe, LagProbe, Close, Closed, Exit, reqs, Pending
    <3>. QED
      BY <2>3, <3>1
  <2>. QED
    BY <2>2, <2>3, <2>4, <2>5, <2>6, <2>7, StepKinds
<1>4. Cardinality(Holding') <= PoolMax
  <2>1. ASSUME Holding' \subseteq Holding PROVE Cardinality(Holding') <= PoolMax
    <3>1. Cardinality(Holding') <= Cardinality(Holding) /\ Cardinality(Holding') \in Nat
      BY <2>1, FS_Subset, FS_CardinalityType
    <3>. QED
      BY <3>1, LimitAssumption DEF Bounded
  <2>2. ASSUME NEW r \in Req, Holding' \subseteq Holding \cup {r}, Cardinality(Holding) < PoolMax
        PROVE  Cardinality(Holding') <= PoolMax
    <3>1. IsFiniteSet(Holding \cup {r}) /\ Cardinality(Holding \cup {r}) <= Cardinality(Holding) + 1
          /\ Cardinality(Holding \cup {r}) \in Nat
      <4>1. CASE r \in Holding
        <5>1. Holding \cup {r} = Holding
          BY <4>1
        <5>. QED
          BY <5>1
      <4>2. CASE r \notin Holding
        BY <4>2, FS_AddElement
      <4>. QED
        BY <4>1, <4>2
    <3>2. Cardinality(Holding') <= Cardinality(Holding \cup {r}) /\ Cardinality(Holding') \in Nat
      BY <2>2, <3>1, FS_Subset, FS_CardinalityType
    <3>. QED
      BY <2>2, <3>1, <3>2, LimitAssumption
  <2>3. CASE set.async
    <3>1. Holding' = {} /\ Holding = {}
      BY <1>1, <2>3 DEF Holding
    <3>. QED
      BY <2>1, <3>1
  <2>4. CASE ~set.async
    <3>0. Holding = Running /\ Holding' = Running'
      BY <1>1, <2>4 DEF Holding
    <3>1. ASSUME NEW r \in Req, Admit(r) \/ SlowEnds(r) PROVE Cardinality(Holding') <= PoolMax
      <4>1. CASE job' = [job EXCEPT ![r] = "running"]
        <5>1. Cardinality(Holding) < PoolMax
          <6>1. StartJob(r)
            BY <3>1, <4>1 DEF Admit, SlowEnds, jobs, Courses, Course, Basic
          <6>2. job'[r] = "running"
            BY <4>1 DEF Basic
          <6>. QED
            BY <2>4, <6>1, <6>2 DEF StartJob, Basic
        <5>2. Running' \subseteq Running \cup {r}
          BY <4>1 DEF Running, Basic
        <5>. QED
          BY <2>2, <3>0, <5>1, <5>2
      <4>2. CASE \E j \in {"ended", "waiting"} : job' = [job EXCEPT ![r] = j]
        <5>1. Running' \subseteq Running
          BY <4>2 DEF Running, Basic
        <5>. QED
          BY <2>1, <3>0, <5>1
      <4>3. CASE job' = job
        <5>1. Running' = Running
          BY <4>3 DEF Running
        <5>. QED
          BY <2>1, <3>0, <5>1
      <4>. QED
        BY <3>1, <4>1, <4>2, <4>3 DEF Admit, SlowEnds, StartJob, jobs
    <3>2. CASE Grant
      <4>1. Head(waiters) \in Req
        BY <3>2, HeadWaits DEF Grant
      <4>2. Running' \subseteq Running \cup {Head(waiters)}
        BY <3>2, <4>1 DEF Grant, Running, Basic
      <4>. QED
        BY <2>2, <3>0, <3>2, <4>1, <4>2 DEF Grant
    <3>3. ASSUME NEW r \in Req, Calm(r) \/ JobEnds(r) \/ AcquireTimesOut(r)
          PROVE  Cardinality(Holding') <= PoolMax
      <4>1. job' = job \/ job' = [job EXCEPT ![r] = "ended"]
        BY <3>3 DEF Calm, OnRequest, Shed, Invalid, TimesOut, OnResponse, NoFinish, ClientGivesUp,
                    JobEnds, AcquireTimesOut, Settle, jobs
      <4>2. Running' \subseteq Running
        BY <4>1 DEF Running, Basic
      <4>. QED
        BY <2>1, <3>0, <4>2
    <3>4. CASE Around
      <4>1. Running' = Running
        BY <3>4 DEF Around, Probe, LagProbe, Close, Closed, Exit, jobs, Running
      <4>. QED
        BY <2>1, <3>0, <4>1
    <3>. QED
      BY <3>1, <3>2, <3>3, <3>4, StepKinds
  <2>. QED
    BY <2>3, <2>4
<1>. QED
  BY <1>3, <1>4 DEF Bounded

LEMMA ShutdownStep ==
  ASSUME TypeOK, Courses, Shutdown, Next
  PROVE  Shutdown'
<1>. Basic /\ Queued(waiters, job)
  BY TypeParts
<1>1. CASE Close \/ Closed \/ Exit
  BY <1>1 DEF Close, Closed, Exit, Shutdown, Served, Holding, Running, reqs, jobs
<1>2. CASE ~(Close \/ Closed \/ Exit)
  <2>1. server' = server /\ set' = set
    BY <1>2, StepKinds
       DEF Calm, OnRequest, Shed, Invalid, TimesOut, OnResponse, NoFinish, ClientGivesUp,
           Admit, SlowEnds, JobEnds, AcquireTimesOut, Settle, Grant, Around, Probe, LagProbe
  <2>2. ASSUME server \in {"ending", "exited"} PROVE (\A r \in Served : client[r] = "gone")'
    <3>1. SUFFICES ASSUME NEW q \in Served' PROVE client'[q] = "gone"
      OBVIOUS
    <3>2. q \in Req
      BY <3>1 DEF Served
    <3>3. q \in Served
      <4>1. ASSUME NEW r \in Req, Stays(r) PROVE Served' = Served
        BY <4>1, StaysServed
      <4>2. ASSUME NEW r \in Req, OnResponse(r) \/ NoFinish(r) PROVE Served' \subseteq Served
        BY <4>2 DEF OnResponse, NoFinish, Goes, Served, Basic
      <4>3. CASE Grant \/ Probe \/ LagProbe
        BY <3>1, <4>3 DEF Grant, Probe, LagProbe, reqs, Served
      <4>. QED
        BY <1>2, <2>2, <3>1, <4>1, <4>2, <4>3, StepKinds DEF Calm, Stays, Around, OnRequest
    <3>4. client[q] = "gone"
      BY <2>2, <3>3 DEF Shutdown
    <3>5. client'[q] = client[q] \/ client'[q] = "gone"
      BY <1>2, <3>2, <3>4, StepKinds
         DEF Calm, OnRequest, Shed, Invalid, TimesOut, OnResponse, NoFinish, ClientGivesUp,
             Reply, Goes, Admit, SlowEnds, JobEnds, AcquireTimesOut, Settle,
             Grant, Around, Probe, LagProbe, reqs, Basic
    <3>. QED
      BY <3>4, <3>5
  <2>3. ASSUME server = "exited" PROVE Holding' = {}
    <3>1. job' = job
      BY <1>2, <2>3, StepKinds
         DEF Alive, Calm, OnRequest, Shed, Invalid, TimesOut, OnResponse, NoFinish, ClientGivesUp,
             Admit, SlowEnds, JobEnds, AcquireTimesOut, Grant, Around, Probe, LagProbe, jobs
    <3>. QED
      BY <2>1, <2>3, <3>1 DEF Shutdown, Holding, Running
  <2>. QED
    BY <2>1, <2>2, <2>3 DEF Shutdown
<1>. QED
  BY <1>1, <1>2

LEMMA AsyncStep ==
  ASSUME TypeOK, AsyncQueue, Next
  PROVE  AsyncQueue'
<1>. SUFFICES ASSUME set'.async, NEW q \in Req PROVE job'[q] # "waiting"
  BY DEF AsyncQueue
<1>1. set' = set
  BY StepKinds DEF Calm, OnRequest, Shed, Invalid, TimesOut, OnResponse, NoFinish, ClientGivesUp,
                   Admit, SlowEnds, JobEnds, AcquireTimesOut, Settle,
                   Grant, Around, Probe, LagProbe, Close, Closed, Exit
<1>2. job[q] # "waiting" /\ set.async
  BY <1>1 DEF AsyncQueue
<1>3. job' = job \/ \E r \in DOMAIN job, j \in {"running", "ended"} : job' = [job EXCEPT ![r] = j]
  <2>1. DOMAIN job = Req
    BY DEF TypeOK
  <2>2. CASE Grant
    <3>1. Head(waiters) \in Req
      BY <2>2, HeadWaits, TypeParts DEF Grant
    <3>. QED
      BY <2>1, <2>2, <3>1 DEF Grant
  <2>3. ASSUME NEW r \in Req, Admit(r) \/ SlowEnds(r)
        PROVE  job' = job \/ job' = [job EXCEPT ![r] = "running"]
    BY <1>2, <2>3 DEF Admit, SlowEnds, StartJob, jobs
  <2>4. ASSUME NEW r \in Req, JobEnds(r) \/ AcquireTimesOut(r)
        PROVE  job' = [job EXCEPT ![r] = "ended"]
    BY <2>4 DEF JobEnds, AcquireTimesOut, Settle
  <2>5. CASE Around \/ \E r \in Req : Calm(r)
    BY <2>5 DEF Calm, OnRequest, Shed, Invalid, TimesOut, OnResponse, NoFinish, ClientGivesUp,
                Around, Probe, LagProbe, Close, Closed, Exit, jobs
  <2>. QED
    BY <2>1, <2>2, <2>3, <2>4, <2>5, StepKinds
<1>. QED
  BY <1>2, <1>3 DEF TypeOK

-----------------------------------------------------------------------------
LEMMA InitInv == Init => Inv
<1>. SUFFICES ASSUME Init PROVE Inv
  OBVIOUS
<1>1. Basic
  <2>1. probe \in BOOLEAN /\ lagging \in BOOLEAN
    BY DEF Init
  <2>2. result \in [Req -> Results \cup {NoResult, AcquireError, EndedError}]
    BY DEF Init
  <2>3. aborts \in 0 .. MaxAborts /\ inFlight \in Int
    BY LimitAssumption DEF Init
  <2>. QED
    BY <2>1, <2>2, <2>3 DEF Init, Basic, Stage, Tally
<1>2. Queued(waiters, job)
  BY EmptySeq DEF Init, Queued
<1>3. Courses
  BY DEF Init, Courses, Course
<1>4. Served = {} /\ Leaked = {} /\ Pending = {} /\ Running = {} /\ Holding = {}
  BY DEF Init, Served, Leaked, Pending, Running, Holding
<1>5. Cardinality({}) = 0
  BY FS_EmptySet
<1>6. InFlightCounts
  BY <1>4, <1>5 DEF Init, InFlightCounts
<1>7. Bounded
  <2>1. set.max \in Nat
    BY SettingAssumption DEF Init, Setting
  <2>. QED
    BY <1>4, <1>5, <2>1, LimitAssumption DEF Bounded
<1>8. Shutdown
  BY DEF Init, Shutdown
<1>9. AsyncQueue
  BY DEF Init, AsyncQueue
<1>. QED
  BY <1>1, <1>2, <1>3, <1>6, <1>7, <1>8, <1>9, TypeParts DEF Inv

LEMMA InvStep == Inv /\ [Next]_vars => Inv'
<1>1. Inv /\ Next => Inv'
  BY TypeStep, CourseStep, CountStep, BoundStep, ShutdownStep, AsyncStep DEF Inv
<1>2. Inv /\ UNCHANGED vars => Inv'
  BY DEF vars, reqs, jobs, Inv, TypeOK, InFlightCounts, Courses, Course, Answered, Bounded, Shutdown,
         AsyncQueue, Served, Leaked, Pending, Running, Holding
<1>. QED
  BY <1>1, <1>2

LEMMA InvHolds == Spec => []Inv
  BY InitInv, InvStep, PTL DEF Spec

\* Every variable keeps its type, and the queue of the pool holds each caller
\* that waits once and nobody else.
THEOREM TypeCorrect == Spec => []TypeOK
<1>1. Inv => TypeOK
  BY DEF Inv
<1>. QED
  BY <1>1, InvHolds, PTL

\* The counter of the hooks counts the requests being served, and leaks exactly
\* those whose client had gone and whose response never finished.
THEOREM CounterIsExact == Spec => []InFlightCounts
<1>1. Inv => InFlightCounts
  BY DEF Inv
<1>. QED
  BY <1>1, InvHolds, PTL

\* MAX_CONCURRENT bounds the requests that are worked on and, without a request
\* timeout, the jobs; the pool bounds the connections in use, whatever is
\* abandoned.
THEOREM BulkheadHolds == Spec => []BulkheadBounds
<1>1. Inv => BulkheadBounds
  <2>. SUFFICES ASSUME Inv PROVE BulkheadBounds
    OBVIOUS
  <2>1. set.max > 0 => Cardinality(Pending) <= set.max
    BY DEF Inv, Bounded
  <2>2. Cardinality(Holding) <= PoolMax
    BY DEF Inv, Bounded
  <2>3. ASSUME ~set.timeout
        PROVE  {r \in Req : job[r] \in {"waiting", "running"}} \subseteq Pending
    BY <2>3 DEF Inv, TypeOK, Stage, Courses, Course, Answered, Pending
  <2>4. ASSUME set.max > 0, ~set.timeout
        PROVE  Cardinality({r \in Req : job[r] \in {"waiting", "running"}}) <= set.max
    <3>. DEFINE J == {r \in Req : job[r] \in {"waiting", "running"}}
    <3>1. Cardinality(J) <= Cardinality(Pending) /\ Cardinality(J) \in Nat
      BY <2>3, <2>4, FiniteParts, FS_Subset, FS_CardinalityType
    <3>2. set.max \in Nat
      BY SettingAssumption DEF Inv, TypeOK, Setting
    <3>. HIDE DEF J
    <3>3. Cardinality(J) <= set.max
      BY <2>1, <2>4, <3>1, <3>2, FiniteParts
    <3>. QED
      BY <3>3 DEF J
  <2>. QED
    BY <2>1, <2>2, <2>4 DEF BulkheadBounds
<1>. QED
  BY <1>1, InvHolds, PTL

\* A refused request did no work, an answer carries the result of its job, only
\* a timeout leaves one behind, and k6 counts what the server counted.
THEOREM AnswersAgree == Spec => []AnswersMatchJobs
<1>1. Inv => AnswersMatchJobs
  <2>. SUFFICES ASSUME Inv, NEW r \in Req
                PROVE  /\ tally[r] \in {"shed", "bad_request"} => job[r] = "none"
                       /\ tally[r] \in Outcome \cup {"error"} =>
                            tally[r] = result[r].outcome /\ status[r] = StatusOf(result[r])
                       /\ job[r] \in {"waiting", "running"} =>
                            stage[r] = "race" \/ tally[r] = "timeout"
                       /\ status[r] # 0 => Bucket(status[r]) = BucketOf(tally[r])
    BY DEF AnswersMatchJobs
  <2>. Course(r) /\ stage[r] \in Stage
    BY DEF Inv, Courses, TypeOK
  <2>1. CASE stage[r] \in {"idle", "hooked", "slow", "race"}
    BY <2>1 DEF Course, Outcome
  <2>2. CASE stage[r] \in {"sent", "done", "leaked"}
    <3>1. Answered(r)
      BY <2>2 DEF Course
    <3>2. CASE tally[r] \notin Outcome \cup {"error"}
      BY <2>2, <3>1, <3>2 DEF Answered, Outcome, Bucket, BucketOf
    <3>3. CASE tally[r] \in Outcome \cup {"error"}
      <4>1. tally[r] = result[r].outcome /\ status[r] = StatusOf(result[r]) /\ job[r] = "ended"
        BY <3>1, <3>3 DEF Answered, Outcome
      <4>2. CASE tally[r] = "error"
        <5>1. status[r] \in {500, 503}
          BY <4>1, <4>2 DEF StatusOf, IsError, StatusOfError
        <5>. QED
          BY <4>1, <4>2, <5>1 DEF Outcome, Bucket, BucketOf
      <4>3. CASE tally[r] \in Outcome
        <5>1. status[r] = StatusOfOutcome(tally[r])
          BY <4>1, <4>3 DEF StatusOf, IsError, Outcome
        <5>. QED
          BY <4>1, <4>3, <5>1 DEF Outcome, StatusOfOutcome, Bucket, BucketOf
      <4>. QED
        BY <3>3, <4>2, <4>3
    <3>. QED
      BY <3>2, <3>3
  <2>. QED
    BY <2>1, <2>2 DEF Stage
<1>. QED
  BY <1>1, InvHolds, PTL

\* The failures the code knows to pass are answered 503, the others 500.
LEMMA PassingIs503 ==
  ASSUME NEW x \in Results \cup {NoResult, AcquireError, EndedError}, x.outcome = "error"
  PROVE  StatusOf(x) = IF x \in Passing THEN 503 ELSE 500
<1>1. StatusOf(x) = StatusOfError(x)
  BY DEF StatusOf, IsError
<1>2. CASE x \in Passing
  <2>1. x = AcquireError \/ \E c \in Unreachable \cup {"MQ_NOT_READY", "53300", "57014", "55P03",
                                                     "25P03", "40P01"} : x = Err(c, "other")
    BY <1>2 DEF Passing
  <2>2. CASE x = AcquireError
    BY <1>1, <1>2, <2>2 DEF AcquireError, Err, StatusOfError, ClassifyDbError, Transient, Unreachable
  <2>3. ASSUME NEW c \in Unreachable, x = Err(c, "other")
        PROVE  StatusOfError(x) = 503
    BY <2>3 DEF Err, StatusOfError, ClassifyDbError, Transient
  <2>4. ASSUME NEW c \in {"MQ_NOT_READY", "53300", "57014", "55P03", "25P03", "40P01"},
               x = Err(c, "other")
        PROVE  StatusOfError(x) = 503
    BY <2>4 DEF Err, StatusOfError, ClassifyDbError, Transient, Unreachable
  <2>. QED
    BY <1>1, <1>2, <2>1, <2>2, <2>3, <2>4
<1>3. CASE x \notin Passing
  <2>1. x \in Unrecognised \cup Lasting
    BY <1>3, ResultAssumption DEF Ok, NoResult, Outcome, Passing, Lasting
  <2>2. StatusOfError(x) = 500
    <3>. DEFINE Other(e) ==
           /\ e.code \in {"none", "57P01", "57P03", "08P01", "23503", "22003"}
           /\ e.says \in {"Connection terminated unexpectedly", "other", "client_login_timeout",
                          "Cannot use a pool after calling end on the pool"}
    <3>1. Other(x)
      <4>1. ASSUME NEW c \in {"none", "57P01", "57P03", "08P01", "23503", "22003"},
                   NEW s \in {"Connection terminated unexpectedly", "other", "client_login_timeout",
                              "Cannot use a pool after calling end on the pool"}
            PROVE  Other(Err(c, s))
        BY DEF Err
      <4>. HIDE DEF Other
      <4>2. CASE x \in Unrecognised
        BY <4>1, <4>2 DEF Unrecognised
      <4>3. CASE x \in Lasting
        BY <4>1, <4>3 DEF Lasting, EndedError
      <4>. QED
        BY <2>1, <4>1, <4>2, <4>3
    <3>2. x.code \notin Unreachable
                          \cup {"MQ_NOT_READY", "53300", "57014", "55P03", "25P03", "40P01"}
      BY <3>1 DEF Unreachable
    <3>3. x.says \notin {"too many clients", "statement timeout", "lock timeout",
                         "idle-in-transaction", "timeout exceeded when trying to connect"}
      BY <3>1
    <3>4. ClassifyDbError(x) = "other"
      BY <3>2, <3>3 DEF ClassifyDbError
    <3>. QED
      BY <3>4 DEF StatusOfError, Transient
  <2>. QED
    BY <1>1, <1>3, <2>2
<1>. QED
  BY <1>2, <1>3

\* Server, k6, its callback and the analysis take the same answers for
\* failures, and a failure known to pass is answered 503.
THEOREM StatusesAreOne == Spec => []StatusesAgree
<1>1. Inv => StatusesAgree
  <2>. SUFFICES ASSUME Inv, NEW r \in Req, status[r] # 0
                PROVE  /\ tally[r] = "error" =>
                            status[r] = IF result[r] \in Passing THEN 503 ELSE 500
                       /\ Reserve(status[r]) \in RealFailures
                            <=> status[r] \notin Expected \cup {409}
                       /\ Reserve(status[r]) \in RealFailures <=>
                            tally[r] \notin {"created", "idempotent_replay", "accepted", "sold_out"}
    BY DEF StatusesAgree
  <2>1. /\ Course(r) /\ stage[r] \in Stage
        /\ result[r] \in Results \cup {NoResult, AcquireError, EndedError}
    BY DEF Inv, Courses, TypeOK
  <2>2. Answered(r)
    BY <2>1 DEF Course, Stage
  <2>3. tally[r] = "error" =>
          status[r] = IF result[r] \in Passing THEN 503 ELSE 500
    BY <2>1, <2>2, PassingIs503 DEF Answered, Outcome
  <2>4. tally[r] \in Outcome => status[r] = StatusOfOutcome(tally[r])
    BY <2>2 DEF Answered, Outcome, StatusOf, IsError
  <2>5. CASE tally[r] = "error"
    BY <2>3, <2>5 DEF Reserve, RealFailures, Expected
  <2>6. CASE tally[r] \in Outcome
    BY <2>4, <2>6 DEF Outcome, StatusOfOutcome, Reserve, RealFailures, Expected
  <2>7. CASE tally[r] \notin Outcome \cup {"error"}
    BY <2>2, <2>7 DEF Answered, Outcome, Reserve, RealFailures, Expected
  <2>. QED
    BY <2>5, <2>6, <2>7
<1>. QED
  BY <1>1, InvHolds, PTL

\* When the process exits no connection is in use, and of the requests it took
\* every client that still waited has its answer.
THEOREM ExitsClean == Spec => []ExitIsClean
<1>1. Inv => ExitIsClean
  BY DEF Inv, Shutdown, ExitIsClean, Courses, Course, Served, TypeOK, Stage
<1>. QED
  BY <1>1, InvHolds, PTL

-----------------------------------------------------------------------------
(* The pool                                                                *)

\* The pool's vocabulary is this module's.
LEMMA PoolVocabulary == Pool!Free <=> Cardinality(Holding) < PoolMax
  BY DEF Pool!Free, Pool!Cardinality, Cardinality, Pool!IsFiniteSet, IsFiniteSet

LEMMA StartIsConnect ==
  ASSUME Inv, NEW r \in Req, job[r] = "none", StartJob(r), set' = set
  PROVE  [Pool!Next]_(Pool!vars)
<1>. Basic /\ Queued(waiters, job)
  BY TypeParts DEF Inv
<1>1. CASE set.async
  <2>1. Holding' = {} /\ Holding = {}
    BY <1>1 DEF Holding
  <2>2. waiters' = waiters
    BY <1>1 DEF StartJob
  <2>. QED
    BY <2>1, <2>2 DEF Pool!vars
<1>2. CASE ~set.async
  <2>1. Holding = Running /\ Holding' = Running'
    BY <1>2 DEF Holding
  <2>2. r \notin Holding /\ ~Pool!Waits(r)
    BY <2>1 DEF Running, Queued, Pool!Waits
  <2>3. CASE job' = [job EXCEPT ![r] = "running"]
    <3>1. waiters = <<>> /\ Cardinality(Holding) < PoolMax /\ waiters' = waiters
      <4>1. job'[r] = "running"
        BY <2>3 DEF Basic
      <4>. QED
        BY <1>2, <4>1 DEF StartJob, Basic
    <3>2. Holding' = Holding \cup {r}
      BY <2>1, <2>3 DEF Running, Basic
    <3>. QED
      BY <2>2, <3>1, <3>2, PoolVocabulary DEF Pool!Next, Pool!Connect
  <2>4. CASE job' = [job EXCEPT ![r] = "ended"] /\ waiters' = waiters
    <3>1. Holding' = Holding
      BY <2>1, <2>4 DEF Running, Basic
    <3>. QED
      BY <2>4, <3>1 DEF Pool!vars
  <2>5. CASE /\ job' = [job EXCEPT ![r] = "waiting"] /\ waiters' = Append(waiters, r)
             /\ ~(waiters = <<>> /\ Cardinality(Holding) < PoolMax)
    <3>1. Holding' = Holding
      BY <2>1, <2>5 DEF Running, Basic
    <3>. QED
      BY <2>2, <2>5, <3>1, PoolVocabulary DEF Pool!Next, Pool!Connect
  <2>. QED
    BY <1>2, <2>3, <2>4, <2>5 DEF StartJob
<1>. QED
  BY <1>1, <1>2

LEMMA PoolStep == Inv /\ [Next]_vars => [Pool!Next]_(Pool!vars)
<1>. SUFFICES ASSUME Inv, [Next]_vars PROVE [Pool!Next]_(Pool!vars)
  OBVIOUS
<1>. Basic /\ Queued(waiters, job)
  BY TypeParts DEF Inv
<1>1. ASSUME waiters' = waiters, job' = job, set' = set PROVE [Pool!Next]_(Pool!vars)
  BY <1>1 DEF Pool!vars, Holding, Running
<1>2. ASSUME NEW r \in Req, Calm(r) PROVE [Pool!Next]_(Pool!vars)
  BY <1>1, <1>2
     DEF Calm, OnRequest, Shed, Invalid, TimesOut, OnResponse, NoFinish, ClientGivesUp, jobs
<1>3. ASSUME NEW r \in Req, Admit(r) \/ SlowEnds(r) PROVE [Pool!Next]_(Pool!vars)
  <2>1. job[r] = "none" /\ set' = set
    BY <1>3 DEF Inv, Courses, Course, Admit, SlowEnds
  <2>2. CASE StartJob(r)
    BY <2>1, <2>2, StartIsConnect
  <2>3. CASE UNCHANGED jobs
    BY <1>1, <2>1, <2>3 DEF jobs
  <2>. QED
    BY <1>3, <2>2, <2>3 DEF Admit, SlowEnds
<1>4. ASSUME NEW r \in Req, JobEnds(r) PROVE [Pool!Next]_(Pool!vars)
  <2>1. /\ job[r] = "running" /\ job' = [job EXCEPT ![r] = "ended"]
        /\ waiters' = waiters /\ set' = set
    BY <1>4 DEF JobEnds, Settle
  <2>2. CASE set.async
    BY <2>1, <2>2 DEF Holding, Pool!vars
  <2>3. CASE ~set.async
    <3>1. r \in Holding /\ Holding' = Holding \ {r}
      BY <2>1, <2>3 DEF Holding, Running, Basic
    <3>. QED
      BY <2>1, <3>1 DEF Pool!Next, Pool!Release
  <2>. QED
    BY <2>2, <2>3
<1>5. ASSUME NEW r \in Req, AcquireTimesOut(r) PROVE [Pool!Next]_(Pool!vars)
  <2>1. job[r] = "waiting" /\ job' = [job EXCEPT ![r] = "ended"] /\ set' = set
    BY <1>5 DEF AcquireTimesOut, Settle
  <2>2. Holding' = Holding
    BY <2>1 DEF Holding, Running, Basic
  <2>3. Pool!GiveUp(r)
    BY <1>5, <2>2 DEF AcquireTimesOut, Pool!GiveUp, Seqs!RemoveAt
  <2>. QED
    BY <2>3 DEF Pool!Next
<1>6. ASSUME Grant PROVE [Pool!Next]_(Pool!vars)
  <2>1. Head(waiters) \in Req /\ job[Head(waiters)] = "waiting"
    BY <1>6, HeadWaits DEF Grant
  <2>2. job' = [job EXCEPT ![Head(waiters)] = "running"] /\ set' = set
    BY <1>6 DEF Grant
  <2>3. ~set.async
    BY <2>1 DEF Inv, AsyncQueue
  <2>4. Holding' = Holding \cup {Head(waiters)}
    BY <2>1, <2>2, <2>3 DEF Holding, Running, Basic
  <2>. QED
    BY <1>6, <2>4, PoolVocabulary DEF Grant, Pool!Next, Pool!Serve
<1>7. ASSUME Around PROVE [Pool!Next]_(Pool!vars)
  BY <1>1, <1>7 DEF Around, Probe, LagProbe, Close, Closed, Exit, jobs
<1>8. CASE UNCHANGED vars
  BY <1>1, <1>8 DEF vars, jobs
<1>. QED
  BY <1>2, <1>3, <1>4, <1>5, <1>6, <1>7, <1>8, StepKinds

\* The synchronous path uses its connections as a pool promises them: never
\* more than PG_POOL_MAX, and first come, first served, whatever times out.
THEOREM OverloadImplementsPool == Spec => ImplementsPool
<1>1. Init => Pool!Init
  BY DEF Init, Pool!Init, Holding, Running
<1>. QED
  BY <1>1, PoolStep, InvHolds, PTL DEF Spec, ImplementsPool, Pool!Spec
=============================================================================
