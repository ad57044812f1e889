--------------------------- MODULE AsyncWriteProofs ---------------------------
(***************************************************************************)
(* AsyncWrite for any finite sets of calls and worker slots, any requests, *)
(* any MaxRetry and any number of failures.                                *)
(***************************************************************************)
EXTENDS AsyncWrite, FiniteSetTheorems, TLAPS

\* Something other than an acknowledged copy remembers the call.
Remembered(c) ==
  \/ \E m \in CopiesOf(c) : main[m] > 0 \/ retry[m] > 0 \/ dlq[m] > 0
  \/ \E s \in Slot : job[s] \in CopiesOf(c) /\ stage[s] \in {"handle", "retry", "dead"}
  \/ Decided(c)

\* From the moment the broker has the message.
Unforgotten == \A c \in Call :
  step[c] = "confirm" \/ answer[c] = "accepted" => Remembered(c)

\* The attempt number of a copy is no more than the failures of its call.
CopyCounts(m) ==
  /\ main[m] > 0 \/ retry[m] > 0 => errors[m.call] >= m.attempt
  /\ dlq[m] > 0 => errors[m.call] >= MaxRetry + 1

SlotCounts(s) ==
  /\ stage[s] # "empty" => errors[job[s].call] >= job[s].attempt
  /\ stage[s] = "retry" => errors[job[s].call] >= job[s].attempt + 1 /\ job[s].attempt < MaxRetry
  /\ stage[s] = "dead"  => errors[job[s].call] >= MaxRetry + 1

Counted == (\A m \in Copy : CopyCounts(m)) /\ (\A s \in Slot : SlotCounts(s))

Inv == TypeOK /\ Unforgotten /\ Counted

-----------------------------------------------------------------------------
(* Types                                                                   *)

LEMMA CopyType ==
  ASSUME TypeOK, NEW s \in Slot, stage[s] # "empty"
  PROVE  job[s] \in Copy /\ job[s].call \in Call /\ job[s].attempt \in 0 .. MaxRetry
                         /\ Asks(s) \in Request
<1>1. job[s] \in Copy
  BY DEF TypeOK
<1>. QED
  BY <1>1 DEF TypeOK, Copy, Asks

LEMMA BookType ==
  ASSUME TypeOK, NEW r \in Request, WorkerOutcome(r) = "created", Book(r)
  PROVE  /\ r.event \in Event /\ r.qty \in Nat \ {0} /\ remaining[r.event] >= r.qty
         /\ r.key \notin KeysOf(booked)
         /\ remaining' \in [Event -> Nat] /\ booked' \subseteq Request
<1>1. r.event \in Event /\ ~(remaining[r.event] < r.qty) /\ r.key \notin KeysOf(booked)
  BY DEF WorkerOutcome
<1>2. r.qty \in Nat \ {0} /\ remaining[r.event] \in Nat
  BY <1>1, RequestAssumption DEF TypeOK
<1>3. remaining[r.event] - r.qty \in Nat
  BY <1>1, <1>2
<1>. QED
  BY <1>1, <1>2, <1>3 DEF TypeOK, Book

LEMMA OutcomeType ==
  ASSUME NEW r \in Request
  PROVE  /\ WorkerOutcome(r) \in Verdict
         /\ SyncOutcomes(r) \subseteq ApiAnswer
         /\ \A o \in SyncOutcomes(r) : o = "created" => WorkerOutcome(r) = "created"
<1>1. WorkerOutcome(r) \in Verdict
  BY DEF WorkerOutcome, Verdict
<1>. QED
  BY <1>1 DEF SyncOutcomes, Verdict, ApiAnswer, Outcome

LEMMA ApplyType ==
  ASSUME TypeOK, NEW r \in Request, NEW o, o = "created" => WorkerOutcome(r) = "created",
         Apply(r, o)
  PROVE  remaining' \in [Event -> Nat] /\ booked' \subseteq Request
<1>1. CASE o = "created"
  BY <1>1, BookType DEF Apply
<1>2. CASE o # "created"
  BY <1>2 DEF Apply, db, TypeOK
<1>. QED
  BY <1>1, <1>2

LEMMA HappensType ==
  ASSUME TypeOK, NEW k, Happens(k)
  PROVE  faults' \in 0 .. MaxFaults
  BY FaultsAssumption DEF TypeOK, Happens

LEMMA TakeGiveType ==
  ASSUME TypeOK, NEW c \in Call
  PROVE  /\ EventOf(c) \in EventId /\ req[c].qty \in Nat \ {0} /\ gate[EventOf(c)] \in Int
         /\ Take(c) => gate' \in [EventId -> Int] 
         /\ Give(c) => gate' \in [EventId -> Int]
<1>1. EventOf(c) \in EventId /\ req[c].qty \in Nat \ {0} /\ gate[EventOf(c)] \in Int
  BY RequestAssumption DEF TypeOK, EventOf
<1>2. gate[EventOf(c)] - req[c].qty \in Int /\ gate[EventOf(c)] + req[c].qty \in Int
  BY <1>1
<1>. QED
  BY <1>1, <1>2 DEF TypeOK, Take, Give

\* The steps of an API call, but for the publish.
ApiStep(c) ==
  \/ Submit(c) \/ Decr(c) \/ Undo(c) \/ Sync(c) \/ Confirm(c) \/ Release(c)
  \/ GateFails(c) \/ SyncFails(c) \/ SendFails(c) \/ ConfirmLost(c) \/ ReleaseFails(c)
  \/ AppCrash(c)

\* They leave what is behind the broker alone, and nobody else is affected.
LEMMA ApiStepKinds ==
  ASSUME TypeOK, NEW c \in Call, ApiStep(c)
  PROVE  /\ UNCHANGED <<req, queues, slots, counts>>
         /\ step' \in [Call -> Step] /\ answer' \in [Call -> ApiAnswer]
         /\ \A d \in Call : d # c => step'[d] = step[d] /\ answer'[d] = answer[d]
         /\ step'[c] # "confirm"
         /\ answer'[c] = "accepted" => answer[c] = "accepted" \/ step[c] = "confirm"
<1>. USE DEF Goto, Finish, TypeOK, Step, ApiAnswer, Outcome
<1>1. CASE Submit(c) \/ Decr(c)
  BY <1>1 DEF Submit, Decr
<1>2. CASE Undo(c) \/ Release(c) \/ Confirm(c)
  BY <1>2 DEF Undo, Release, Confirm
<1>3. CASE Sync(c)
  <2>1. PICK o \in SyncOutcomes(req[c]) : Finish(c, o)
    BY <1>3 DEF Sync
  <2>2. o \in ApiAnswer /\ o # "accepted"
    BY <2>1 DEF SyncOutcomes, WorkerOutcome
  <2>. QED
    BY <1>3, <2>1, <2>2 DEF Sync
<1>4. CASE GateFails(c) \/ SyncFails(c) \/ ReleaseFails(c)
  BY <1>4 DEF GateFails, SyncFails, ReleaseFails
<1>5. CASE SendFails(c) \/ ConfirmLost(c) \/ AppCrash(c)
  BY <1>5 DEF SendFails, ConfirmLost, AppCrash
<1>. QED
  BY <1>1, <1>2, <1>3, <1>4, <1>5 DEF ApiStep

LEMMA ApiStepType ==
  ASSUME TypeOK, NEW c \in Call, ApiStep(c)
  PROVE  TypeOK'
<1>1. req[c] \in Request
  BY DEF TypeOK
<1>2. remaining' \in [Event -> Nat] /\ booked' \subseteq Request
  <2>1. CASE Sync(c)
    BY <1>1, <2>1, OutcomeType, ApplyType DEF Sync
  <2>2. CASE SyncFails(c)
    BY <1>1, <2>2, BookType DEF SyncFails, db, TypeOK
  <2>3. CASE UNCHANGED db
    BY <2>3 DEF db, TypeOK
  <2>. QED
    BY <2>1, <2>2, <2>3 DEF ApiStep, Submit, Decr, Undo, GateFails, Confirm, Release, SendFails,
                            ConfirmLost, ReleaseFails, AppCrash
<1>3. gate' \in [EventId -> Int]
  <2>1. CASE Decr(c) \/ GateFails(c) \/ Undo(c) \/ Release(c) \/ ReleaseFails(c)
    BY <2>1, TakeGiveType DEF Decr, GateFails, Undo, Release, ReleaseFails, TakeOrNot, GiveOrNot, TypeOK
  <2>2. CASE UNCHANGED gate
    BY <2>2 DEF TypeOK
  <2>. QED
    BY <2>1, <2>2 DEF ApiStep, Submit, Confirm, Sync, SyncFails, SendFails, ConfirmLost, AppCrash
<1>4. faults' \in 0 .. MaxFaults
  <2>1. CASE UNCHANGED faults
    BY <2>1 DEF TypeOK
  <2>. QED
    BY <2>1, HappensType DEF ApiStep, Submit, Decr, Undo, GateFails, Confirm, Release, SendFails,
                             Sync, SyncFails, ConfirmLost, ReleaseFails, AppCrash
<1>. QED
  BY <1>2, <1>3, <1>4, ApiStepKinds DEF TypeOK, queues, slots, counts

LEMMA SendType ==
  ASSUME TypeOK, NEW c \in Call, Send(c)
  PROVE  TypeOK'
<1>1. [call |-> c, attempt |-> 0] \in Copy
  BY MaxRetryAssumption DEF Copy
<1>. QED
  BY <1>1 DEF Send, Goto, Put, TypeOK, Step, db, slots, counts

LEMMA QueueType ==
  ASSUME NEW q \in [Copy -> Nat], NEW m \in Copy
  PROVE  /\ Put(q, m) \in [Copy -> Nat] /\ Put(q, m)[m] = q[m] + 1
         /\ \A n \in Copy : n # m => Put(q, m)[n] = q[n]
         /\ q[m] > 0 => Drop(q, m) \in [Copy -> Nat]
         /\ \A n \in Copy : n # m => Drop(q, m)[n] = q[n]
  BY DEF Put, Drop

LEMMA SeverType ==
  ASSUME TypeOK, NEW lost \in SUBSET Slot, NEW runs \in SUBSET lost, NEW ended \in SUBSET Slot,
         Sever(lost, runs, ended)
  PROVE  /\ main' \in [Copy -> Nat]
         /\ job' \in [Slot -> Copy \cup {NoCopy}] /\ stage' \in [Slot -> Stage]
         /\ \A m \in Copy : main'[m] >= main[m] /\ (main'[m] > 0 <=> main[m] > 0 \/ \E s \in lost : job[s] = m)
         /\ \A s \in Slot : job'[s] = job[s] \/ job'[s] = NoCopy
         /\ (\A s \in lost : stage[s] # "empty") =>
              \A s \in Slot : stage'[s] = "empty" <=> job'[s] = NoCopy
         /\ \A s \in Slot \ lost : stage'[s] = stage[s] \/ stage'[s] = "empty"
         /\ \A s \in lost : stage'[s] \in {"zombie", "empty"}
<1>. DEFINE Back(m) == {s \in lost : job[s] = m}
<1>1. ASSUME NEW m \in Copy
      PROVE  Cardinality(Back(m)) \in Nat /\ (Cardinality(Back(m)) > 0 <=> Back(m) # {})
  <2>1. Back(m) \in SUBSET Slot
    OBVIOUS
  <2>2. IsFiniteSet(Back(m))
    BY <2>1, SlotAssumption, FS_Subset
  <2>. QED
    BY <2>2, FS_CardinalityType, FS_EmptySet
<1>. HIDE DEF Back
<1>2. main' = [m \in Copy |-> main[m] + Cardinality(Back(m))]
  BY DEF Sever, Back
<1>3. ASSUME NEW m \in Copy
      PROVE  /\ main'[m] \in Nat /\ main'[m] >= main[m]
             /\ main'[m] > 0 <=> main[m] > 0 \/ \E s \in lost : job[s] = m
  <2>1. main[m] \in Nat /\ main'[m] = main[m] + Cardinality(Back(m))
    BY <1>2 DEF TypeOK
  <2>2. Back(m) # {} <=> \E s \in lost : job[s] = m
    BY DEF Back
  <2>. QED
    BY <1>1, <2>1, <2>2
<1>4. main' \in [Copy -> Nat]
  BY <1>2, <1>3
<1>5. job' \in [Slot -> Copy \cup {NoCopy}] /\ stage' \in [Slot -> Stage]
  BY DEF Sever, TypeOK, Stage
<1>6. \A s \in Slot : job'[s] = job[s] \/ job'[s] = NoCopy
  BY DEF Sever
<1>7. /\ \A s \in Slot \ lost : stage'[s] = stage[s] \/ stage'[s] = "empty"
      /\ \A s \in lost : stage'[s] \in {"zombie", "empty"}
  BY DEF Sever
<1>8. ASSUME \A s \in lost : stage[s] # "empty", NEW s \in Slot
      PROVE  stage'[s] = "empty" <=> job'[s] = NoCopy
  BY <1>8 DEF Sever, TypeOK
<1>. QED
  BY <1>3, <1>4, <1>5, <1>6, <1>7, <1>8

LEMMA UnackedType ==
  ASSUME NEW w
  PROVE  /\ Unacked(w) \subseteq Slot
         /\ \A s \in Unacked(w) : stage[s] \notin {"empty", "zombie"}
         /\ \A s \in {t \in Slot : WorkerOf[t] = w} \ Unacked(w) : stage[s] \in {"empty", "zombie"}
  BY DEF Unacked

\* What a lost connection or a worker's death may do.
SeverStep(lost, runs, ended) ==
  /\ lost \subseteq Slot /\ runs \subseteq lost /\ ended \subseteq Slot
  /\ \A s \in lost : stage[s] \notin {"empty", "zombie"}
  /\ \A s \in ended \ lost : stage[s] \in {"empty", "zombie"}
  /\ Sever(lost, runs, ended)

LEMMA GoneSevers ==
  ASSUME TypeOK, NEW w, WorkerGone(w)
  PROVE  \E lost, runs, ended \in SUBSET Slot : SeverStep(lost, runs, ended)
<1>1. CASE Sever(Unacked(w), {s \in Unacked(w) : stage[s] = "handle"}, {})
  <2>1. SeverStep(Unacked(w), {s \in Unacked(w) : stage[s] = "handle"}, {})
    BY <1>1, UnackedType DEF SeverStep
  <2>. QED
    BY <2>1, UnackedType DEF SeverStep
<1>2. CASE Sever(Unacked(w), {}, {s \in Slot : WorkerOf[s] = w})
  <2>1. SeverStep(Unacked(w), {}, {s \in Slot : WorkerOf[s] = w})
    BY <1>2, UnackedType DEF SeverStep
  <2>. QED
    BY <2>1, UnackedType DEF SeverStep
<1>. QED
  BY <1>1, <1>2 DEF WorkerGone

LEMMA ZombieSevers ==
  ASSUME TypeOK, NEW s \in Slot, ZombieEnds(s)
  PROVE  \E lost, runs, ended \in SUBSET Slot : SeverStep(lost, runs, ended)
<1>1. SeverStep(Unacked(WorkerOf[s]), {}, {t \in Slot : WorkerOf[t] = WorkerOf[s]})
  BY UnackedType DEF ZombieEnds, SeverStep
<1>. QED
  BY <1>1, UnackedType DEF SeverStep

LEMMA SeverStepType ==
  ASSUME TypeOK, NEW lost, NEW runs, NEW ended, SeverStep(lost, runs, ended)
  PROVE  /\ main' \in [Copy -> Nat]
         /\ job' \in [Slot -> Copy \cup {NoCopy}] /\ stage' \in [Slot -> Stage]
         /\ \A s \in Slot : stage'[s] = "empty" <=> job'[s] = NoCopy
         /\ \A m \in Copy : main'[m] >= main[m] /\ (main'[m] > 0 <=> main[m] > 0 \/ \E s \in lost : job[s] = m)
         /\ \A s \in Slot : job'[s] = job[s] \/ job'[s] = NoCopy
         /\ \A s \in Slot \ lost : stage'[s] = stage[s] \/ stage'[s] = "empty"
         /\ \A s \in Slot \ lost : stage[s] # "zombie" => stage'[s] = stage[s] /\ job'[s] = job[s]
         /\ \A s \in lost : stage'[s] \in {"zombie", "empty"}
<1>1. /\ lost \in SUBSET Slot /\ runs \in SUBSET lost /\ ended \in SUBSET Slot
      /\ \A s \in lost : stage[s] # "empty"
  BY DEF SeverStep
<1>2. Sever(lost, runs, ended)
  BY DEF SeverStep
<1>3. \A s \in Slot \ lost : stage[s] # "zombie" => stage'[s] = stage[s] /\ job'[s] = job[s]
  BY DEF SeverStep, Sever, TypeOK
<1>. QED
  BY <1>1, <1>2, <1>3, SeverType

LEMMA ErrorsType ==
  ASSUME TypeOK, NEW c \in Call, errors' = [errors EXCEPT ![c] = @ + 1]
  PROVE  errors' \in [Call -> Nat] /\ errors'[c] = errors[c] + 1
         /\ \A d \in Call : errors'[d] >= errors[d]
  BY DEF TypeOK

LEMMA ConsumedType ==
  ASSUME TypeOK, NEW s \in Slot, stage[s] # "empty", NEW o \in Verdict, Count(s, o)
  PROVE  /\ consumed' \in [Call -> SUBSET Verdict]
         /\ consumed'[job[s].call] = consumed[job[s].call] \cup {o}
         /\ \A d \in Call : d # job[s].call => consumed'[d] = consumed[d]
  BY CopyType DEF Count, TypeOK

\* Steps of the worker and the broker that write neither Postgres nor the counts.
MoveStep ==
  \/ \E s \in Slot : Deliver(s) \/ ScheduleRetry(s) \/ Ack(s) \/ DeadLetter(s)
  \/ \E m \in Copy : Expire(m)

\* Of the copy a worker sends, the attempt number goes up.
Next1(m) == [m EXCEPT !.attempt = @ + 1]

LEMMA Next1Type ==
  ASSUME NEW m \in Copy
  PROVE  /\ Next1(m).call = m.call /\ Next1(m).attempt = m.attempt + 1
         /\ m.attempt < MaxRetry => Next1(m) \in Copy
  BY MaxRetryAssumption DEF Next1, Copy

LEMMA MoveType ==
  ASSUME TypeOK, MoveStep
  PROVE  TypeOK'
<1>. USE DEF queues, slots, counts, api, db
<1>1. ASSUME NEW s \in Slot, Deliver(s) PROVE TypeOK'
  <2>1. PICK m \in Copy : main[m] > 0 /\ main' = Drop(main, m) /\ job' = [job EXCEPT ![s] = m]
    BY <1>1 DEF Deliver
  <2>2. main' \in [Copy -> Nat]
    BY <2>1, QueueType DEF TypeOK
  <2>3. /\ job' \in [Slot -> Copy \cup {NoCopy}] /\ stage' \in [Slot -> Stage]
        /\ \A t \in Slot : stage'[t] = "empty" <=> job'[t] = NoCopy
    BY <1>1, <2>1, NoCopyAssumption DEF Deliver, Stays, TypeOK, Stage
  <2>. QED
    BY <1>1, <2>2, <2>3 DEF Deliver, TypeOK
<1>2. ASSUME NEW s \in Slot, ScheduleRetry(s) PROVE TypeOK'
  <2>1. retry' \in [Copy -> Nat]
    <3>1. ASSUME NEW x PROVE Put(retry, x) \in [Copy -> Nat]
      <4>1. Put(retry, x) = [m \in Copy |-> IF m = x THEN retry[m] + 1 ELSE retry[m]]
        BY DEF Put, TypeOK
      <4>2. \A m \in Copy : retry[m] \in Nat
        BY DEF TypeOK
      <4>. QED
        BY <4>1, <4>2
    <3>. QED
      BY <1>2, <3>1 DEF ScheduleRetry
  <2>2. /\ stage' \in [Slot -> Stage]
        /\ \A t \in Slot : stage'[t] = "empty" <=> job'[t] = NoCopy
    BY <1>2 DEF ScheduleRetry, Stays, TypeOK, Stage
  <2>. QED
    BY <1>2, <2>1, <2>2 DEF ScheduleRetry, TypeOK
<1>3. ASSUME NEW s \in Slot, Frees(s)
      PROVE  /\ job' \in [Slot -> Copy \cup {NoCopy}] /\ stage' \in [Slot -> Stage]
             /\ \A t \in Slot : stage'[t] = "empty" <=> job'[t] = NoCopy
  BY <1>3 DEF Frees, Stays, TypeOK, Stage
<1>4. ASSUME NEW s \in Slot, Ack(s) PROVE TypeOK'
  BY <1>3, <1>4 DEF Ack, TypeOK
<1>5. ASSUME NEW s \in Slot, DeadLetter(s) PROVE TypeOK'
  BY <1>3, <1>5 DEF DeadLetter, Put, TypeOK
<1>6. ASSUME NEW m \in Copy, Expire(m) PROVE TypeOK'
  BY <1>6, QueueType DEF Expire, TypeOK
<1>. QED
  BY <1>1, <1>2, <1>4, <1>5, <1>6 DEF MoveStep

LEMMA HandleType ==
  ASSUME TypeOK, NEW s \in Slot, Handle(s)
  PROVE  TypeOK'
<1>1. stage[s] # "empty" /\ WorkerOutcome(Asks(s)) \in Verdict /\ Asks(s) \in Request
  BY CopyType, OutcomeType DEF Handle
<1>2. remaining' \in [Event -> Nat] /\ booked' \subseteq Request
  BY <1>1, ApplyType DEF Handle
<1>3. consumed' \in [Call -> SUBSET Verdict]
  BY <1>1, ConsumedType DEF Handle
<1>. QED
  BY <1>2, <1>3 DEF Handle, Stays, TypeOK, Stage, api, queues

LEMMA HandleFailsType ==
  ASSUME TypeOK, NEW s \in Slot, HandleFails(s)
  PROVE  TypeOK'
<1>1. stage[s] # "empty" /\ job[s] \in Copy /\ job[s].call \in Call /\ Asks(s) \in Request
  BY CopyType DEF HandleFails
<1>2. remaining' \in [Event -> Nat] /\ booked' \subseteq Request
  BY <1>1, BookType DEF HandleFails, TypeOK, db
<1>3. faults' \in 0 .. MaxFaults
  BY HappensType DEF HandleFails
<1>4. errors' \in [Call -> Nat]
  BY <1>1, ErrorsType DEF HandleFails
<1>5. AfterFailure(job[s]) \in {"dead", "retry"}
  BY DEF AfterFailure
<1>6. /\ stage' \in [Slot -> Stage]
      /\ \A t \in Slot : stage'[t] = "empty" <=> job'[t] = NoCopy
  BY <1>1, <1>5 DEF HandleFails, Stays, Stage, TypeOK
<1>. QED
  BY <1>2, <1>3, <1>4, <1>6 DEF HandleFails, TypeOK, api, queues

LEMMA ZombieType ==
  ASSUME TypeOK, NEW s \in Slot, ZombieEnds(s)
  PROVE  TypeOK'
<1>1. stage[s] # "empty" /\ WorkerOutcome(Asks(s)) \in Verdict /\ Asks(s) \in Request
  BY CopyType, OutcomeType DEF ZombieEnds
<1>2. remaining' \in [Event -> Nat] /\ booked' \subseteq Request
  BY <1>1, ApplyType DEF ZombieEnds, TypeOK, db
<1>3. consumed' \in [Call -> SUBSET Verdict]
  BY <1>1, ConsumedType DEF ZombieEnds, TypeOK
<1>4. PICK lost, runs, ended \in SUBSET Slot : SeverStep(lost, runs, ended)
  BY ZombieSevers
<1>. QED
  BY <1>2, <1>3, <1>4, SeverStepType DEF ZombieEnds, TypeOK, api

LEMMA GoneType ==
  ASSUME TypeOK, NEW w \in Worker, WorkerGone(w)
  PROVE  TypeOK'
<1>1. PICK lost, runs, ended \in SUBSET Slot : SeverStep(lost, runs, ended)
  BY GoneSevers
<1>2. faults' \in 0 .. MaxFaults
  BY HappensType DEF WorkerGone
<1>. QED
  BY <1>1, <1>2, SeverStepType DEF WorkerGone, TypeOK, api, db, counts

LEMMA LostType ==
  ASSUME TypeOK, GateLost
  PROVE  TypeOK'
  BY HappensType DEF GateLost, TypeOK, api, db, counts, queues, slots

LEMMA StepKinds ==
  ASSUME [Next]_vars
  PROVE  \/ \E c \in Call : ApiStep(c) \/ Send(c)
         \/ MoveStep
         \/ \E s \in Slot : Handle(s) \/ HandleFails(s) \/ ZombieEnds(s)
         \/ \E w \in Worker : WorkerGone(w)
         \/ GateLost
         \/ UNCHANGED vars
<1>1. ASSUME NEW c \in Call, CallStep(c) PROVE ApiStep(c) \/ Send(c)
  BY <1>1 DEF CallStep, ApiStep
<1>2. ASSUME NEW s \in Slot, SlotStep(s) PROVE MoveStep \/ Handle(s) \/ ZombieEnds(s)
  BY <1>2 DEF SlotStep, MoveStep
<1>3. ASSUME Failure
      PROVE  \/ \E c \in Call : ApiStep(c)
             \/ \E s \in Slot : HandleFails(s)
             \/ \E w \in Worker : WorkerGone(w)
             \/ GateLost
  BY <1>3 DEF Failure, ApiStep
<1>. QED
  BY <1>1, <1>2, <1>3 DEF Next, MoveStep

LEMMA TypeStep ==
  ASSUME TypeOK, [Next]_vars
  PROVE  TypeOK'
<1>1. CASE UNCHANGED vars
  BY <1>1 DEF vars, db, api, queues, slots, counts, TypeOK
<1>. QED
  BY <1>1, ApiStepType, SendType, MoveType, HandleType, HandleFailsType, ZombieType, GoneType,
     LostType, StepKinds

LEMMA TypeInit == Init => TypeOK
<1>. SUFFICES ASSUME Init PROVE TypeOK
  OBVIOUS
<1>1. gate \in [EventId -> Int]
  BY TotalAssumption, EventAssumption DEF Init
<1>. QED
  BY <1>1, TotalAssumption, FaultsAssumption DEF Init, TypeOK, Step, ApiAnswer, Stage

-----------------------------------------------------------------------------
(* A 202 is remembered                                                     *)

\* What is in a queue, in the hands of a worker, or decided, leads on to one of
\* these.
LEMMA RememberedStays ==
  ASSUME TypeOK, TypeOK', Counted, NEW c \in Call, Remembered(c), [Next]_vars
  PROVE  Remembered(c)'
<1>. DEFINE InQueue(m)  == main[m] > 0 \/ retry[m] > 0 \/ dlq[m] > 0
            InHand(s)   == job[s] \in CopiesOf(c) /\ stage[s] \in {"handle", "retry", "dead"}
<1>0. Remembered(c) <=> (\E m \in CopiesOf(c) : InQueue(m)) \/ (\E s \in Slot : InHand(s)) \/ Decided(c)
  BY DEF Remembered
<1>00. Remembered(c)' <=>
         (\E m \in CopiesOf(c) : InQueue(m)') \/ (\E s \in Slot : InHand(s)') \/ Decided(c)'
  BY DEF Remembered, CopiesOf
<1>000. CopiesOf(c) \subseteq Copy /\ CopiesOf(c)' = CopiesOf(c)
  BY DEF CopiesOf
<1>1. ASSUME UNCHANGED <<queues, slots, consumed>> PROVE Remembered(c)'
  BY <1>1 DEF queues, slots, Remembered, CopiesOf, Decided
<1>2. ASSUME NEW d \in Call, Send(d) PROVE Remembered(c)'
  <2>1. [call |-> d, attempt |-> 0] \in Copy
    BY MaxRetryAssumption DEF Copy
  <2>2. \A m \in Copy : main[m] > 0 => main'[m] > 0
    BY <1>2, <2>1 DEF Send, Put, TypeOK
  <2>. QED
    BY <1>0, <1>00, <1>000, <1>2, <2>2 DEF Send, slots, counts, Decided
<1>3. ASSUME NEW s \in Slot, Deliver(s) PROVE Remembered(c)'
  <2>1. PICK n \in Copy : main[n] > 0 /\ main' = Drop(main, n) /\ job' = [job EXCEPT ![s] = n]
    BY <1>3 DEF Deliver
  <2>2. stage' = [stage EXCEPT ![s] = "handle"] /\ stage[s] = "empty"
    BY <1>3 DEF Deliver, Stays
  <2>3. \A m \in Copy : m # n => main'[m] = main[m]
    BY <2>1, QueueType DEF TypeOK
  <2>4. n \in CopiesOf(c) => InHand(s)'
    BY <1>000, <2>1, <2>2 DEF TypeOK
  <2>5. \A m \in CopiesOf(c) : InQueue(m) => InQueue(m)' \/ InHand(s)'
    BY <1>000, <1>3, <2>3, <2>4 DEF Deliver
  <2>6. \A t \in Slot : InHand(t) => InHand(t)'
    BY <1>000, <2>1, <2>2 DEF TypeOK
  <2>7. Decided(c)' <=> Decided(c)
    BY <1>3 DEF Deliver, counts, Decided
  <2>. HIDE DEF InQueue, InHand
  <2>. QED
    BY <1>0, <1>00, <2>5, <2>6, <2>7
<1>4. ASSUME NEW s \in Slot, ScheduleRetry(s) PROVE Remembered(c)'
  <2>0. stage[s] = "retry" /\ job[s] \in Copy /\ job[s].attempt < MaxRetry
    BY <1>4, CopyType DEF ScheduleRetry, Counted, SlotCounts
  <2>1. PICK n \in Copy : n = Next1(job[s]) /\ n.call = job[s].call
    BY <2>0, Next1Type
  <2>2. retry' = Put(retry, n)
    BY <1>4, <2>1 DEF ScheduleRetry, Next1
  <2>3. retry'[n] > 0 /\ \A m \in Copy : retry[m] > 0 => retry'[m] > 0
    BY <2>1, <2>2 DEF Put, TypeOK
  <2>4. \A m \in CopiesOf(c) : InQueue(m) => InQueue(m)'
    BY <1>000, <1>4, <2>3 DEF ScheduleRetry
  <2>5. InHand(s) => n \in CopiesOf(c) /\ InQueue(n)'
    BY <2>1, <2>3 DEF CopiesOf
  <2>6. \A t \in Slot : t # s /\ InHand(t) => InHand(t)'
    BY <1>000, <1>4 DEF ScheduleRetry, Stays, TypeOK
  <2>7. Decided(c)' <=> Decided(c)
    BY <1>4 DEF ScheduleRetry, counts, Decided
  <2>. HIDE DEF InQueue, InHand
  <2>. QED
    BY <1>0, <1>00, <2>4, <2>5, <2>6, <2>7
<1>5. ASSUME NEW s \in Slot, Ack(s) PROVE Remembered(c)'
  <2>1. \A t \in Slot : InHand(t) => InHand(t)'
    BY <1>000, <1>5 DEF Ack, Frees, Stays, TypeOK
  <2>2. (Decided(c)' <=> Decided(c)) /\ UNCHANGED <<main, retry, dlq>>
    BY <1>5 DEF Ack, counts, queues, Decided
  <2>. QED
    BY <1>0, <1>00, <2>1, <2>2
<1>6. ASSUME NEW s \in Slot, DeadLetter(s) PROVE Remembered(c)'
  <2>1. job[s] \in Copy
    BY <1>6, CopyType DEF DeadLetter
  <2>2. dlq'[job[s]] > 0 /\ \A m \in Copy : dlq[m] > 0 => dlq'[m] > 0
    BY <1>6, <2>1 DEF DeadLetter, Put, TypeOK
  <2>3. \A m \in CopiesOf(c) : InQueue(m) => InQueue(m)'
    BY <1>000, <1>6, <2>2 DEF DeadLetter
  <2>5. \A t \in Slot : t # s /\ InHand(t) => InHand(t)'
    BY <1>000, <1>6 DEF DeadLetter, Frees, Stays, TypeOK
  <2>6. Decided(c)' <=> Decided(c)
    BY <1>6 DEF DeadLetter, counts, Decided
  <2>7. InHand(s) => \E m \in CopiesOf(c) : InQueue(m)'
    <3>1. ASSUME InHand(s) PROVE \E m \in CopiesOf(c) : main'[m] > 0 \/ retry'[m] > 0 \/ dlq'[m] > 0
      BY <2>2, <3>1
    <3>. QED
      BY <3>1
  <2>. HIDE DEF InQueue, InHand
  <2>. QED
    BY <1>0, <1>00, <2>3, <2>5, <2>6, <2>7
<1>7. ASSUME NEW n \in Copy, Expire(n) PROVE Remembered(c)'
  <2>1. main'[n] > 0 /\ \A m \in Copy : main[m] > 0 => main'[m] > 0
    BY <1>7 DEF Expire, Put, TypeOK
  <2>2. \A m \in Copy : m # n => retry'[m] = retry[m]
    BY <1>7, QueueType DEF Expire, TypeOK
  <2>3. \A m \in CopiesOf(c) : InQueue(m) => InQueue(m)'
    BY <1>000, <1>7, <2>1, <2>2 DEF Expire
  <2>. QED
    BY <1>0, <1>00, <1>000, <1>7, <2>3 DEF Expire, slots, counts, Decided
<1>8. ASSUME NEW s \in Slot, Handle(s) PROVE Remembered(c)'
  <2>1. /\ stage[s] = "handle" /\ job[s] \in Copy /\ job[s].call \in Call
        /\ Count(s, WorkerOutcome(Asks(s))) /\ WorkerOutcome(Asks(s)) \in Verdict
    BY <1>8, CopyType, OutcomeType DEF Handle
  <2>2. InHand(s) \/ Decided(c) => Decided(c)'
    BY <2>1, ConsumedType DEF Decided, CopiesOf
  <2>3. \A t \in Slot : t # s /\ InHand(t) => InHand(t)'
    BY <1>000, <1>8 DEF Handle, Stays, TypeOK
  <2>4. UNCHANGED <<main, retry, dlq>>
    BY <1>8 DEF Handle, queues
  <2>. QED
    BY <1>0, <1>00, <2>2, <2>3, <2>4
<1>9. ASSUME NEW s \in Slot, HandleFails(s) PROVE Remembered(c)'
  <2>1. \A t \in Slot : InHand(t) => InHand(t)'
    BY <1>000, <1>9 DEF HandleFails, Stays, AfterFailure, TypeOK
  <2>2. (Decided(c)' <=> Decided(c)) /\ UNCHANGED <<main, retry, dlq>>
    BY <1>9 DEF HandleFails, queues, Decided
  <2>. QED
    BY <1>0, <1>00, <2>1, <2>2
<1>10. ASSUME NEW lost, NEW runs, NEW ended, SeverStep(lost, runs, ended),
              UNCHANGED <<retry, dlq>>, Decided(c) => Decided(c)'
       PROVE  Remembered(c)'
  <2>1. \A m \in CopiesOf(c) : InQueue(m) => InQueue(m)'
    BY <1>000, <1>10, SeverStepType DEF TypeOK
  <2>2. ASSUME NEW t \in Slot, InHand(t), t \in lost PROVE \E m \in CopiesOf(c) : InQueue(m)'
    <3>1. main'[job[t]] > 0
      BY <1>000, <1>10, <2>2, SeverStepType
    <3>2. \E m \in CopiesOf(c) : main'[m] > 0 \/ retry'[m] > 0 \/ dlq'[m] > 0
      BY <2>2, <3>1
    <3>. QED
      BY <3>2
  <2>3. ASSUME NEW t \in Slot, InHand(t), t \notin lost
        PROVE  InHand(t)'
    BY <1>000, <1>10, <2>3, SeverStepType
  <2>. HIDE DEF InQueue, InHand
  <2>. QED
    BY <1>0, <1>00, <1>10, <2>1, <2>2, <2>3
<1>11. ASSUME NEW s \in Slot, ZombieEnds(s) PROVE Remembered(c)'
  <2>1. Decided(c) => Decided(c)'
    <3>1. CASE UNCHANGED consumed
      BY <3>1 DEF Decided
    <3>2. CASE Count(s, WorkerOutcome(Asks(s)))
      BY <1>11, <3>2, CopyType, OutcomeType, ConsumedType DEF ZombieEnds, Decided
    <3>. QED
      BY <1>11, <3>1, <3>2 DEF ZombieEnds
  <2>. QED
    BY <1>10, <1>11, <2>1, ZombieSevers DEF ZombieEnds
<1>12. ASSUME NEW w \in Worker, WorkerGone(w) PROVE Remembered(c)'
  BY <1>10, <1>12, GoneSevers DEF WorkerGone, counts, Decided
<1>13. ASSUME NEW d \in Call, ApiStep(d) PROVE Remembered(c)'
  BY <1>1, <1>13, ApiStepKinds DEF counts
<1>14. CASE GateLost \/ UNCHANGED vars
  BY <1>1, <1>14 DEF GateLost, vars, counts
<1>. HIDE DEF InQueue, InHand
<1>. QED
  BY <1>2, <1>3, <1>4, <1>5, <1>6, <1>7, <1>8, <1>9, <1>11, <1>12, <1>13, <1>14, StepKinds
     DEF MoveStep

LEMMA UnforgottenStep ==
  ASSUME TypeOK, TypeOK', Counted, Unforgotten, [Next]_vars
  PROVE  Unforgotten'
<1>. SUFFICES ASSUME NEW c \in Call, step'[c] = "confirm" \/ answer'[c] = "accepted"
              PROVE  Remembered(c)'
  BY DEF Unforgotten
<1>1. ASSUME Send(c) PROVE Remembered(c)'
  <2>1. [call |-> c, attempt |-> 0] \in CopiesOf(c)
    BY MaxRetryAssumption DEF Copy, CopiesOf
  <2>2. main'[[call |-> c, attempt |-> 0]] > 0
    BY <1>1, <2>1 DEF Send, Put, TypeOK, CopiesOf
  <2>. QED
    BY <2>1, <2>2 DEF Remembered, CopiesOf
<1>2. CASE ~Send(c)
  <2>1. step[c] = "confirm" \/ answer[c] = "accepted"
    <3>1. ASSUME NEW d \in Call, ApiStep(d)
          PROVE  step[c] = "confirm" \/ answer[c] = "accepted"
      BY <3>1, ApiStepKinds
    <3>2. ASSUME NEW d \in Call, Send(d), d # c
          PROVE  step[c] = "confirm" \/ answer[c] = "accepted"
      BY <3>2 DEF Send, Goto, TypeOK
    <3>3. CASE UNCHANGED api
      BY <3>3 DEF api
    <3>. QED
      BY <1>2, <3>1, <3>2, <3>3, StepKinds DEF MoveStep, Deliver, ScheduleRetry, Ack, DeadLetter,
         Expire, Handle, HandleFails, ZombieEnds, WorkerGone, GateLost, vars
  <2>. QED
    BY <2>1, RememberedStays DEF Unforgotten
<1>. QED
  BY <1>1, <1>2

-----------------------------------------------------------------------------
(* Attempts and failures                                                   *)

LEMMA CountedType ==
  ASSUME TypeOK
  PROVE  /\ \A c \in Call : errors[c] \in Nat
         /\ \A m \in Copy : m.call \in Call /\ m.attempt \in 0 .. MaxRetry
                            /\ main[m] \in Nat /\ retry[m] \in Nat /\ dlq[m] \in Nat
         /\ \A s \in Slot : stage[s] # "empty" => job[s] \in Copy
  BY DEF TypeOK, Copy

LEMMA CountedStep ==
  ASSUME TypeOK, TypeOK', Counted, [Next]_vars
  PROVE  Counted'
<1>. USE MaxRetryAssumption
<1>0. /\ \A m \in Copy : CopyCounts(m)
      /\ \A s \in Slot : SlotCounts(s)
  BY DEF Counted
<1>1. ASSUME UNCHANGED <<queues, slots, errors>> PROVE Counted'
  BY <1>1 DEF queues, slots, Counted, CopyCounts, SlotCounts
<1>2. ASSUME NEW d \in Call, Send(d) PROVE Counted'
  <2>0. [call |-> d, attempt |-> 0] \in Copy
    BY MaxRetryAssumption DEF Copy
  <2>1. PICK n \in Copy : n = [call |-> d, attempt |-> 0]
    BY <2>0
  <2>2. \A m \in Copy : m # n => main'[m] = main[m]
    BY <1>2, <2>1, QueueType DEF Send, TypeOK
  <2>3. \A m \in Copy : CopyCounts(m)'
    <3>1. CopyCounts(n)'
      BY <1>0, <1>2, <2>1, CountedType DEF Send, counts, CopyCounts
    <3>2. ASSUME NEW m \in Copy, m # n PROVE CopyCounts(m)'
      BY <1>0, <1>2, <2>2, <3>2 DEF Send, counts, CopyCounts
    <3>. QED
      BY <3>1, <3>2
  <2>. QED
    BY <1>0, <1>2, <2>3 DEF Send, slots, counts, Counted, SlotCounts
<1>3. ASSUME NEW s \in Slot, Deliver(s) PROVE Counted'
  <2>1. PICK n \in Copy : main[n] > 0 /\ main' = Drop(main, n) /\ job' = [job EXCEPT ![s] = n]
    BY <1>3 DEF Deliver
  <2>2. stage' = [stage EXCEPT ![s] = "handle"] /\ UNCHANGED <<retry, dlq, errors>>
    BY <1>3 DEF Deliver, Stays, counts
  <2>3. \A m \in Copy : main'[m] > 0 => main[m] > 0
    BY <2>1 DEF Drop, TypeOK
  <2>4. \A m \in Copy : CopyCounts(m)'
    BY <1>0, <2>2, <2>3 DEF CopyCounts
  <2>5. errors[n.call] >= n.attempt
    BY <1>0, <2>1 DEF CopyCounts
  <2>6. SlotCounts(s)'
    BY <2>1, <2>2, <2>5 DEF SlotCounts, TypeOK
  <2>7. ASSUME NEW t \in Slot, t # s PROVE SlotCounts(t)'
    BY <1>0, <2>1, <2>2, <2>7 DEF SlotCounts, TypeOK
  <2>. QED
    BY <2>4, <2>6, <2>7 DEF Counted
<1>4. ASSUME NEW s \in Slot, ScheduleRetry(s) PROVE Counted'
  <2>1. stage[s] = "retry" /\ job[s] \in Copy /\ job[s].attempt < MaxRetry
    BY <1>0, <1>4, CopyType DEF ScheduleRetry, SlotCounts
  <2>2. PICK n \in Copy : n = Next1(job[s]) /\ n.call = job[s].call /\ n.attempt = job[s].attempt + 1
    BY <2>1, Next1Type
  <2>3. retry' = Put(retry, n)
    BY <1>4, <2>2 DEF ScheduleRetry, Next1
  <2>4. UNCHANGED <<main, dlq, errors, job>> /\ stage' = [stage EXCEPT ![s] = "ack"]
    BY <1>4 DEF ScheduleRetry, counts, Stays
  <2>5. CopyCounts(n)'
    BY <1>0, <2>1, <2>2, <2>4 DEF CopyCounts, SlotCounts
  <2>6. ASSUME NEW m \in Copy, m # n PROVE CopyCounts(m)'
    <3>1. retry'[m] = retry[m]
      BY <2>3, <2>6 DEF Put, TypeOK
    <3>. QED
      BY <1>0, <2>4, <2>6, <3>1 DEF CopyCounts
  <2>7. ASSUME NEW t \in Slot PROVE SlotCounts(t)'
    BY <1>0, <2>1, <2>4 DEF SlotCounts, TypeOK
  <2>. QED
    BY <2>5, <2>6, <2>7 DEF Counted
<1>5. ASSUME NEW s \in Slot, Frees(s), UNCHANGED errors, NEW t \in Slot PROVE SlotCounts(t)'
  BY <1>0, <1>5 DEF Frees, Stays, SlotCounts, TypeOK
<1>6. ASSUME NEW s \in Slot, Ack(s) PROVE Counted'
  <2>1. \A m \in Copy : CopyCounts(m)'
    BY <1>0, <1>6 DEF Ack, queues, counts, CopyCounts
  <2>. QED
    BY <1>5, <1>6, <2>1 DEF Ack, counts, Counted
<1>7. ASSUME NEW s \in Slot, DeadLetter(s) PROVE Counted'
  <2>1. stage[s] = "dead" /\ job[s] \in Copy
    BY <1>7, CopyType DEF DeadLetter
  <2>2. \A m \in Copy : m # job[s] => dlq'[m] = dlq[m]
    BY <1>7, <2>1, QueueType DEF DeadLetter, TypeOK
  <2>3. errors[job[s].call] >= MaxRetry + 1
    BY <1>0, <2>1 DEF SlotCounts
  <2>4. ASSUME NEW m \in Copy PROVE CopyCounts(m)'
    BY <1>0, <1>7, <2>2, <2>3 DEF DeadLetter, counts, CopyCounts
  <2>. QED
    BY <1>5, <1>7, <2>4 DEF DeadLetter, counts, Counted
<1>8. ASSUME NEW n \in Copy, Expire(n) PROVE Counted'
  <2>1. \A m \in Copy : main'[m] > 0 => main[m] > 0 \/ m = n
    BY <1>8, QueueType DEF Expire, TypeOK
  <2>2. \A m \in Copy : retry'[m] > 0 => retry[m] > 0
    BY <1>8 DEF Expire, Drop, TypeOK
  <2>3. \A m \in Copy : CopyCounts(m)'
    BY <1>0, <1>8, <2>1, <2>2 DEF Expire, counts, CopyCounts
  <2>. QED
    BY <1>0, <1>8, <2>3 DEF Expire, slots, counts, Counted, SlotCounts
<1>9. ASSUME NEW s \in Slot, Handle(s) PROVE Counted'
  <2>1. \A t \in Slot : SlotCounts(t)'
    BY <1>0, <1>9 DEF Handle, Stays, SlotCounts, TypeOK
  <2>. QED
    BY <1>0, <1>9, <2>1 DEF Handle, queues, Counted, CopyCounts
<1>10. ASSUME NEW s \in Slot, HandleFails(s) PROVE Counted'
  <2>1. /\ stage[s] = "handle" /\ job[s] \in Copy /\ job[s].call \in Call
        /\ job[s].attempt \in 0 .. MaxRetry
    BY <1>10, CopyType DEF HandleFails
  <2>2. errors'[job[s].call] = errors[job[s].call] + 1 /\ \A d \in Call : errors'[d] >= errors[d]
    BY <1>10, <2>1, ErrorsType DEF HandleFails
  <2>3. stage' = [stage EXCEPT ![s] = AfterFailure(job[s])] /\ UNCHANGED <<queues, job>>
    BY <1>10 DEF HandleFails, Stays
  <2>4. \A d \in Call : errors[d] \in Nat /\ errors'[d] \in Nat
    BY DEF TypeOK
  <2>5. ASSUME NEW m \in Copy PROVE CopyCounts(m)'
    BY <1>0, <2>2, <2>3, <2>4, CountedType DEF queues, CopyCounts
  <2>6. SlotCounts(s)'
    <3>1. errors[job[s].call] >= job[s].attempt
      BY <1>0, <2>1 DEF SlotCounts
    <3>2. stage'[s] = AfterFailure(job[s]) /\ job'[s] = job[s]
      BY <2>3 DEF TypeOK
    <3>. QED
      BY <2>1, <2>2, <2>4, <3>1, <3>2 DEF SlotCounts, AfterFailure
  <2>7. ASSUME NEW t \in Slot, t # s PROVE SlotCounts(t)'
    <3>1. stage'[t] = stage[t] /\ job'[t] = job[t]
      BY <2>3, <2>7 DEF TypeOK
    <3>. QED
      BY <1>0, <2>2, <2>4, <3>1, CountedType DEF SlotCounts
  <2>. QED
    BY <2>5, <2>6, <2>7 DEF Counted
<1>11. ASSUME NEW lost, NEW runs, NEW ended, SeverStep(lost, runs, ended),
              UNCHANGED <<retry, dlq, errors>>
       PROVE  Counted'
  <2>1. ASSUME NEW m \in Copy PROVE CopyCounts(m)'
    <3>1. ASSUME NEW s \in lost, job[s] = m PROVE errors[m.call] >= m.attempt
      BY <1>0, <1>11, <3>1 DEF SeverStep, SlotCounts
    <3>. QED
      BY <1>0, <1>11, <3>1, SeverStepType DEF CopyCounts
  <2>2. ASSUME NEW s \in Slot PROVE SlotCounts(s)'
    <3>1. CASE stage'[s] = "empty"
      BY <3>1 DEF SlotCounts
    <3>2. CASE stage'[s] # "empty"
      <4>1. job'[s] = job[s] /\ stage[s] # "empty" /\ (stage'[s] = stage[s] \/ stage'[s] = "zombie")
        BY <1>11, <3>2, SeverStepType DEF SeverStep, TypeOK
      <4>. QED
        BY <1>0, <1>11, <4>1 DEF SlotCounts
    <3>. QED
      BY <3>1, <3>2
  <2>. QED
    BY <2>1, <2>2 DEF Counted
<1>12. ASSUME NEW s \in Slot, ZombieEnds(s) PROVE Counted'
  BY <1>11, <1>12, ZombieSevers DEF ZombieEnds
<1>13. ASSUME NEW w \in Worker, WorkerGone(w) PROVE Counted'
  BY <1>11, <1>13, GoneSevers DEF WorkerGone, counts
<1>14. ASSUME NEW d \in Call, ApiStep(d) PROVE Counted'
  BY <1>1, <1>14, ApiStepKinds DEF counts
<1>15. CASE GateLost \/ UNCHANGED vars
  BY <1>1, <1>15 DEF GateLost, vars, counts
<1>. QED
  BY <1>2, <1>3, <1>4, <1>6, <1>7, <1>8, <1>9, <1>10, <1>12, <1>13, <1>14, <1>15, StepKinds
     DEF MoveStep

LEMMA InvInit == Init => Inv
<1>. SUFFICES ASSUME Init PROVE Inv
  OBVIOUS
<1>1. Unforgotten
  BY DEF Init, Unforgotten
<1>2. Counted
  BY DEF Init, Counted, CopyCounts, SlotCounts
<1>. QED
  BY <1>1, <1>2, TypeInit DEF Inv

LEMMA InvStep == Inv /\ [Next]_vars => Inv'
  BY TypeStep, UnforgottenStep, CountedStep DEF Inv

LEMMA InvHolds == Spec => []Inv
  BY InvInit, InvStep, PTL DEF Spec

\* Every variable keeps its type; queues never hold less than no copy, and a
\* slot has a copy exactly while it works on it.
THEOREM TypeCorrect == Spec => []TypeOK
<1>1. Inv => TypeOK
  BY DEF Inv
<1>. QED
  BY <1>1, InvHolds, PTL

\* Whatever fails, a request that was answered 202 is at the broker,
\* dead-lettered, or decided.
THEOREM AcceptedIsRemembered == Spec => []NothingLost
<1>1. Inv => NothingLost
  <2>. SUFFICES ASSUME Inv, NEW c \in Call, answer[c] = "accepted"
                PROVE  AtBroker(c) \/ DeadLettered(c) \/ Decided(c)
    BY DEF NothingLost
  <2>1. Remembered(c)
    BY DEF Inv, Unforgotten
  <2>. QED
    BY <2>1 DEF Remembered, AtBroker, DeadLettered
<1>. QED
  BY <1>1, InvHolds, PTL

\* A message reaches the dead-letter queue only after MaxRetry + 1 failures.
THEOREM RetriedBeforeGivenUp == Spec => []GivenUpOnlyAfterRetries
<1>1. Inv => GivenUpOnlyAfterRetries
  BY DEF Inv, Counted, CopyCounts, GivenUpOnlyAfterRetries, DeadLettered, CopiesOf
<1>. QED
  BY <1>1, InvHolds, PTL

-----------------------------------------------------------------------------
(* What the rest of the queues means for a 202                             *)

ToldIsDone == \A c \in Call : answer[c] = "accepted" => step[c] = "done"

\* Told once, told for good.
LEMMA AcceptedStays ==
  ASSUME TypeOK, ToldIsDone, [Next]_vars
  PROVE  ToldIsDone' /\ \A c \in Call : answer[c] = "accepted" => answer'[c] = "accepted"
<1>. SUFFICES ASSUME NEW c \in Call
              PROVE  /\ answer'[c] = "accepted" => step'[c] = "done"
                     /\ answer[c] = "accepted" => answer'[c] = "accepted"
  BY DEF ToldIsDone
<1>1. answer[c] = "accepted" => step[c] = "done"
  BY DEF ToldIsDone
<1>2. ASSUME NEW d \in Call, ApiStep(d), d # c
      PROVE  answer'[c] = answer[c] /\ step'[c] = step[c]
  BY <1>2, ApiStepKinds
<1>3. CASE ApiStep(c)
  <2>1. CASE step'[c] = "done"
    BY <1>1, <1>3, <2>1 DEF ApiStep, Submit, Decr, Undo, Sync, Confirm, Release, GateFails, SyncFails,
       SendFails, ConfirmLost, ReleaseFails, AppCrash
  <2>2. CASE step'[c] # "done"
    <3>1. step[c] # "done" /\ answer'[c] = answer[c]
      BY <1>3, <2>2 DEF ApiStep, Submit, Decr, Undo, Sync, Confirm, Release, GateFails, SyncFails,
         SendFails, ConfirmLost, ReleaseFails, AppCrash, Goto, Finish, TypeOK
    <3>. QED
      BY <1>1, <3>1
  <2>. QED
    BY <2>1, <2>2
<1>4. ASSUME NEW d \in Call, Send(d)
      PROVE  answer'[c] = answer[c] /\ (step[c] = "done" => step'[c] = "done")
  BY <1>4 DEF Send, Goto, TypeOK
<1>5. ASSUME UNCHANGED api
      PROVE  answer'[c] = answer[c] /\ step'[c] = step[c]
  BY <1>5 DEF api
<1>. QED
  BY <1>1, <1>2, <1>3, <1>4, <1>5, StepKinds DEF MoveStep, Deliver, ScheduleRetry, Ack, DeadLetter,
     Expire, Handle, HandleFails, ZombieEnds, WorkerGone, GateLost, vars

LEMMA DrainedForgetsNobody ==
  ASSUME TypeOK, Unforgotten, Drained, NEW c \in Call, answer[c] = "accepted"
  PROVE  Decided(c) \/ DeadLettered(c)
<1>1. Remembered(c) /\ CopiesOf(c) \subseteq Copy
  BY DEF Unforgotten, CopiesOf
<1>2. \A m \in CopiesOf(c) : ~(main[m] > 0) /\ ~(retry[m] > 0)
  BY <1>1 DEF Drained
<1>. QED
  BY <1>1, <1>2 DEF Remembered, Drained, DeadLettered

\* Whatever fails: if the queues come to rest, every request that was answered
\* 202 has its verdict or is in the dead-letter queue.
THEOREM RestSettlesAccepted == Spec /\ QueuesDrain => AcceptedIsSettled
<1>1. Spec => []ToldIsDone
  <2>1. Init => ToldIsDone
    BY DEF Init, ToldIsDone
  <2>2. Inv /\ ToldIsDone /\ [Next]_vars => ToldIsDone'
    BY AcceptedStays DEF Inv
  <2>. QED
    BY <2>1, <2>2, InvHolds, PTL DEF Spec
<1>2. ASSUME NEW c \in Call
      PROVE  Spec /\ QueuesDrain => (answer[c] = "accepted" ~> Decided(c) \/ DeadLettered(c))
  <2>1. Inv /\ Drained /\ answer[c] = "accepted" => Decided(c) \/ DeadLettered(c)
    BY DrainedForgetsNobody DEF Inv
  <2>2. Inv /\ ToldIsDone /\ [Next]_vars /\ answer[c] = "accepted" => (answer[c] = "accepted")'
    BY AcceptedStays DEF Inv
  <2>. QED
    BY <1>1, <2>1, <2>2, InvHolds, PTL DEF Spec, QueuesDrain
<1>. QED
  BY <1>2 DEF AcceptedIsSettled
=============================================================================
