--------------------------- MODULE LifecycleProofs ---------------------------
(***************************************************************************)
(* The safety of one process, for every setting of the drain and of the    *)
(* health check, and any number of slots, outages, signals and crashes.    *)
(*                                                                         *)
(* LInv relates what the load balancer has counted to what is left of the  *)
(* drain, and what closeQueue did to the phase.  QInv is about the broker  *)
(* connection.                                                             *)
(***************************************************************************)
EXTENDS Lifecycle, QueueConnProofs

\* The queue is only closed when nothing is served any more.
ClosesLast == closing \/ quit # "none" => phase \in {"closeQueue", "closeCache", "offline", "closeDb"}

OpenOnlyServing == open > 0 => ~consumer /\ phase \in {"run", "drain", "close"}

\* A server that drains or closes is not ready.
NotReady == ~consumer /\ phase \in {"drain"} \cup Finishing => ~ready

\* The load balancer has not counted to its limit yet.
Counting == streak < (IF health THEN Fall ELSE Rise)

\* During the drain every check that went by was counted, and one that is over
\* and was long enough has taken the server out.
Notices ==
  /\ ~consumer /\ phase = "drain" /\ health => streak + left >= drain
  /\ NoDeadWindow

LifeInv == LifeTypeOK /\ ClosesLast /\ OpenOnlyServing /\ NotReady /\ Counting /\ Notices

LInv == QInv /\ LifeInv

\* LInv says what the runs check.
LEMMA LInvMeans == LInv => TypeOK /\ OneConnection /\ ReadyIsUsable /\ NoDeadWindow /\ ResourcesOutliveRequests
<1>. SUFFICES ASSUME LInv
              PROVE  TypeOK /\ OneConnection /\ ReadyIsUsable /\ NoDeadWindow /\ ResourcesOutliveRequests
  OBVIOUS
<1>1. QueueTypeOK /\ OneConnection /\ ReadyIsUsable
  BY QInvMeans DEF LInv
<1>2. TypeOK
  BY <1>1, Zenon DEF LInv, LifeInv, LifeTypeOK, TypeOK
<1>3. ResourcesOutliveRequests
  BY DEF LInv, LifeInv, ClosesLast, OpenOnlyServing, ResourcesOutliveRequests, LifeTypeOK
<1>. QED
  BY <1>1, <1>2, <1>3 DEF LInv, LifeInv, Notices

LEMMA InitLInv == Init => LInv
<1>. SUFFICES ASSUME Init PROVE LInv
  OBVIOUS
<1>1. QInv
  BY QInvInit DEF Init
<1>2. LifeTypeOK
  <2>1. phase \in Phase
    BY DEF Init, Phase
  <2>2. ready \in BOOLEAN /\ stopped \in BOOLEAN /\ health \in BOOLEAN /\ redis \in BOOLEAN
    BY DEF Init
  <2>3. open \in 0 .. MaxOpen /\ drain \in DrainChecks /\ left \in 0 .. drain /\ streak \in Nat
    BY LifeAssumption DEF Init
  <2>4. /\ stops \in 0 .. MaxStops /\ crashes \in 0 .. MaxCrashes
        /\ redisFaults \in 0 .. MaxRedis
    BY LifeAssumption DEF Init
  <2>. QED
    BY <2>1, <2>2, <2>3, <2>4, Zenon DEF LifeTypeOK
<1>3. ClosesLast
  BY DEF Init, QueueInit, Fresh, ClosesLast
<1>4. OpenOnlyServing /\ NotReady /\ Counting /\ Notices
  BY LifeAssumption DEF Init, OpenOnlyServing, NotReady, Counting, Notices, NoDeadWindow, Finishing
<1>. QED
  BY <1>1, <1>2, <1>3, <1>4 DEF LInv, LifeInv

\* What the steps of the connection leave alone.
LEMMA QueueStepFlags ==
  ASSUME QueueStep \/ QueueFault
  PROVE  consumer' = consumer /\ closing' = closing /\ (quit' # "none" => quit # "none")
BY DEF QueueStep, QueueFault, TimerFires, Attempt, Dial, DialFails, OpenChannel, Declare, Consume,
       Acked, NoticeLoss, ChannelClosed, ConnectionClosed, Outage, BrokerBack, Deliver,
       ChannelCloses, globals, quitting

LEMMA QueueStepKeeps ==
  ASSUME QInv, QueueStep \/ QueueFault
  PROVE  QInv'
<1>1. CASE TimerFires
  BY <1>1, TimerFiresStep
<1>2. ASSUME NEW k \in Slot, Attempt(k) PROVE QInv'
  BY <1>2, DialStep, DialFailsStep, OpenChannelStep, DeclareStep, ConsumeStep DEF Attempt
<1>3. ASSUME NEW k \in Slot, Acked(k) \/ Deliver(k) PROVE QInv'
  BY <1>3, QuietStep
<1>4. ASSUME NEW k \in Slot, NoticeLoss(k) PROVE QInv'
  BY <1>4, NoticeLossStep
<1>5. CASE ChannelClosed \/ ConnectionClosed
  BY <1>5, ChannelClosedStep, ConnectionClosedStep
<1>6. CASE Outage
  BY <1>6, OutageStep
<1>7. CASE BrokerBack
  BY <1>7, QuietStep
<1>8. ASSUME NEW k \in Slot, ChannelCloses(k) PROVE QInv'
  BY <1>8, ChannelClosesStep
<1>. QED
  BY <1>1, <1>2, <1>3, <1>4, <1>5, <1>6, <1>7, <1>8 DEF QueueStep, QueueFault

LEMMA StartStep ==
  ASSUME LInv, Start
  PROVE  LInv'
<1>. USE LifeAssumption DEF LInv, LifeInv, Start,
            life, lb, cache, limits, qvars, sockets, globals, promise, quitting, faults, Finishing, Phase
<1>1. QInv'
  BY QuietStep
<1>2. LifeTypeOK'
  BY DEF LifeTypeOK
<1>3. ClosesLast'
  BY DEF LifeTypeOK, ClosesLast
<1>4. OpenOnlyServing'
  BY DEF LifeTypeOK, OpenOnlyServing
<1>5. NotReady'
  BY DEF LifeTypeOK, NotReady
<1>6. Counting'
  BY DEF LifeTypeOK, Counting
<1>7. Notices'
  BY DEF LifeTypeOK, Notices, NoDeadWindow, Counting, NotReady
<1>. QED
  BY <1>1, <1>2, <1>3, <1>4, <1>5, <1>6, <1>7, Zenon DEF LInv, LifeInv

LEMMA DeployStep ==
  ASSUME LInv, Deploy
  PROVE  LInv'
<1>. USE LifeAssumption DEF LInv, LifeInv, Deploy,
            life, lb, cache, limits, qvars, sockets, globals, promise, quitting, faults, Finishing, Phase
<1>1. QInv'
  BY QuietStep
<1>2. LifeTypeOK'
  BY DEF LifeTypeOK
<1>3. ClosesLast'
  BY DEF LifeTypeOK, ClosesLast
<1>4. OpenOnlyServing'
  BY DEF LifeTypeOK, OpenOnlyServing
<1>5. NotReady'
  BY DEF LifeTypeOK, NotReady
<1>6. Counting'
  BY DEF LifeTypeOK, Counting
<1>7. Notices'
  BY DEF LifeTypeOK, Notices, NoDeadWindow, Counting, NotReady
<1>. QED
  BY <1>1, <1>2, <1>3, <1>4, <1>5, <1>6, <1>7, Zenon DEF LInv, LifeInv

LEMMA CacheConnectedStep ==
  ASSUME LInv, CacheConnected
  PROVE  LInv'
<1>. USE LifeAssumption DEF LInv, LifeInv, CacheConnected,
            life, lb, cache, limits, qvars, sockets, globals, promise, quitting, faults, Finishing, Phase
<1>1. QInv'
  BY QuietStep
<1>2. LifeTypeOK'
  BY DEF LifeTypeOK
<1>3. ClosesLast'
  BY DEF LifeTypeOK, ClosesLast
<1>4. OpenOnlyServing'
  BY DEF LifeTypeOK, OpenOnlyServing
<1>5. NotReady'
  BY DEF LifeTypeOK, NotReady
<1>6. Counting'
  BY DEF LifeTypeOK, Counting
<1>7. Notices'
  BY DEF LifeTypeOK, Notices, NoDeadWindow, Counting, NotReady
<1>. QED
  BY <1>1, <1>2, <1>3, <1>4, <1>5, <1>6, <1>7, Zenon DEF LInv, LifeInv

LEMMA BootedStep ==
  ASSUME LInv, Booted
  PROVE  LInv'
<1>. USE LifeAssumption DEF LInv, LifeInv, Booted,
            life, lb, cache, limits, qvars, sockets, globals, promise, quitting, faults, Finishing, Phase
<1>1. QInv'
  BY QuietStep
<1>2. LifeTypeOK'
  BY DEF LifeTypeOK
<1>3. ClosesLast'
  BY DEF LifeTypeOK, ClosesLast
<1>4. OpenOnlyServing'
  BY DEF LifeTypeOK, OpenOnlyServing
<1>5. NotReady'
  BY DEF LifeTypeOK, NotReady
<1>6. Counting'
  BY DEF LifeTypeOK, Counting
<1>7. Notices'
  BY DEF LifeTypeOK, Notices, NoDeadWindow, Counting, NotReady
<1>. QED
  BY <1>1, <1>2, <1>3, <1>4, <1>5, <1>6, <1>7, Zenon DEF LInv, LifeInv

LEMMA BootQueueStep ==
  ASSUME LInv, BootQueue
  PROVE  LInv'
<1>. USE LifeAssumption DEF LInv, LifeInv, BootQueue,
            life, lb, cache, limits, qvars, sockets, globals, promise, quitting, faults, Finishing, Phase
<1>1. QInv'
  BY InitQueueStep DEF ClosesLast
<1>f. consumer' = consumer /\ ~closing' /\ quit' = quit
  BY DEF InitQueue
<1>2. LifeTypeOK'
  BY <1>f DEF LifeTypeOK
<1>3. ClosesLast'
  BY <1>f DEF LifeTypeOK, ClosesLast
<1>4. OpenOnlyServing'
  BY <1>f DEF LifeTypeOK, OpenOnlyServing
<1>5. NotReady'
  BY <1>f DEF LifeTypeOK, NotReady
<1>6. Counting'
  BY <1>f DEF LifeTypeOK, Counting
<1>7. Notices'
  BY <1>f DEF LifeTypeOK, Notices, NoDeadWindow, Counting, NotReady
<1>. QED
  BY <1>1, <1>2, <1>3, <1>4, <1>5, <1>6, <1>7, Zenon DEF LInv, LifeInv

LEMMA ArriveStep ==
  ASSUME LInv, Arrive
  PROVE  LInv'
<1>. USE LifeAssumption DEF LInv, LifeInv, Arrive, Listening, Serving,
            life, lb, cache, limits, qvars, sockets, globals, promise, quitting, faults, Finishing, Phase
<1>1. QInv'
  BY QuietStep
<1>2. LifeTypeOK'
  BY DEF LifeTypeOK
<1>3. ClosesLast'
  BY DEF LifeTypeOK, ClosesLast
<1>4. OpenOnlyServing'
  BY DEF LifeTypeOK, OpenOnlyServing
<1>5. NotReady'
  BY DEF LifeTypeOK, NotReady
<1>6. Counting'
  BY DEF LifeTypeOK, Counting
<1>7. Notices'
  BY DEF LifeTypeOK, Notices, NoDeadWindow, Counting, NotReady
<1>. QED
  BY <1>1, <1>2, <1>3, <1>4, <1>5, <1>6, <1>7, Zenon DEF LInv, LifeInv

LEMMA AnswerStep ==
  ASSUME LInv, Answer
  PROVE  LInv'
<1>. USE LifeAssumption DEF LInv, LifeInv, Answer,
            life, lb, cache, limits, qvars, sockets, globals, promise, quitting, faults, Finishing, Phase
<1>1. QInv'
  BY QuietStep
<1>2. LifeTypeOK'
  BY DEF LifeTypeOK
<1>3. ClosesLast'
  BY DEF LifeTypeOK, ClosesLast
<1>4. OpenOnlyServing'
  BY DEF LifeTypeOK, OpenOnlyServing
<1>5. NotReady'
  BY DEF LifeTypeOK, NotReady
<1>6. Counting'
  BY DEF LifeTypeOK, Counting
<1>7. Notices'
  BY DEF LifeTypeOK, Notices, NoDeadWindow, Counting, NotReady
<1>. QED
  BY <1>1, <1>2, <1>3, <1>4, <1>5, <1>6, <1>7, Zenon DEF LInv, LifeInv

LEMMA DebugReadyStep ==
  ASSUME LInv, DebugReady
  PROVE  LInv'
<1>. USE LifeAssumption DEF LInv, LifeInv, DebugReady,
            life, lb, cache, limits, qvars, sockets, globals, promise, quitting, faults, Finishing, Phase
<1>1. QInv'
  BY QuietStep
<1>2. LifeTypeOK'
  BY DEF LifeTypeOK
<1>3. ClosesLast'
  BY DEF LifeTypeOK, ClosesLast
<1>4. OpenOnlyServing'
  BY DEF LifeTypeOK, OpenOnlyServing
<1>5. NotReady'
  BY DEF LifeTypeOK, NotReady
<1>6. Counting'
  BY DEF LifeTypeOK, Counting
<1>7. Notices'
  BY DEF LifeTypeOK, Notices, NoDeadWindow, Counting, NotReady
<1>. QED
  BY <1>1, <1>2, <1>3, <1>4, <1>5, <1>6, <1>7, Zenon DEF LInv, LifeInv

LEMMA DrainedStep ==
  ASSUME LInv, Drained
  PROVE  LInv'
<1>. USE LifeAssumption DEF LInv, LifeInv, Drained,
            life, lb, cache, limits, qvars, sockets, globals, promise, quitting, faults, Finishing, Phase
<1>1. QInv'
  BY QuietStep
<1>2. LifeTypeOK'
  BY DEF LifeTypeOK
<1>3. ClosesLast'
  BY DEF LifeTypeOK, ClosesLast
<1>4. OpenOnlyServing'
  BY DEF LifeTypeOK, OpenOnlyServing
<1>5. NotReady'
  BY DEF LifeTypeOK, NotReady
<1>6. Counting'
  BY DEF LifeTypeOK, Counting
<1>7. Notices'
  BY DEF LifeTypeOK, Notices, NoDeadWindow, Counting, NotReady
<1>. QED
  BY <1>1, <1>2, <1>3, <1>4, <1>5, <1>6, <1>7, Zenon DEF LInv, LifeInv

LEMMA QueueClosedStep ==
  ASSUME LInv, QueueClosed
  PROVE  LInv'
<1>. USE LifeAssumption DEF LInv, LifeInv, QueueClosed,
            life, lb, cache, limits, qvars, sockets, globals, promise, quitting, faults, Finishing, Phase
<1>1. QInv'
  BY QuietStep
<1>2. LifeTypeOK'
  BY DEF LifeTypeOK
<1>3. ClosesLast'
  BY DEF LifeTypeOK, ClosesLast
<1>4. OpenOnlyServing'
  BY DEF LifeTypeOK, OpenOnlyServing
<1>5. NotReady'
  BY DEF LifeTypeOK, NotReady
<1>6. Counting'
  BY DEF LifeTypeOK, Counting
<1>7. Notices'
  BY DEF LifeTypeOK, Notices, NoDeadWindow, Counting, NotReady
<1>. QED
  BY <1>1, <1>2, <1>3, <1>4, <1>5, <1>6, <1>7, Zenon DEF LInv, LifeInv

LEMMA CacheClosedStep ==
  ASSUME LInv, CacheClosed
  PROVE  LInv'
<1>. USE LifeAssumption DEF LInv, LifeInv, CacheClosed,
            life, lb, cache, limits, qvars, sockets, globals, promise, quitting, faults, Finishing, Phase
<1>1. QInv'
  BY QuietStep
<1>2. LifeTypeOK'
  BY DEF LifeTypeOK
<1>3. ClosesLast'
  BY DEF LifeTypeOK, ClosesLast
<1>4. OpenOnlyServing'
  BY DEF LifeTypeOK, OpenOnlyServing
<1>5. NotReady'
  BY DEF LifeTypeOK, NotReady
<1>6. Counting'
  BY DEF LifeTypeOK, Counting
<1>7. Notices'
  BY DEF LifeTypeOK, Notices, NoDeadWindow, Counting, NotReady
<1>. QED
  BY <1>1, <1>2, <1>3, <1>4, <1>5, <1>6, <1>7, Zenon DEF LInv, LifeInv

LEMMA RedisTogglesStep ==
  ASSUME LInv, RedisToggles
  PROVE  LInv'
<1>. USE LifeAssumption DEF LInv, LifeInv, RedisToggles,
            life, lb, cache, limits, qvars, sockets, globals, promise, quitting, faults, Finishing, Phase
<1>1. QInv'
  BY QuietStep
<1>2. LifeTypeOK'
  <2>1. phase' \in Phase
    BY DEF LifeTypeOK
  <2>2. ready' \in BOOLEAN /\ stopped' \in BOOLEAN /\ health' \in BOOLEAN /\ redis' \in BOOLEAN
    BY DEF LifeTypeOK
  <2>3. open' \in 0 .. MaxOpen /\ drain' \in DrainChecks /\ left' \in 0 .. drain' /\ streak' \in Nat
    BY DEF LifeTypeOK
  <2>4. /\ stops' \in 0 .. MaxStops /\ crashes' \in 0 .. MaxCrashes
        /\ redisFaults' \in 0 .. MaxRedis
    BY DEF LifeTypeOK
  <2>. QED
    BY <2>1, <2>2, <2>3, <2>4, Zenon DEF LifeTypeOK
<1>3. ClosesLast'
  BY DEF LifeTypeOK, ClosesLast
<1>4. OpenOnlyServing'
  BY DEF LifeTypeOK, OpenOnlyServing
<1>5. NotReady'
  BY DEF LifeTypeOK, NotReady
<1>6. Counting'
  BY DEF LifeTypeOK, Counting
<1>7. Notices'
  BY DEF LifeTypeOK, Notices, NoDeadWindow, Counting, NotReady
<1>. QED
  BY <1>1, <1>2, <1>3, <1>4, <1>5, <1>6, <1>7, Zenon DEF LInv, LifeInv

LEMMA CheckStep ==
  ASSUME LInv, Check
  PROVE  LInv'
<1>. USE LifeAssumption DEF LInv, LifeInv, Check, Healthz, Listening, Serving,
            life, lb, cache, limits, qvars, sockets, globals, promise, quitting, faults, Finishing, Phase
<1>1. QInv'
  BY QuietStep
<1>2. LifeTypeOK'
  <2>1. phase' \in Phase
    BY DEF LifeTypeOK
  <2>2. ready' \in BOOLEAN /\ stopped' \in BOOLEAN /\ health' \in BOOLEAN /\ redis' \in BOOLEAN
    BY DEF LifeTypeOK
  <2>3. open' \in 0 .. MaxOpen /\ drain' \in DrainChecks /\ left' \in 0 .. drain' /\ streak' \in Nat
    BY DEF LifeTypeOK
  <2>4. /\ stops' \in 0 .. MaxStops /\ crashes' \in 0 .. MaxCrashes
        /\ redisFaults' \in 0 .. MaxRedis
    BY DEF LifeTypeOK
  <2>. QED
    BY <2>1, <2>2, <2>3, <2>4, Zenon DEF LifeTypeOK
<1>3. ClosesLast'
  BY DEF LifeTypeOK, ClosesLast
<1>4. OpenOnlyServing'
  BY DEF LifeTypeOK, OpenOnlyServing
<1>5. NotReady'
  BY DEF LifeTypeOK, NotReady
<1>6. Counting'
  BY DEF LifeTypeOK, Counting
<1>7. Notices'
  BY DEF LifeTypeOK, Notices, NoDeadWindow, Counting, NotReady
<1>. QED
  BY <1>1, <1>2, <1>3, <1>4, <1>5, <1>6, <1>7, Zenon DEF LInv, LifeInv

LEMMA TermStep ==
  ASSUME LInv, Term
  PROVE  LInv'
<1>. USE LifeAssumption DEF LInv, LifeInv, Term, Signalled,
            life, lb, cache, limits, qvars, sockets, globals, promise, quitting, faults, Finishing, Phase
<1>1. QInv'
  BY QuietStep
<1>2. LifeTypeOK'
  <2>1. phase' \in Phase
    BY DEF LifeTypeOK
  <2>2. ready' \in BOOLEAN /\ stopped' \in BOOLEAN /\ health' \in BOOLEAN /\ redis' \in BOOLEAN
    BY DEF LifeTypeOK
  <2>3. open' \in 0 .. MaxOpen /\ drain' \in DrainChecks /\ left' \in 0 .. drain' /\ streak' \in Nat
    BY DEF LifeTypeOK
  <2>4. /\ stops' \in 0 .. MaxStops /\ crashes' \in 0 .. MaxCrashes
        /\ redisFaults' \in 0 .. MaxRedis
    BY DEF LifeTypeOK
  <2>. QED
    BY <2>1, <2>2, <2>3, <2>4, Zenon DEF LifeTypeOK
<1>3. ClosesLast'
  BY DEF LifeTypeOK, ClosesLast
<1>4. OpenOnlyServing'
  BY DEF LifeTypeOK, OpenOnlyServing
<1>5. NotReady'
  BY DEF LifeTypeOK, NotReady
<1>6. Counting'
  BY DEF LifeTypeOK, Counting
<1>7. Notices'
  BY DEF LifeTypeOK, Notices, NoDeadWindow, Counting, NotReady
<1>. QED
  BY <1>1, <1>2, <1>3, <1>4, <1>5, <1>6, <1>7, Zenon DEF LInv, LifeInv

LEMMA ServerClosedStep ==
  ASSUME LInv, ServerClosed
  PROVE  LInv'
<1>. USE LifeAssumption DEF LInv, LifeInv, ServerClosed,
            life, lb, cache, limits, qvars, sockets, globals, promise, quitting, faults, Finishing, Phase
<1>1. QInv'
  BY CloseQueueStep
<1>f. consumer' = consumer
  BY DEF CloseQueue
<1>2. LifeTypeOK'
  BY <1>f DEF LifeTypeOK
<1>3. ClosesLast'
  BY <1>f DEF LifeTypeOK, ClosesLast
<1>4. OpenOnlyServing'
  BY <1>f DEF LifeTypeOK, OpenOnlyServing
<1>5. NotReady'
  BY <1>f DEF LifeTypeOK, NotReady
<1>6. Counting'
  BY <1>f DEF LifeTypeOK, Counting
<1>7. Notices'
  BY <1>f DEF LifeTypeOK, Notices, NoDeadWindow, Counting, NotReady
<1>. QED
  BY <1>1, <1>2, <1>3, <1>4, <1>5, <1>6, <1>7, Zenon DEF LInv, LifeInv

LEMMA TermWorkerStep ==
  ASSUME LInv, TermWorker
  PROVE  LInv'
<1>. USE LifeAssumption DEF LInv, LifeInv, TermWorker, Signalled,
            life, lb, cache, limits, qvars, sockets, globals, promise, quitting, faults, Finishing, Phase
<1>1. QInv'
  BY CloseQueueStep
<1>f. consumer' = consumer
  BY DEF CloseQueue
<1>2. LifeTypeOK'
  BY <1>f DEF LifeTypeOK
<1>3. ClosesLast'
  BY <1>f DEF LifeTypeOK, ClosesLast
<1>4. OpenOnlyServing'
  BY <1>f DEF LifeTypeOK, OpenOnlyServing
<1>5. NotReady'
  BY <1>f DEF LifeTypeOK, NotReady
<1>6. Counting'
  BY <1>f DEF LifeTypeOK, Counting
<1>7. Notices'
  BY <1>f DEF LifeTypeOK, Notices, NoDeadWindow, Counting, NotReady
<1>. QED
  BY <1>1, <1>2, <1>3, <1>4, <1>5, <1>6, <1>7, Zenon DEF LInv, LifeInv

LEMMA BootFailsStep ==
  ASSUME LInv, BootFails
  PROVE  LInv'
<1>. USE LifeAssumption DEF LInv, LifeInv, BootFails,
            life, lb, cache, limits, qvars, sockets, globals, promise, quitting, faults, Finishing, Phase
<1>1. QInv'
  BY GoneStep DEF Gone
<1>f. consumer' = consumer /\ ~closing' /\ quit' = "none" /\ phase' = "down" /\ open' = 0 /\ left' = 0 /\ ready' = FALSE
  BY DEF Gone, QueueGone
<1>2. LifeTypeOK'
  <2>1. phase' \in Phase
    BY <1>f DEF LifeTypeOK
  <2>2. ready' \in BOOLEAN /\ stopped' \in BOOLEAN /\ health' \in BOOLEAN /\ redis' \in BOOLEAN
    BY <1>f DEF LifeTypeOK
  <2>3. open' \in 0 .. MaxOpen /\ drain' \in DrainChecks /\ left' \in 0 .. drain' /\ streak' \in Nat
    BY <1>f DEF LifeTypeOK
  <2>4. /\ stops' \in 0 .. MaxStops /\ crashes' \in 0 .. MaxCrashes
        /\ redisFaults' \in 0 .. MaxRedis
    BY <1>f DEF LifeTypeOK
  <2>. QED
    BY <2>1, <2>2, <2>3, <2>4, Zenon DEF LifeTypeOK
<1>3. ClosesLast'
  BY <1>f DEF LifeTypeOK, ClosesLast
<1>4. OpenOnlyServing'
  BY <1>f DEF LifeTypeOK, OpenOnlyServing
<1>5. NotReady'
  BY <1>f DEF LifeTypeOK, NotReady
<1>6. Counting'
  BY <1>f DEF LifeTypeOK, Counting
<1>7. Notices'
  BY <1>f DEF LifeTypeOK, Notices, NoDeadWindow, Counting, NotReady
<1>. QED
  BY <1>1, <1>2, <1>3, <1>4, <1>5, <1>6, <1>7, Zenon DEF LInv, LifeInv

LEMMA DbClosedStep ==
  ASSUME LInv, DbClosed
  PROVE  LInv'
<1>. USE LifeAssumption DEF LInv, LifeInv, DbClosed,
            life, lb, cache, limits, qvars, sockets, globals, promise, quitting, faults, Finishing, Phase
<1>1. QInv'
  BY GoneStep DEF Gone
<1>f. consumer' = consumer /\ ~closing' /\ quit' = "none" /\ phase' = "down" /\ open' = 0 /\ left' = 0 /\ ready' = FALSE
  BY DEF Gone, QueueGone
<1>2. LifeTypeOK'
  <2>1. phase' \in Phase
    BY <1>f DEF LifeTypeOK
  <2>2. ready' \in BOOLEAN /\ stopped' \in BOOLEAN /\ health' \in BOOLEAN /\ redis' \in BOOLEAN
    BY <1>f DEF LifeTypeOK
  <2>3. open' \in 0 .. MaxOpen /\ drain' \in DrainChecks /\ left' \in 0 .. drain' /\ streak' \in Nat
    BY <1>f DEF LifeTypeOK
  <2>4. /\ stops' \in 0 .. MaxStops /\ crashes' \in 0 .. MaxCrashes
        /\ redisFaults' \in 0 .. MaxRedis
    BY <1>f DEF LifeTypeOK
  <2>. QED
    BY <2>1, <2>2, <2>3, <2>4, Zenon DEF LifeTypeOK
<1>3. ClosesLast'
  BY <1>f DEF LifeTypeOK, ClosesLast
<1>4. OpenOnlyServing'
  BY <1>f DEF LifeTypeOK, OpenOnlyServing
<1>5. NotReady'
  BY <1>f DEF LifeTypeOK, NotReady
<1>6. Counting'
  BY <1>f DEF LifeTypeOK, Counting
<1>7. Notices'
  BY <1>f DEF LifeTypeOK, Notices, NoDeadWindow, Counting, NotReady
<1>. QED
  BY <1>1, <1>2, <1>3, <1>4, <1>5, <1>6, <1>7, Zenon DEF LInv, LifeInv

LEMMA KilledStep ==
  ASSUME LInv, Killed
  PROVE  LInv'
<1>. USE LifeAssumption DEF LInv, LifeInv, Killed,
            life, lb, cache, limits, qvars, sockets, globals, promise, quitting, faults, Finishing, Phase
<1>1. QInv'
  BY GoneStep DEF Gone
<1>f. consumer' = consumer /\ ~closing' /\ quit' = "none" /\ phase' = "down" /\ open' = 0 /\ left' = 0 /\ ready' = FALSE
  BY DEF Gone, QueueGone
<1>2. LifeTypeOK'
  <2>1. phase' \in Phase
    BY <1>f DEF LifeTypeOK
  <2>2. ready' \in BOOLEAN /\ stopped' \in BOOLEAN /\ health' \in BOOLEAN /\ redis' \in BOOLEAN
    BY <1>f DEF LifeTypeOK
  <2>3. open' \in 0 .. MaxOpen /\ drain' \in DrainChecks /\ left' \in 0 .. drain' /\ streak' \in Nat
    BY <1>f DEF LifeTypeOK
  <2>4. /\ stops' \in 0 .. MaxStops /\ crashes' \in 0 .. MaxCrashes
        /\ redisFaults' \in 0 .. MaxRedis
    BY <1>f DEF LifeTypeOK
  <2>. QED
    BY <2>1, <2>2, <2>3, <2>4, Zenon DEF LifeTypeOK
<1>3. ClosesLast'
  BY <1>f DEF LifeTypeOK, ClosesLast
<1>4. OpenOnlyServing'
  BY <1>f DEF LifeTypeOK, OpenOnlyServing
<1>5. NotReady'
  BY <1>f DEF LifeTypeOK, NotReady
<1>6. Counting'
  BY <1>f DEF LifeTypeOK, Counting
<1>7. Notices'
  BY <1>f DEF LifeTypeOK, Notices, NoDeadWindow, Counting, NotReady
<1>. QED
  BY <1>1, <1>2, <1>3, <1>4, <1>5, <1>6, <1>7, Zenon DEF LInv, LifeInv

LEMMA CrashStep ==
  ASSUME LInv, Crash
  PROVE  LInv'
<1>. USE LifeAssumption DEF LInv, LifeInv, Crash,
            life, lb, cache, limits, qvars, sockets, globals, promise, quitting, faults, Finishing, Phase
<1>1. QInv'
  BY GoneStep DEF Gone
<1>f. consumer' = consumer /\ ~closing' /\ quit' = "none" /\ phase' = "down" /\ open' = 0 /\ left' = 0 /\ ready' = FALSE
  BY DEF Gone, QueueGone
<1>2. LifeTypeOK'
  <2>1. phase' \in Phase
    BY <1>f DEF LifeTypeOK
  <2>2. ready' \in BOOLEAN /\ stopped' \in BOOLEAN /\ health' \in BOOLEAN /\ redis' \in BOOLEAN
    BY <1>f DEF LifeTypeOK
  <2>3. open' \in 0 .. MaxOpen /\ drain' \in DrainChecks /\ left' \in 0 .. drain' /\ streak' \in Nat
    BY <1>f DEF LifeTypeOK
  <2>4. /\ stops' \in 0 .. MaxStops /\ crashes' \in 0 .. MaxCrashes
        /\ redisFaults' \in 0 .. MaxRedis
    BY <1>f DEF LifeTypeOK
  <2>. QED
    BY <2>1, <2>2, <2>3, <2>4, Zenon DEF LifeTypeOK
<1>3. ClosesLast'
  BY <1>f DEF LifeTypeOK, ClosesLast
<1>4. OpenOnlyServing'
  BY <1>f DEF LifeTypeOK, OpenOnlyServing
<1>5. NotReady'
  BY <1>f DEF LifeTypeOK, NotReady
<1>6. Counting'
  BY <1>f DEF LifeTypeOK, Counting
<1>7. Notices'
  BY <1>f DEF LifeTypeOK, Notices, NoDeadWindow, Counting, NotReady
<1>. QED
  BY <1>1, <1>2, <1>3, <1>4, <1>5, <1>6, <1>7, Zenon DEF LInv, LifeInv

LEMMA OrphanEndsStep ==
  ASSUME LInv, OrphanEnds
  PROVE  LInv'
<1>. USE LifeAssumption DEF LInv, LifeInv, OrphanEnds,
            life, lb, cache, limits, qvars, sockets, globals, promise, quitting, faults, Finishing, Phase
<1>1. QInv'
  BY GoneStep DEF Gone
<1>f. consumer' = consumer /\ ~closing' /\ quit' = "none" /\ phase' = "down" /\ open' = 0 /\ left' = 0 /\ ready' = FALSE
  BY DEF Gone, QueueGone
<1>2. LifeTypeOK'
  <2>1. phase' \in Phase
    BY <1>f DEF LifeTypeOK
  <2>2. ready' \in BOOLEAN /\ stopped' \in BOOLEAN /\ health' \in BOOLEAN /\ redis' \in BOOLEAN
    BY <1>f DEF LifeTypeOK
  <2>3. open' \in 0 .. MaxOpen /\ drain' \in DrainChecks /\ left' \in 0 .. drain' /\ streak' \in Nat
    BY <1>f DEF LifeTypeOK
  <2>4. /\ stops' \in 0 .. MaxStops /\ crashes' \in 0 .. MaxCrashes
        /\ redisFaults' \in 0 .. MaxRedis
    BY <1>f DEF LifeTypeOK
  <2>. QED
    BY <2>1, <2>2, <2>3, <2>4, Zenon DEF LifeTypeOK
<1>3. ClosesLast'
  BY <1>f DEF LifeTypeOK, ClosesLast
<1>4. OpenOnlyServing'
  BY <1>f DEF LifeTypeOK, OpenOnlyServing
<1>5. NotReady'
  BY <1>f DEF LifeTypeOK, NotReady
<1>6. Counting'
  BY <1>f DEF LifeTypeOK, Counting
<1>7. Notices'
  BY <1>f DEF LifeTypeOK, Notices, NoDeadWindow, Counting, NotReady
<1>. QED
  BY <1>1, <1>2, <1>3, <1>4, <1>5, <1>6, <1>7, Zenon DEF LInv, LifeInv

LEMMA TermAtBootStep ==
  ASSUME LInv, TermAtBoot
  PROVE  LInv'
<1>. USE LifeAssumption DEF LInv, LifeInv, TermAtBoot, Signalled,
            life, lb, cache, limits, qvars, sockets, globals, promise, quitting, faults, Finishing, Phase
<1>1. QInv'
  BY GoneStep, QuietStep DEF Gone
<1>f. /\ consumer' = consumer /\ phase' \in {"down", phase} /\ drain' = drain
      /\ closing' => closing
      /\ quit' # "none" => quit # "none"
      /\ open' \in {0, open} /\ left' \in {0, left} /\ ready' \in {FALSE, ready}
      /\ phase \in {"down", "cache", "queue"}
  <2>1. CASE UNCHANGED <<qvars, phase, ready, open, left>>
    BY <2>1
  <2>2. CASE Gone
    BY <2>2 DEF Gone, QueueGone
  <2>. QED
    BY <2>1, <2>2
<1>2. LifeTypeOK'
  <2>1. phase' \in Phase
    BY <1>f DEF LifeTypeOK
  <2>2. ready' \in BOOLEAN /\ stopped' \in BOOLEAN /\ health' \in BOOLEAN /\ redis' \in BOOLEAN
    BY <1>f DEF LifeTypeOK
  <2>3. open' \in 0 .. MaxOpen /\ drain' \in DrainChecks /\ left' \in 0 .. drain' /\ streak' \in Nat
    BY <1>f DEF LifeTypeOK
  <2>4. /\ stops' \in 0 .. MaxStops /\ crashes' \in 0 .. MaxCrashes
        /\ redisFaults' \in 0 .. MaxRedis
    BY <1>f DEF LifeTypeOK
  <2>. QED
    BY <2>1, <2>2, <2>3, <2>4, Zenon DEF LifeTypeOK
<1>3. ClosesLast'
  BY <1>f DEF LifeTypeOK, ClosesLast
<1>4. OpenOnlyServing'
  BY <1>f DEF LifeTypeOK, OpenOnlyServing
<1>5. NotReady'
  BY <1>f DEF LifeTypeOK, NotReady
<1>6. Counting'
  BY <1>f DEF LifeTypeOK, Counting
<1>7. Notices'
  BY <1>f DEF LifeTypeOK, Notices, NoDeadWindow, Counting, NotReady
<1>. QED
  BY <1>1, <1>2, <1>3, <1>4, <1>5, <1>6, <1>7, Zenon DEF LInv, LifeInv

LEMMA ConnectionStep ==
  ASSUME LInv, Queues(QueueStep) \/ Faulty \/ UNCHANGED vars
  PROVE  LInv'
<1>. USE DEF LInv, LifeInv, life, lb, cache, limits
<1>1. QInv'
  BY QueueStepKeeps, QuietStep DEF Queues, Faulty, vars
<1>2. UNCHANGED <<life, drain, lb, cache, limits>>
  BY DEF Queues, Faulty, vars
<1>3. consumer' = consumer /\ closing' = closing /\ (quit' # "none" => quit # "none")
  BY QueueStepFlags DEF Queues, Faulty, vars, qvars, globals, quitting
<1>4. LifeTypeOK'
  BY <1>2, Zenon DEF LifeTypeOK
<1>5. ClosesLast' /\ OpenOnlyServing' /\ NotReady' /\ Counting' /\ Notices'
  BY <1>2, <1>3 DEF ClosesLast, OpenOnlyServing, NotReady, Counting, Notices, NoDeadWindow
<1>. QED
  BY <1>1, <1>4, <1>5, Zenon

LEMMA NextLInv == LInv /\ [Next]_vars => LInv'
<1>. SUFFICES ASSUME LInv, [Next]_vars PROVE LInv'
  OBVIOUS
<1>1. CASE Boots
  BY <1>1, StartStep, CacheConnectedStep, BootQueueStep, BootedStep, BootFailsStep DEF Boots
<1>2. CASE Ends
  BY <1>2, DrainedStep, ServerClosedStep, QueueClosedStep, CacheClosedStep, DbClosedStep DEF Ends
<1>3. CASE Queues(QueueStep) \/ Faulty \/ UNCHANGED vars
  BY <1>3, ConnectionStep
<1>4. CASE Arrive \/ Answer \/ Check \/ DebugReady \/ Deploy
  BY <1>4, ArriveStep, AnswerStep, CheckStep, DebugReadyStep, DeployStep
<1>5. CASE TermAtBoot \/ Term \/ TermWorker \/ Killed \/ Crash \/ OrphanEnds \/ RedisToggles
  BY <1>5, TermAtBootStep, TermStep, TermWorkerStep, KilledStep, CrashStep, OrphanEndsStep,
     RedisTogglesStep
<1>. QED
  BY <1>1, <1>2, <1>3, <1>4, <1>5 DEF Next

LEMMA LInvAlways == Spec => []LInv
BY InitLInv, NextLInv, PTL DEF Spec

\* The variables of a process and of its connection have their types.
THEOREM LifecycleTypes == Spec => []TypeOK
BY LInvAlways, LInvMeans, PTL

\* queue.js:86-123: from the first initQueue until closeQueue something leads
\* to a connection, and one thing only while no channel closed alone; after
\* closeQueue no timer is left, whatever attempt was under way.
THEOREM ReconnectNeverDiesOrForks == Spec => []OneConnection
BY LInvAlways, LInvMeans, PTL

\* queue.js:96-121, worker.js:61-74: while no channel closed alone, mqReady
\* means a channel that can be used, and a worker consumes on it once; until
\* closeQueue a connection that nobody works on is ready, and the worker
\* consumes on its channel.
THEOREM ReadyQueueIsUsable == Spec => []ReadyIsUsable
BY LInvAlways, LInvMeans, PTL

\* server.js:307-321: with a drain of Fall checks or more the load balancer has
\* taken the server out before it stops listening.
THEOREM NoRequestToClosedPort == Spec => []NoDeadWindow
BY LInvAlways, LInvMeans, PTL

\* server.js:324-330: the queue is closed after the last reservation is answered.
THEOREM ServedBeforeClosed == Spec => []ResourcesOutliveRequests
BY LInvAlways, LInvMeans, PTL
=============================================================================
