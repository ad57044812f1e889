--------------------------- MODULE QueueConnProofs ---------------------------
(***************************************************************************)
(* The reconnect loop and the readiness flag, for any number of slots,     *)
(* outages and channel faults.                                             *)
(*                                                                         *)
(* QInv says of each attempt where its connection and its channel are,     *)
(* that something leads to a connection, and, as long as no channel closed *)
(* alone, that it is one thing and that the module's ch is its channel.    *)
(***************************************************************************)
EXTENDS QueueConn, FiniteSetTheorems, TLAPS

\* Where the connection and the channel of a slot are.
SlotOK(k) ==
  /\ work[k] = "dial" => link[k] = "none"
  /\ work[k] = "declare" => chan[k] = "open" /\ ch \in Slot
  /\ work[k] = "consume" => onto[k] \in Slot /\ chan[onto[k]] = "open"
  /\ link[k] = "none" => chan[k] = "none"
  /\ consumes[k] > 0 => chan[k] = "open"

Slots == \A k \in Slot : SlotOK(k)

\* Something leads to a connection, and nothing before the start or after the end.
Loop ==
  /\ init = "none" => Used = {} /\ ~reconnectTimer
  /\ init # "none" /\ ~closing => Used # {} \/ reconnectTimer
  /\ closing => ~reconnectTimer
  /\ quit # "none" => closing
  /\ quit \in {"channel", "connection", "lost"} => quitSlot \in Slot

\* It is one thing: a slot, or the timer.
One ==
  /\ \A j, k \in Used : j = k
  /\ reconnectTimer => Used = {}

\* The module's ch is the channel of the one attempt or connection; a connection
\* that no attempt works on is in use.
InUse(k) == mqReady /\ ch = k /\ (consumer => consumes[k] = 1)

OwnChannel(k) ==
  /\ work[k] = "declare" => ch = k
  /\ work[k] = "consume" => onto[k] = k /\ ch = k /\ mqReady
  /\ work[k] = "none" /\ link[k] # "none" /\ ~closing => InUse(k)
  /\ work[k] # "none" => consumes[k] = 0
  /\ consumes[k] <= 1

Calm ==
  /\ One
  /\ \A k \in Slot : OwnChannel(k)
  /\ mqReady => ch \in Slot /\ chan[ch] = "open"

QInv == QueueTypeOK /\ Slots /\ Loop /\ (channelFaults = 0 => Calm)

LEMMA FreeSlotIsFree ==
  ASSUME Opens
  PROVE  /\ FreeSlot \in Slot /\ FreeSlot \notin Used
         /\ work[FreeSlot] = "none" /\ link[FreeSlot] = "none"
<1>1. \E k \in Slot : k \notin Used
  BY DEF Opens, Used
<1>2. FreeSlot \in Slot /\ FreeSlot \notin Used
  BY <1>1 DEF FreeSlot
<1>. QED
  BY <1>2 DEF Used

\* One token, counted and not.
LEMMA TokensOfLoop ==
  ASSUME reconnectTimer \in BOOLEAN
  PROVE  /\ One => Tokens <= 1
         /\ Used # {} \/ reconnectTimer => Tokens >= 1
<1>1. IsFiniteSet(Used) /\ Cardinality(Used) \in Nat
  BY SlotAssumption, FS_Subset, FS_CardinalityType DEF Used
<1>2. Used # {} => Cardinality(Used) >= 1
  BY <1>1, FS_EmptySet
<1>3. Used = {} => Cardinality(Used) = 0
  BY FS_EmptySet
<1>4. (\A j, k \in Used : j = k) => Cardinality(Used) <= 1
  <2>1. ASSUME \A j, k \in Used : j = k, Used # {} PROVE Cardinality(Used) = 1
    <3>1. PICK k : k \in Used
      BY <2>1
    <3>2. Used = {k}
      BY <2>1, <3>1
    <3>. QED
      BY <3>2, FS_Singleton
  <2>. QED
    BY <1>3, <2>1
<1>5. CASE reconnectTimer
  <2>1. Tokens = Cardinality(Used) + 1
    BY <1>5 DEF Tokens
  <2>. QED
    BY <1>1, <1>3, <1>5, <2>1 DEF One
<1>6. CASE ~reconnectTimer
  <2>1. Tokens = Cardinality(Used)
    BY <1>1, <1>6 DEF Tokens
  <2>. QED
    BY <1>1, <1>2, <1>4, <1>6, <2>1 DEF One
<1>. QED
  BY <1>5, <1>6

LEMMA QInvMeans == QInv => QueueTypeOK /\ OneConnection /\ ReadyIsUsable
<1>. SUFFICES ASSUME QInv PROVE OneConnection /\ ReadyIsUsable
  BY DEF QInv
<1>. QueueTypeOK
  BY DEF QInv
<1>1. OneConnection
  BY TokensOfLoop DEF QInv, QueueTypeOK, Calm, Loop, OneConnection
<1>2. ReadyIsUsable
  <2>. SUFFICES ASSUME channelFaults = 0 
                PROVE  /\ mqReady => ch # NoSlot /\ chan[ch] = "open" /\ link[ch] # "none"
                       /\ \A k \in Slot : link[k] = "open" /\ work[k] = "none" /\ ~closing =>
                            mqReady /\ ch = k /\ (consumer => consumes[k] = 1)
                       /\ \A j, k \in Slot : consumes[j] > 0 /\ consumes[k] > 0 => j = k
                       /\ \A k \in Slot : consumes[k] <= 1
    BY DEF ReadyIsUsable
  <2>1. mqReady => ch # NoSlot /\ chan[ch] = "open" /\ link[ch] # "none"
    BY SlotAssumption DEF QInv, Calm, Slots, SlotOK
  <2>2. ASSUME NEW j \in Slot, consumes[j] > 0 PROVE j \in Used
    BY <2>2 DEF QInv, Slots, SlotOK, Used
  <2>3. \A j, k \in Slot : consumes[j] > 0 /\ consumes[k] > 0 => j = k
    BY <2>2 DEF QInv, Calm, One
  <2>4. \A k \in Slot : consumes[k] <= 1
    BY DEF QInv, Calm, OwnChannel
  <2>5. \A k \in Slot : link[k] = "open" /\ work[k] = "none" /\ ~closing =>
          mqReady /\ ch = k /\ (consumer => consumes[k] = 1)
    BY DEF QInv, Calm, OwnChannel, InUse
  <2>. QED
    BY <2>1, <2>3, <2>4, <2>5
<1>. QED
  BY <1>1, <1>2

LEMMA QInvInit == QueueInit => QInv
<1>. SUFFICES ASSUME QueueInit PROVE QInv
  OBVIOUS
<1>. USE DEF QueueInit, Fresh
<1>1. QueueTypeOK
  <2>1. outages \in 0 .. MaxOutages /\ channelFaults \in 0 .. MaxChannelFaults
    BY FaultAssumption
  <2>2. /\ work \in [Slot -> Work] /\ link \in [Slot -> {"none", "open", "stale"}]
        /\ chan \in [Slot -> {"none", "open", "closed"}]
        /\ onto \in [Slot -> Slot \cup {NoSlot}] /\ consumes \in [Slot -> Nat]
        /\ busy \in [Slot -> BOOLEAN]
    BY DEF Work
  <2>. QED
    BY <2>1, <2>2, Zenon DEF QueueTypeOK
<1>2. Slots
  BY DEF Slots, SlotOK
<1>3. Used = {}
  BY DEF Used
<1>4. Loop
  BY <1>3 DEF Loop
<1>5. Calm
  BY <1>3 DEF Calm, One, OwnChannel
<1>. QED
  BY <1>1, <1>2, <1>4, <1>5 DEF QInv

LEMMA InitQueueStep ==
  ASSUME QInv, InitQueue, quit = "none"
  PROVE  QInv'
<1>. USE DEF QInv, InitQueue, Goes, sockets, globals, promise, quitting, faults
<1>1. QueueTypeOK'
  BY FreeSlotIsFree DEF QueueTypeOK, Work
<1>2. Slots'
  BY FreeSlotIsFree DEF QueueTypeOK, Slots, SlotOK
<1>3. Loop'
  BY FreeSlotIsFree DEF QueueTypeOK, Slots, SlotOK, Loop, Used
<1>4. (channelFaults = 0 => Calm)'
  BY FreeSlotIsFree DEF QueueTypeOK, Slots, SlotOK, Calm, One, OwnChannel, InUse, Loop, Used
<1>. QED
  BY <1>1, <1>2, <1>3, <1>4

LEMMA TimerFiresStep ==
  ASSUME QInv, TimerFires
  PROVE  QInv'
<1>. USE DEF QInv, TimerFires, Goes, sockets, globals, promise, quitting, faults
<1>1. QueueTypeOK'
  <2>1. work' \in [Slot -> Work] /\ reconnectTimer' \in BOOLEAN
    BY FreeSlotIsFree DEF QueueTypeOK, Work
  <2>2. UNCHANGED <<consumer, broker, link, chan, onto, consumes, busy, orphans, conn, ch, mqReady,
                    closing, init, initSlot, quit, quitSlot, outages, channelFaults>>
    OBVIOUS
  <2>. QED
    BY <2>1, <2>2, Zenon DEF QueueTypeOK
<1>2. Slots'
  BY FreeSlotIsFree DEF QueueTypeOK, Slots, SlotOK
<1>3. Loop'
  BY FreeSlotIsFree DEF QueueTypeOK, Slots, SlotOK, Loop, Used
<1>4. (channelFaults = 0 => Calm)'
  BY FreeSlotIsFree DEF QueueTypeOK, Slots, SlotOK, Calm, One, OwnChannel, InUse, Loop, Used
<1>. QED
  BY <1>1, <1>2, <1>3, <1>4

LEMMA DialStep ==
  ASSUME QInv, NEW k \in Slot, Dial(k)
  PROVE  QInv'
<1>. USE DEF QInv, Dial, Goes, sockets, globals, promise, quitting, faults
<1>1. QueueTypeOK'
  BY DEF QueueTypeOK, Work
<1>2. Slots'
  BY DEF QueueTypeOK, Slots, SlotOK
<1>3. Loop'
  BY DEF QueueTypeOK, Slots, SlotOK, Loop, Used
<1>4. (channelFaults = 0 => Calm)'
  BY DEF QueueTypeOK, Slots, SlotOK, Calm, One, OwnChannel, InUse, Loop, Used
<1>. QED
  BY <1>1, <1>2, <1>3, <1>4

LEMMA DialFailsStep ==
  ASSUME QInv, NEW k \in Slot, DialFails(k)
  PROVE  QInv'
<1>. USE DEF QInv, DialFails, Goes, Rejected, Scheduled, sockets, globals, promise, quitting, faults
<1>1. QueueTypeOK'
  BY DEF QueueTypeOK, Work
<1>2. Slots'
  BY DEF QueueTypeOK, Slots, SlotOK
<1>3. Loop'
  BY DEF QueueTypeOK, Slots, SlotOK, Loop, Used
<1>4. (channelFaults = 0 => Calm)'
  BY DEF QueueTypeOK, Slots, SlotOK, Calm, One, OwnChannel, InUse, Loop, Used
<1>. QED
  BY <1>1, <1>2, <1>3, <1>4

LEMMA OpenChannelStep ==
  ASSUME QInv, NEW k \in Slot, OpenChannel(k)
  PROVE  QInv'
<1>. USE DEF QInv, OpenChannel, Goes, sockets, globals, promise, quitting, faults
<1>1. QueueTypeOK'
  BY DEF QueueTypeOK, Work
<1>2. Slots'
  BY DEF QueueTypeOK, Slots, SlotOK
<1>3. Loop'
  BY DEF QueueTypeOK, Slots, SlotOK, Loop, Used
<1>4. (channelFaults = 0 => Calm)'
  BY DEF QueueTypeOK, Slots, SlotOK, Calm, One, OwnChannel, InUse, Loop, Used
<1>. QED
  BY <1>1, <1>2, <1>3, <1>4

LEMMA DeclareStep ==
  ASSUME QInv, NEW k \in Slot, Declare(k)
  PROVE  QInv'
<1>. USE DEF QInv, Declare, Goes, Rejected, Scheduled, Settled, sockets, globals, promise, quitting, faults
<1>1. QueueTypeOK'
  BY DEF QueueTypeOK, Work
<1>2. Slots'
  <2>1. SUFFICES ASSUME NEW q \in Slot PROVE SlotOK(q)'
    BY DEF Slots
  <2>2. SlotOK(q) /\ link' = link /\ chan' = chan /\ consumes' = consumes
    BY DEF Slots
  <2>3. CASE q # k
    <3>1. work'[q] = work[q] /\ onto'[q] = onto[q]
      BY <2>3 DEF QueueTypeOK
    <3>. QED
      BY <2>2, <3>1 DEF SlotOK
  <2>4. CASE q = k /\ consumer /\ chan[ch] = "open" /\ ~Closing(ch)
    <3>1. ch \in Slot
      BY <2>4 DEF QueueTypeOK, Slots, SlotOK
    <3>2. work'[q] = "consume" /\ onto'[q] = ch
      BY <2>4 DEF QueueTypeOK
    <3>. QED
      BY <2>2, <2>4, <3>1, <3>2 DEF SlotOK
  <2>5. CASE q = k /\ ~(consumer /\ chan[ch] = "open" /\ ~Closing(ch))
    BY <2>2, <2>5 DEF SlotOK, QueueTypeOK
  <2>. QED
    BY <2>3, <2>4, <2>5
<1>3. Loop'
  BY DEF QueueTypeOK, Slots, SlotOK, Loop, Used
<1>4. (channelFaults = 0 => Calm)'
  BY DEF QueueTypeOK, Slots, SlotOK, Calm, One, OwnChannel, InUse, Loop, Used
<1>. QED
  BY <1>1, <1>2, <1>3, <1>4

LEMMA ConsumeStep ==
  ASSUME QInv, NEW k \in Slot, Consume(k)
  PROVE  QInv'
<1>. USE DEF QInv, Consume, Goes, Settled, sockets, globals, promise, quitting, faults
<1>1. QueueTypeOK'
  BY DEF QueueTypeOK, Work, Slots, SlotOK
<1>2. Slots'
  BY DEF QueueTypeOK, Slots, SlotOK
<1>3. Loop'
  BY DEF QueueTypeOK, Slots, SlotOK, Loop, Used
<1>4. (channelFaults = 0 => Calm)'
  BY DEF QueueTypeOK, Slots, SlotOK, Calm, One, OwnChannel, InUse, Loop, Used
<1>. QED
  BY <1>1, <1>2, <1>3, <1>4

LEMMA ChannelGoneTypes ==
  ASSUME QueueTypeOK, NEW k \in Slot, NEW left \in {"none", "closed"}, ChannelGone(k, left)
  PROVE  /\ work' \in [Slot -> Work]
         /\ chan' \in [Slot -> {"none", "open", "closed"}]
         /\ onto' \in [Slot -> Slot \cup {NoSlot}]
         /\ consumes' \in [Slot -> Nat]
         /\ busy' \in [Slot -> BOOLEAN]
         /\ orphans' \in BOOLEAN
         /\ mqReady' = FALSE
         /\ init' \in {"none", "pending", "ok", "failed"}
<1>. USE DEF QueueTypeOK, ChannelGone
<1>1. work' \in [Slot -> Work]
  BY DEF Work
<1>2. chan' \in [Slot -> {"none", "open", "closed"}]
  OBVIOUS
<1>3. onto' \in [Slot -> Slot \cup {NoSlot}]
  OBVIOUS
<1>4. consumes' \in [Slot -> Nat]
  OBVIOUS
<1>5. busy' \in [Slot -> BOOLEAN]
  OBVIOUS
<1>6. orphans' \in BOOLEAN
  BY Zenon
<1>7. mqReady' = FALSE
  OBVIOUS
<1>8. init' \in {"none", "pending", "ok", "failed"}
  BY DEF Rejected
<1>. QED
  BY <1>1, <1>2, <1>3, <1>4, <1>5, <1>6, <1>7, <1>8

\* What is left of the other slots, and of the one whose channel is gone.
LEMMA ChannelGoneSlots ==
  ASSUME QueueTypeOK, Slots, NEW k \in Slot, NEW left \in {"none", "closed"},
         ChannelGone(k, left), ch' = ch,
         \/ link' = link /\ link[k] # "none"
         \/ link' = [link EXCEPT ![k] = "none"] /\ work[k] # "dial" /\ left = "none"
  PROVE  Slots'
<1>. SUFFICES ASSUME NEW q \in Slot PROVE SlotOK(q)'
  BY DEF Slots
<1>1. SlotOK(q)
  BY DEF Slots
<1>. USE <1>1 DEF ChannelGone, QueueTypeOK, SlotOK
<1>2. CASE q \in Waiting(k)
  <2>1. work'[q] = "none"
    BY <1>2
  <2>2. chan'[q] = (IF q = k THEN left ELSE chan[q]) /\ consumes'[q] = (IF q = k THEN 0 ELSE consumes[q])
    OBVIOUS
  <2>3. link'[q] = "none" => chan'[q] = "none"
    BY <2>2
  <2>. QED
    BY <2>1, <2>2, <2>3
<1>3. CASE q \notin Waiting(k)
  <2>1. work'[q] = work[q] /\ onto'[q] = onto[q]
    BY <1>3
  <2>2. chan'[q] = (IF q = k THEN left ELSE chan[q]) /\ consumes'[q] = (IF q = k THEN 0 ELSE consumes[q])
    OBVIOUS
  <2>3. link'[q] = "none" => chan'[q] = "none"
    BY <2>2
  <2>4. work[q] = "declare" => q # k
    BY <1>3 DEF Waiting
  <2>5. work[q] = "consume" => onto[q] # k
    BY <1>3 DEF Waiting
  <2>6. work[q] = "dial" => link'[q] = "none"
    OBVIOUS
  <2>7. work[q] = "consume" => onto'[q] \in Slot /\ chan'[onto'[q]] = "open"
    BY <2>1, <2>5
  <2>. QED
    BY <2>1, <2>2, <2>3, <2>4, <2>6, <2>7
<1>. QED
  BY <1>2, <1>3

LEMMA NoticeLossStep ==
  ASSUME QInv, NEW k \in Slot, NoticeLoss(k)
  PROVE  QInv'
<1>. USE DEF QInv
<1>0. ChannelGone(k, "none") /\ link[k] = "stale" /\ link' = [link EXCEPT ![k] = "none"]
  BY DEF NoticeLoss
<1>1. QueueTypeOK'
  <2>1. link' \in [Slot -> {"none", "open", "stale"}] /\ reconnectTimer' \in BOOLEAN
    BY DEF NoticeLoss, Scheduled, QueueTypeOK
  <2>2. UNCHANGED <<consumer, broker, conn, ch, closing, initSlot, quit, quitSlot, outages,
                    channelFaults>>
    BY DEF NoticeLoss, quitting, faults
  <2>3. mqReady' \in BOOLEAN
    BY <1>0, ChannelGoneTypes
  <2>. QED
    BY <1>0, ChannelGoneTypes, <2>1, <2>2, <2>3, Zenon DEF QueueTypeOK
<1>2. Slots'
  <2>1. work[k] # "dial" /\ ch' = ch
    BY <1>0 DEF NoticeLoss, Slots, SlotOK
  <2>. QED
    BY <1>0, <2>1, ChannelGoneSlots
<1>3. Loop'
  BY DEF NoticeLoss, ChannelGone, Rejected, Scheduled, QueueTypeOK, Loop, Used, quitting
<1>4. ASSUME channelFaults' = 0 PROVE Calm'
  <2>1. Calm /\ k \in Used
    BY <1>0, <1>4 DEF NoticeLoss, faults, Used
  <2>2. \A q \in Slot : q # k => work[q] = "none" /\ link[q] = "none"
    BY <2>1 DEF Calm, One, Used
  <2>3. \A q \in Slot : work'[q] = "none"
    <3>1. work[k] \in {"none", "channel", "declare", "consume"}
      BY <1>0 DEF QueueTypeOK, Work, Slots, SlotOK
    <3>2. work[k] = "consume" => onto[k] = k
      BY <2>1 DEF Calm, OwnChannel
    <3>3. work[k] # "none" => k \in Waiting(k)
      BY <3>1, <3>2 DEF Waiting
    <3>. QED
      BY <1>0, <2>2, <3>3 DEF ChannelGone
  <2>4. \A q \in Slot : link'[q] = "none"
    BY <1>0, <2>2 DEF QueueTypeOK
  <2>5. Used' = {}
    BY <2>3, <2>4 DEF Used
  <2>6. \A q \in Slot : OwnChannel(q)'
    BY <1>0, <2>1, <2>3, <2>4 DEF ChannelGone, QueueTypeOK, Calm, OwnChannel, Slots, SlotOK
  <2>7. ~mqReady'
    BY <1>0 DEF ChannelGone
  <2>. QED
    BY <2>5, <2>6, <2>7 DEF Calm, One
<1>. QED
  BY <1>1, <1>2, <1>3, <1>4

LEMMA ChannelClosesStep ==
  ASSUME QInv, NEW k \in Slot, ChannelCloses(k)
  PROVE  QInv'
<1>. USE DEF QInv
<1>0. ChannelGone(k, "closed") /\ link[k] = "open" /\ link' = link /\ ch' = ch
  BY DEF ChannelCloses
<1>1. QueueTypeOK'
  <2>1. channelFaults' \in 0 .. MaxChannelFaults
    BY FaultAssumption DEF ChannelCloses, QueueTypeOK
  <2>2. UNCHANGED <<consumer, broker, link, conn, ch, closing, initSlot, quit, quitSlot, outages>>
    BY DEF ChannelCloses, quitting
  <2>3. mqReady' \in BOOLEAN
    BY <1>0, ChannelGoneTypes
  <2>4. reconnectTimer' \in BOOLEAN
    BY Zenon DEF ChannelCloses, Scheduled, QueueTypeOK
  <2>. QED
    BY <1>0, ChannelGoneTypes, <2>1, <2>2, <2>3, <2>4, Zenon DEF QueueTypeOK
<1>2. Slots'
  BY <1>0, ChannelGoneSlots
<1>3. Loop'
  BY <1>0 DEF ChannelCloses, ChannelGone, Rejected, Scheduled, QueueTypeOK, Loop, Used, quitting
<1>4. channelFaults' # 0
  BY DEF ChannelCloses, QueueTypeOK
<1>. QED
  BY <1>1, <1>2, <1>3, <1>4

LEMMA OutageStep ==
  ASSUME QInv, Outage
  PROVE  QInv'
<1>. USE DEF QInv, Outage, sockets, globals, promise, quitting, faults
<1>1. QueueTypeOK'
  BY FaultAssumption DEF QueueTypeOK, Work
<1>2. Slots'
  BY FaultAssumption DEF QueueTypeOK, Slots, SlotOK
<1>3. Loop'
  BY FaultAssumption DEF QueueTypeOK, Slots, SlotOK, Loop, Used
<1>4. (channelFaults = 0 => Calm)'
  BY FaultAssumption DEF QueueTypeOK, Slots, SlotOK, Calm, One, OwnChannel, InUse, Loop, Used
<1>. QED
  BY <1>1, <1>2, <1>3, <1>4

LEMMA CloseQueueStep ==
  ASSUME QInv, CloseQueue
  PROVE  QInv'
<1>. USE DEF QInv, CloseQueue, AfterChannel, sockets, globals, promise, quitting, faults
<1>1. QueueTypeOK'
  BY DEF QueueTypeOK, Work
<1>2. Slots'
  BY DEF QueueTypeOK, Slots, SlotOK
<1>3. Loop'
  BY DEF QueueTypeOK, Slots, SlotOK, Loop, Used
<1>4. (channelFaults = 0 => Calm)'
  BY DEF QueueTypeOK, Slots, SlotOK, Calm, One, OwnChannel, InUse, Loop, Used
<1>. QED
  BY <1>1, <1>2, <1>3, <1>4

\* What closeQueue waits for after the channel.
LEMMA AfterChannelWaits ==
  ASSUME QueueTypeOK, AfterChannel
  PROVE  /\ quit' \in {"connection", "lost", "done"}
         /\ quitSlot' \in Slot \cup {NoSlot}
         /\ quit' # "done" => quitSlot' \in Slot
BY DEF AfterChannel, QueueTypeOK

\* A channel that closeQueue closes leaves nothing behind that is not counted.
LEMMA ChannelGoneCalm ==
  ASSUME QueueTypeOK, Slots, Calm, NEW k \in Slot, NEW left \in {"none", "closed"},
         ChannelGone(k, left), ch' = ch, reconnectTimer' = reconnectTimer,
         link[k] # "none", closing',
         \/ link' = link
         \/ link' = [link EXCEPT ![k] = "none"]
  PROVE  Calm'
<1>1. \A q \in Slot : work'[q] \in {"none", work[q]} /\ link'[q] \in {"none", link[q]}
  BY DEF ChannelGone, QueueTypeOK
<1>2. One'
  <2>1. Used' \subseteq Used
    BY <1>1 DEF Used
  <2>. QED
    BY <2>1 DEF Calm, One
<1>3. ASSUME NEW q \in Slot PROVE OwnChannel(q)'
  <2>1. OwnChannel(q)
    BY DEF Calm
  <2>2. work'[q] # "none" => work'[q] = work[q] /\ onto'[q] = onto[q]
    BY DEF ChannelGone, QueueTypeOK
  <2>3. consumes'[q] \in {0, consumes[q]}
    BY DEF ChannelGone, QueueTypeOK
  <2>4. work'[q] # "consume"
    <3>1. ASSUME work[q] = "consume" PROVE q \in Waiting(k)
      <4>1. q = k /\ onto[q] = q
        BY <2>1, <3>1 DEF Calm, One, Used, OwnChannel
      <4>. QED
        BY <3>1, <4>1 DEF Waiting
    <3>. QED
      BY <3>1 DEF ChannelGone, QueueTypeOK
  <2>. QED
    BY <2>1, <2>2, <2>3, <2>4 DEF OwnChannel
<1>4. ~mqReady'
  BY DEF ChannelGone
<1>. QED
  BY <1>2, <1>3, <1>4 DEF Calm

LEMMA ChannelClosedStep ==
  ASSUME QInv, ChannelClosed
  PROVE  QInv'
<1>. USE DEF QInv
<1>1. /\ quit = "channel" /\ quitSlot \in Slot /\ AfterChannel
      /\ UNCHANGED <<consumer, broker, link, conn, ch, reconnectTimer, closing, initSlot, outages,
                     channelFaults>>
  BY DEF ChannelClosed, Loop, faults
<1>2. ChannelGone(quitSlot, "closed") /\ link[quitSlot] = "open"
  BY DEF ChannelClosed
<1>3. QueueTypeOK'
  <2>1. mqReady' \in BOOLEAN
    BY <1>1, <1>2, ChannelGoneTypes
  <2>2. /\ quit' \in {"none", "channel", "connection", "lost", "done"}
        /\ quitSlot' \in Slot \cup {NoSlot}
    BY <1>1, AfterChannelWaits
  <2>. QED
    BY <1>1, <1>2, <2>1, <2>2, ChannelGoneTypes, Zenon DEF QueueTypeOK
<1>4. Slots'
  BY <1>1, <1>2, ChannelGoneSlots
<1>5. Loop'
  BY <1>1, <1>2, AfterChannelWaits DEF ChannelGone, Rejected, QueueTypeOK, Loop, Used
<1>6. (channelFaults = 0 => Calm)'
  BY <1>1, <1>2, ChannelGoneCalm DEF Loop
<1>. QED
  BY <1>3, <1>4, <1>5, <1>6

LEMMA ConnectionClosedStep ==
  ASSUME QInv, ConnectionClosed
  PROVE  QInv'
<1>. USE DEF QInv
<1>1. /\ quit = "connection" /\ quitSlot \in Slot /\ quit' = "done" /\ quitSlot' = NoSlot
      /\ UNCHANGED <<consumer, broker, conn, ch, reconnectTimer, closing, initSlot, outages,
                     channelFaults>>
  BY DEF ConnectionClosed, Loop, faults
<1>2. /\ ChannelGone(quitSlot, "none") /\ link[quitSlot] = "open"
      /\ link' = [link EXCEPT ![quitSlot] = "none"]
  BY DEF ConnectionClosed
<1>3. QueueTypeOK'
  <2>1. mqReady' \in BOOLEAN
    BY <1>1, <1>2, ChannelGoneTypes
  <2>2. link' \in [Slot -> {"none", "open", "stale"}]
    BY <1>2 DEF QueueTypeOK
  <2>3. /\ quit' \in {"none", "channel", "connection", "lost", "done"}
        /\ quitSlot' \in Slot \cup {NoSlot}
    BY <1>1
  <2>. QED
    BY <1>1, <1>2, <2>1, <2>2, <2>3, ChannelGoneTypes, Zenon DEF QueueTypeOK
<1>4. Slots'
  BY <1>1, <1>2, ChannelGoneSlots DEF Slots, SlotOK
<1>5. Loop'
  <2>1. init' # "none" /\ closing' /\ ~reconnectTimer'
    BY <1>1, <1>2 DEF ChannelGone, Rejected, Loop, Used
  <2>. QED
    BY <1>1, <2>1 DEF Loop
<1>6. (channelFaults = 0 => Calm)'
  BY <1>1, <1>2, ChannelGoneCalm DEF Loop
<1>. QED
  BY <1>3, <1>4, <1>5, <1>6

LEMMA QuietStep ==
  ASSUME QInv, BrokerBack \/ (\E k \in Slot : Deliver(k) \/ Acked(k)) \/ UNCHANGED qvars
  PROVE  QInv'
<1>. USE DEF QInv, qvars, sockets, globals, promise, quitting, faults
<1>1. /\ broker' \in BOOLEAN /\ busy' \in [Slot -> BOOLEAN]
      /\ UNCHANGED <<consumer, work, link, chan, onto, consumes, orphans, conn, ch, mqReady,
                     reconnectTimer, closing, init, initSlot, quit, quitSlot, outages,
                     channelFaults>>
  BY DEF BrokerBack, Deliver, Acked, QueueTypeOK
<1>2. QueueTypeOK'
  BY <1>1 DEF QueueTypeOK
<1>3. Slots'
  BY <1>1 DEF Slots, SlotOK
<1>4. Loop'
  BY <1>1 DEF Loop, Used
<1>5. (channelFaults = 0 => Calm)'
  BY <1>1 DEF Calm, One, OwnChannel, InUse, Used
<1>. QED
  BY <1>2, <1>3, <1>4, <1>5

LEMMA GoneStep ==
  ASSUME QInv, QueueGone
  PROVE  QInv'
<1>. USE DEF QInv, QueueGone, sockets, globals, promise, quitting, faults
<1>1. QueueTypeOK'
  BY DEF QueueTypeOK, Work
<1>2. Slots'
  BY DEF QueueTypeOK, Slots, SlotOK
<1>3. Loop'
  BY DEF QueueTypeOK, Slots, SlotOK, Loop, Used
<1>4. (channelFaults = 0 => Calm)'
  BY DEF QueueTypeOK, Slots, SlotOK, Calm, One, OwnChannel, InUse, Loop, Used
<1>. QED
  BY <1>1, <1>2, <1>3, <1>4
=============================================================================
