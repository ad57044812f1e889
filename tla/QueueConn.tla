------------------------------ MODULE QueueConn ------------------------------
(***************************************************************************)
(* The broker connection of one process (app/src/queue.js), and the        *)
(* consumer a worker registers on it (startConsuming of worker.js): the    *)
(* connection attempts, the events of a connection and of its channel, the *)
(* reconnect timer, and closeQueue.                                        *)
(*                                                                         *)
(* A slot is an attempt (connectOnce) and the connection it leaves behind. *)
(* amqplib emits the close events of a lost connection and rejects its     *)
(* pending calls in one tick, so a loss is one step.  The promise of its   *)
(* close() is settled by the broker's reply and by nothing else; from the  *)
(* call on, what is sent on that channel or connection throws and what     *)
(* comes in is ignored.                                                    *)
(*                                                                         *)
(* Process-level steps are in Lifecycle, which gives this module its Next. *)
(***************************************************************************)
EXTENDS Integers, FiniteSets

CONSTANTS
  Slot,        \* attempts and connections there may be at once
  NoSlot,      \* null
  MaxOutages,  \* how often the broker goes away or a connection is cut
  MaxChannelFaults  \* how often a channel closes and its connection stays

ASSUME SlotAssumption  == Slot # {} /\ IsFiniteSet(Slot) /\ NoSlot \notin Slot
ASSUME FaultAssumption == MaxOutages \in Nat /\ MaxChannelFaults \in Nat

VARIABLES
  consumer,  \* lastOpts.consumer: a worker, whose onReconnect is startConsuming
  broker,    \* the broker accepts connections
  work,      \* what the attempt of a slot does next
  link,      \* the connection; "stale" is lost and not noticed yet
  chan,      \* its channel
  onto,      \* the channel an attempt registers its consumer on
  consumes,  \* consumers registered on the channel
  busy,      \* the channel has handed out a message that is being handled
  orphans,   \* messages being handled whose channel is gone
  conn, ch, mqReady, reconnectTimer, closing,  \* the module's variables
  init,      \* the promise of the first initQueue, and of main's startConsuming
  initSlot,  \* the attempt it is about
  quit,      \* where closeQueue is; "lost" waits for a reply that cannot come
  quitSlot,  \* the slot it waits for
  outages, channelFaults

sockets == <<work, link, chan, onto, consumes, busy, orphans>>
globals == <<conn, ch, mqReady, reconnectTimer, closing>>
promise == <<init, initSlot>>
quitting == <<quit, quitSlot>>
faults  == <<broker, outages, channelFaults>>
qvars   == <<consumer, sockets, globals, promise, quitting, faults>>

Work == {"none", "dial", "channel", "declare", "consume"}

\* What a process starts with.
Fresh ==
  /\ work = [k \in Slot |-> "none"]
  /\ link = [k \in Slot |-> "none"]
  /\ chan = [k \in Slot |-> "none"]
  /\ onto = [k \in Slot |-> NoSlot]
  /\ consumes = [k \in Slot |-> 0]
  /\ busy = [k \in Slot |-> FALSE]
  /\ orphans = FALSE
  /\ conn = NoSlot
  /\ ch = NoSlot
  /\ mqReady = FALSE
  /\ reconnectTimer = FALSE
  /\ closing = FALSE
  /\ init = "none"
  /\ initSlot = NoSlot
  /\ quit = "none"
  /\ quitSlot = NoSlot

QueueInit ==
  /\ consumer \in BOOLEAN
  /\ broker \in BOOLEAN
  /\ outages = 0
  /\ channelFaults = 0
  /\ Fresh

\* The process ends: the kernel closes its sockets.
QueueGone ==
  /\ work' = [k \in Slot |-> "none"]
  /\ link' = [k \in Slot |-> "none"]
  /\ chan' = [k \in Slot |-> "none"]
  /\ onto' = [k \in Slot |-> NoSlot]
  /\ consumes' = [k \in Slot |-> 0]
  /\ busy' = [k \in Slot |-> FALSE]
  /\ orphans' = FALSE
  /\ conn' = NoSlot
  /\ ch' = NoSlot
  /\ mqReady' = FALSE
  /\ reconnectTimer' = FALSE
  /\ closing' = FALSE
  /\ init' = "none"
  /\ initSlot' = NoSlot
  /\ quit' = "none"
  /\ quitSlot' = NoSlot
  /\ UNCHANGED <<consumer, faults>>

Used     == {k \in Slot : work[k] # "none" \/ link[k] # "none"}
FreeSlot == CHOOSE k \in Slot : k \notin Used
Opens    == Used # Slot

\* closeQueue has called close() on the channel or the connection of slot k.
Closing(k) == quit \in {"channel", "connection", "lost"} /\ quitSlot = k

Goes(k, w) == work' = [work EXCEPT ![k] = w]

\* Whether scheduleReconnect leaves a timer behind.
Scheduled == reconnectTimer \/ ~closing

\* The attempts in broken reject: the catch of the timer's callback, or that of
\* initQueue, schedules the next attempt; initQueue's throws on.
Rejected(broken) ==
  init' = IF initSlot \in broken /\ init = "pending" THEN "failed" ELSE init

Settled(k) == init' = IF initSlot = k /\ init = "pending" THEN "ok" ELSE init

-----------------------------------------------------------------------------
(* connectOnce and startConsuming                                          *)

InitQueue ==
  /\ init = "none"
  /\ Opens
  /\ Goes(FreeSlot, "dial")
  /\ init' = "pending"
  /\ initSlot' = FreeSlot
  /\ closing' = FALSE
  /\ UNCHANGED <<consumer, link, chan, onto, consumes, busy, orphans, conn, ch, mqReady,
                 reconnectTimer, quitting, faults>>

TimerFires ==
  /\ reconnectTimer
  /\ Opens
  /\ reconnectTimer' = FALSE
  /\ Goes(FreeSlot, "dial")
  /\ UNCHANGED <<consumer, link, chan, onto, consumes, busy, orphans, conn, ch, mqReady,
                 closing, promise, quitting, faults>>

Dial(k) ==
  /\ work[k] = "dial"
  /\ broker
  /\ link' = [link EXCEPT ![k] = "open"]
  /\ conn' = k
  /\ Goes(k, "channel")
  /\ UNCHANGED <<consumer, chan, onto, consumes, busy, orphans, ch, mqReady, reconnectTimer,
                 closing, promise, quitting, faults>>

\* ECONNREFUSED
DialFails(k) ==
  /\ work[k] = "dial"
  /\ ~broker
  /\ Goes(k, "none")
  /\ reconnectTimer' = Scheduled
  /\ Rejected({k})
  /\ UNCHANGED <<consumer, link, chan, onto, consumes, busy, orphans, conn, ch, mqReady,
                 closing, initSlot, quitting, faults>>

OpenChannel(k) ==
  /\ work[k] = "channel"
  /\ link[k] = "open" /\ ~Closing(k)
  /\ chan' = [chan EXCEPT ![k] = "open"]
  /\ ch' = k
  /\ Goes(k, "declare")
  /\ UNCHANGED <<consumer, link, onto, consumes, busy, orphans, conn, mqReady, reconnectTimer,
                 closing, promise, quitting, faults>>

\* The queues are declared.  A worker goes on to register its consumer, on the
\* channel the module's ch is at this moment.
Declare(k) ==
  /\ work[k] = "declare"
  /\ link[k] = "open" /\ ~Closing(k)
  /\ mqReady' = TRUE
  /\ IF consumer /\ chan[ch] = "open" /\ ~Closing(ch)
       THEN /\ Goes(k, "consume")
            /\ onto' = [onto EXCEPT ![k] = ch]
            /\ UNCHANGED <<reconnectTimer, init>>
       ELSE /\ Goes(k, "none")
            /\ reconnectTimer' = IF consumer THEN Scheduled ELSE reconnectTimer
            /\ IF consumer THEN Rejected({k}) ELSE Settled(k)
            /\ UNCHANGED onto
  /\ UNCHANGED <<consumer, link, chan, consumes, busy, orphans, conn, ch, closing, initSlot,
                 quitting, faults>>

\* Fault (the one worker.js:62-64 warns of): a reconnect registers no consumer.
ConsumeOnlyFirst(k) ==
  /\ work[k] = "consume"
  /\ link[onto[k]] = "open" /\ ~Closing(onto[k])
  /\ Goes(k, "none")
  /\ onto' = [onto EXCEPT ![k] = NoSlot]
  /\ consumes' = IF initSlot = k /\ init = "pending"
                   THEN [consumes EXCEPT ![onto[k]] = @ + 1] ELSE consumes
  /\ Settled(k)
  /\ UNCHANGED <<consumer, link, chan, busy, orphans, globals, initSlot, quitting, faults>>

Consume(k) ==
  /\ work[k] = "consume"
  /\ link[onto[k]] = "open" /\ ~Closing(onto[k])
  /\ Goes(k, "none")
  /\ onto' = [onto EXCEPT ![k] = NoSlot]
  /\ consumes' = [consumes EXCEPT ![onto[k]] = @ + 1]
  /\ Settled(k)
  /\ UNCHANGED <<consumer, link, chan, busy, orphans, globals, initSlot, quitting, faults>>

-----------------------------------------------------------------------------
(* Messages                                                                *)

Deliver(k) ==
  /\ consumes[k] > 0
  /\ link[k] = "open" /\ ~Closing(k)
  /\ busy' = [busy EXCEPT ![k] = TRUE]
  /\ UNCHANGED <<consumer, work, link, chan, onto, consumes, orphans, globals, promise,
                 quitting, faults>>

Acked(k) ==
  /\ busy[k] /\ ~Closing(k)
  /\ busy' = [busy EXCEPT ![k] = FALSE]
  /\ UNCHANGED <<consumer, work, link, chan, onto, consumes, orphans, globals, promise,
                 quitting, faults>>

\* A worker whose handler ends acks on a channel that is gone or closing.
Orphaned == orphans \/ \E k \in Slot : busy[k] /\ Closing(k)

-----------------------------------------------------------------------------
(* Closing: of connections, of channels alone, and by closeQueue.          *)

\* The attempts that wait for an answer on channel k.
Waiting(k) == {j \in Slot : \/ j = k /\ work[j] \in {"channel", "declare"}
                            \/ work[j] = "consume" /\ onto[j] = k}

\* Fault: the close handlers do not touch mqReady.
ChannelGoneStillReady(k, left) ==
  /\ chan' = [chan EXCEPT ![k] = left]
  /\ consumes' = [consumes EXCEPT ![k] = 0]
  /\ busy' = [busy EXCEPT ![k] = FALSE]
  /\ orphans' = (orphans \/ busy[k])
  /\ work' = [j \in Slot |-> IF j \in Waiting(k) THEN "none" ELSE work[j]]
  /\ onto' = [j \in Slot |-> IF j \in Waiting(k) THEN NoSlot ELSE onto[j]]
  /\ Rejected(Waiting(k))
  /\ UNCHANGED mqReady

\* Channel k is gone: its consumers, its unacknowledged messages, and what was
\* asked on it.
ChannelGone(k, left) ==
  /\ chan' = [chan EXCEPT ![k] = left]
  /\ consumes' = [consumes EXCEPT ![k] = 0]
  /\ busy' = [busy EXCEPT ![k] = FALSE]
  /\ orphans' = (orphans \/ busy[k])
  /\ work' = [j \in Slot |-> IF j \in Waiting(k) THEN "none" ELSE work[j]]
  /\ onto' = [j \in Slot |-> IF j \in Waiting(k) THEN NoSlot ELSE onto[j]]
  /\ Rejected(Waiting(k))
  /\ mqReady' = FALSE

\* Fault: the connection has no close handler.
NoticeLossOnly(k) ==
  /\ link[k] = "stale"
  /\ link' = [link EXCEPT ![k] = "none"]
  /\ ChannelGone(k, "none")
  /\ reconnectTimer' = (reconnectTimer \/ (Waiting(k) # {} /\ ~closing))
  /\ UNCHANGED <<consumer, conn, ch, closing, initSlot, quitting, faults>>

\* The close handlers run; the attempts that break find the timer set.
NoticeLoss(k) ==
  /\ link[k] = "stale"
  /\ link' = [link EXCEPT ![k] = "none"]
  /\ ChannelGone(k, "none")
  /\ reconnectTimer' = Scheduled
  /\ UNCHANGED <<consumer, conn, ch, closing, initSlot, quitting, faults>>

\* The broker goes away, or one connection is cut.
Outage ==
  /\ outages < MaxOutages
  /\ outages' = outages + 1
  /\ \E lost \in {Slot} \cup {{k} : k \in Slot} :
       /\ \E k \in lost : link[k] = "open"
       /\ broker' = (broker /\ lost # Slot)
       /\ link' = [k \in Slot |-> IF k \in lost /\ link[k] = "open" THEN "stale" ELSE link[k]]
       /\ quit' = IF quit \in {"channel", "connection"} /\ quitSlot \in lost THEN "lost" ELSE quit
  /\ UNCHANGED <<consumer, work, chan, onto, consumes, busy, orphans, globals, promise,
                 quitSlot, channelFaults>>

BrokerBack ==
  /\ ~broker
  /\ broker' = TRUE
  /\ UNCHANGED <<consumer, sockets, globals, promise, quitting, outages, channelFaults>>

\* The broker closes a channel (a queue is declared with other arguments, an
\* acknowledgement is overdue).  Only mqReady is told; an attempt that breaks
\* schedules the next one.
ChannelCloses(k) ==
  /\ channelFaults < MaxChannelFaults
  /\ link[k] = "open" /\ chan[k] = "open" /\ ~Closing(k)
  /\ channelFaults' = channelFaults + 1
  /\ ChannelGone(k, "closed")
  /\ reconnectTimer' = IF Waiting(k) # {} THEN Scheduled ELSE reconnectTimer
  /\ UNCHANGED <<consumer, link, conn, ch, closing, initSlot, quitting, broker, outages>>

\* Fault: closeQueue waits for the close event of a connection, which one that
\* is gone has had already.
AfterChannelByEvent ==
  IF conn # NoSlot
    THEN quit' = (IF link[conn] = "stale" THEN "lost" ELSE "connection") /\ quitSlot' = conn
    ELSE quit' = "done" /\ quitSlot' = NoSlot

\* closeQueue calls conn.close(), which throws at once on a connection that is
\* known to be gone; on one that is lost and not noticed it waits for ever.
AfterChannel ==
  IF conn # NoSlot /\ link[conn] # "none"
    THEN quit' = (IF link[conn] = "open" THEN "connection" ELSE "lost") /\ quitSlot' = conn
    ELSE quit' = "done" /\ quitSlot' = NoSlot

\* ch.close() throws at once on a channel that is gone.
CloseQueue ==
  /\ quit = "none"
  /\ closing' = TRUE
  /\ reconnectTimer' = FALSE
  /\ IF ch # NoSlot /\ chan[ch] = "open"
       THEN quit' = (IF link[ch] = "open" THEN "channel" ELSE "lost") /\ quitSlot' = ch
       ELSE AfterChannel
  /\ UNCHANGED <<consumer, sockets, conn, ch, mqReady, promise, faults>>

\* CloseOk of the channel.
ChannelClosed ==
  /\ quit = "channel" /\ link[quitSlot] = "open"
  /\ ChannelGone(quitSlot, "closed")
  /\ AfterChannel
  /\ UNCHANGED <<consumer, link, conn, ch, reconnectTimer, closing, initSlot, faults>>

\* CloseOk of the connection.
ConnectionClosed ==
  /\ quit = "connection" /\ link[quitSlot] = "open"
  /\ link' = [link EXCEPT ![quitSlot] = "none"]
  /\ ChannelGone(quitSlot, "none")
  /\ quit' = "done"
  /\ quitSlot' = NoSlot
  /\ UNCHANGED <<consumer, conn, ch, reconnectTimer, closing, initSlot, faults>>

-----------------------------------------------------------------------------
\* connectOnce and what follows it, in order.
Attempt(k) == Dial(k) \/ DialFails(k) \/ OpenChannel(k) \/ Declare(k) \/ Consume(k)

\* What the event loop and a broker that answers do.
QueueStep ==
  \/ TimerFires
  \/ \E k \in Slot : Attempt(k) \/ Acked(k) \/ NoticeLoss(k)
  \/ ChannelClosed \/ ConnectionClosed

QueueFault == Outage \/ BrokerBack \/ \E k \in Slot : Deliver(k) \/ ChannelCloses(k)

QueueTypeOK ==
  /\ consumer \in BOOLEAN /\ broker \in BOOLEAN
  /\ work \in [Slot -> Work]
  /\ link \in [Slot -> {"none", "open", "stale"}]
  /\ chan \in [Slot -> {"none", "open", "closed"}]
  /\ onto \in [Slot -> Slot \cup {NoSlot}]
  /\ consumes \in [Slot -> Nat]
  /\ busy \in [Slot -> BOOLEAN] /\ orphans \in BOOLEAN
  /\ conn \in Slot \cup {NoSlot} /\ ch \in Slot \cup {NoSlot}
  /\ mqReady \in BOOLEAN /\ reconnectTimer \in BOOLEAN /\ closing \in BOOLEAN
  /\ init \in {"none", "pending", "ok", "failed"}
  /\ initSlot \in Slot \cup {NoSlot}
  /\ quit \in {"none", "channel", "connection", "lost", "done"}
  /\ quitSlot \in Slot \cup {NoSlot}
  /\ outages \in 0 .. MaxOutages /\ channelFaults \in 0 .. MaxChannelFaults

\* Something that is under way to a connection, or is one.
Tokens == Cardinality(Used) + (IF reconnectTimer THEN 1 ELSE 0)

\* The reconnect loop neither dies nor forks: from the first initQueue until
\* closeQueue something leads to a connection (queue.js:97-98 and 111-123), and
\* it is one thing, unless a channel closed alone, whose connection stays behind
\* when its attempt is made again.  After closeQueue no timer is left.
OneConnection ==
  /\ channelFaults = 0 => Tokens <= 1
  /\ init # "none" /\ ~closing => Tokens >= 1
  /\ closing => ~reconnectTimer

\* Unless a channel closed alone, publish finds mqReady set only with a channel
\* that was opened and is not known to be gone (its connection may be lost and
\* not noticed, or closeQueue may be waiting for its end); until closeQueue a
\* connection that no attempt works on any more is ready, and a worker, after
\* every reconnect (worker.js:62-64), consumes on it; and a worker has at most
\* one consumer, so that prefetch bounds what it holds.
ReadyIsUsable == channelFaults = 0 =>
  /\ mqReady => ch # NoSlot /\ chan[ch] = "open" /\ link[ch] # "none"
  /\ \A k \in Slot : link[k] = "open" /\ work[k] = "none" /\ ~closing =>
       mqReady /\ ch = k /\ (consumer => consumes[k] = 1)
  /\ \A j, k \in Slot : consumes[j] > 0 /\ consumes[k] > 0 => j = k
  /\ \A k \in Slot : consumes[k] <= 1
=============================================================================
