------------------------------ MODULE RabbitMQ ------------------------------
(***************************************************************************)
(* RabbitMQEventBus (internal/events/rabbitmq.go): one topic of one        *)
(* process, its queues at the broker, the loops that consume them and the  *)
(* loop that reconnects.                                                   *)
(*                                                                         *)
(* The queues are the broker's and outlive a connection.  What a consumer  *)
(* has been given and not acknowledged goes back to the main queue when    *)
(* its channel or connection ends; its goroutine does not learn of that    *)
(* and works on.  A publication and the acknowledgement after it travel    *)
(* on one channel, in order, so the loss of the connection cuts that       *)
(* stream at one place: what was sent after it had no effect.              *)
(*                                                                         *)
(* All handlers of a topic consume one queue, so an event reaches one of   *)
(* them.  Deliveries a channel has prefetched and no loop has taken count  *)
(* as still queued.  Delays are the broker's clock and not modelled.       *)
(***************************************************************************)
EXTENDS Naturals, FiniteSets

CONSTANTS
    Events,        \* events of the topic
    Handlers,      \* its subscribers
    Tiers,         \* len(retryDelays)
    MaxLosses      \* bound: connections lost

ASSUME RabbitAssumption ==
    Tiers \in Nat /\ MaxLosses \in Nat /\ Events # {} /\ IsFiniteSet(Handlers)

VARIABLES
    main,          \* main[m]: copies of m in the main queue
    retry,         \* retry[m]: copies of m in the queue of tier m.n
    dead,          \* dead[e]: copies of e in the dead-letter queue
    declared,      \* the queues exist
    link,          \* b.conn: "up" or "down"
    lost,          \* connections lost
    subscriber,    \* where each call of Subscribe is
    loop,          \* the goroutines that consume
    channels,      \* b.consumerChs: loops whose channel is listed
    healer,        \* where reconnectLoop is
    replay,        \* subscriptions it has still to start
    closer,        \* where Close is
    accepted,      \* history: events the broker has queued
    handled,       \* history: <<h, e>>: h returned nil for e
    failures       \* history: failures[e]: how often a handler failed on e

brokerVars == <<main, retry, dead, declared>>
historyVars == <<accepted, handled, failures>>
clientVars == <<link, lost, subscriber, channels, healer, replay, closer>>
rabbitVars == <<brokerVars, historyVars, clientVars, loop>>

\* An event with the x-retry-count it carries.
Msg == [e : Events, n : 0..Tiers]

\* Subscribe starts one loop for a handler, the replay after a loss another.
Loops == Handlers \X {"subscribe", "replay"}

\* A loop is "none", waits for a delivery ("idle"), runs the handler, routes a failed delivery
\* or is about to acknowledge.  `live`: its channel is open on the current connection.
Loop == [at : {"none", "idle", "run", "route", "ack"}, m : Msg, live : BOOLEAN]

NoLoop == [at |-> "none", m |-> CHOOSE m \in Msg : TRUE, live |-> FALSE]

Closed == closer # "open"

RabbitInit ==
    /\ main = [m \in Msg |-> 0] /\ retry = [m \in Msg |-> 0] /\ dead = [e \in Events |-> 0]
    /\ declared \in BOOLEAN
    /\ link = "up" /\ lost = 0
    /\ subscriber = [h \in Handlers |-> "new"]
    /\ loop = [c \in Loops |-> NoLoop]
    /\ channels = {} /\ healer = "watch" /\ replay = {} /\ closer = "open"
    /\ accepted = {} /\ handled = {} /\ failures = [e \in Events |-> 0]

AddOne(f, k) == [f EXCEPT ![k] = @ + 1]
TakeOne(f, k) == [f EXCEPT ![k] = @ - 1]

\* Faulty variant: a failed delivery is acknowledged before it is routed.
AckedOnFailure == {c \in Loops : loop[c].live /\ loop[c].at = "run"}

\* Loops whose delivery the broker still holds for them.
Unacked == {c \in Loops : loop[c].live /\ loop[c].at \in {"run", "route", "ack"}}

(***************************************************************************)
(* The channels of loops C end: the broker queues their deliveries again.  *)
(***************************************************************************)
CloseChannels(C) ==
    /\ main' = [m \in Msg |-> main[m] + Cardinality({c \in C \cap Unacked : loop[c].m = m})]
    /\ loop' = [c \in Loops |-> IF c \in C THEN [loop[c] EXCEPT !.live = FALSE] ELSE loop[c]]

ConnectionLost ==
    /\ link = "up" /\ lost < MaxLosses
    /\ link' = "down" /\ lost' = lost + 1
    /\ CloseChannels(Loops)
    /\ UNCHANGED <<retry, dead, declared, historyVars, subscriber, channels, healer, replay, closer>>

-----------------------------------------------------------------------------
(* Publishing and subscribing.                                             *)

\* No confirmation is asked for: a refused publication is logged, an unroutable one vanishes.
Publish(e) ==
    /\ e \notin accepted
    /\ ~Closed /\ link = "up" /\ declared
    /\ main' = AddOne(main, [e |-> e, n |-> 0])
    /\ accepted' = accepted \cup {e}
    /\ UNCHANGED <<retry, dead, declared, clientVars, loop, handled, failures>>

Subscribe(h) ==
    /\ subscriber[h] = "new"
    /\ subscriber' = [subscriber EXCEPT ![h] = IF Closed THEN "refused" ELSE "listed"]
    /\ UNCHANGED <<brokerVars, historyVars, link, lost, loop, channels, healer, replay, closer>>

(***************************************************************************)
(* A channel, the queues and their bindings, the consumer.  Any of these   *)
(* calls can fail; the channel is listed before the queues are declared.   *)
(***************************************************************************)
startConsumer(c) ==
    \/ /\ link = "up" /\ loop[c].at = "none"
       /\ channels' = channels \cup {c}
       /\ \/ /\ declared' = TRUE
             /\ loop' = [loop EXCEPT ![c] = [@ EXCEPT !.at = "idle", !.live = TRUE]]
          \/ declared' \in {declared, TRUE} /\ UNCHANGED loop
    \/ UNCHANGED <<channels, declared, loop>>

StartSubscribed(h) ==
    /\ subscriber[h] = "listed"
    /\ subscriber' = [subscriber EXCEPT ![h] = "done"]
    /\ startConsumer(<<h, "subscribe">>)
    /\ UNCHANGED <<main, retry, dead, historyVars, link, lost, healer, replay, closer>>

-----------------------------------------------------------------------------
(* consumeLoop and handleDelivery.                                         *)

\* The select may take a delivery although closeCh is closed.
Deliver(c, m) ==
    /\ loop[c].at = "idle" /\ loop[c].live
    /\ main[m] > 0
    /\ main' = TakeOne(main, m)
    /\ loop' = [loop EXCEPT ![c] = [@ EXCEPT !.at = "run", !.m = m]]
    /\ UNCHANGED <<retry, dead, declared, historyVars, clientVars>>

\* The deliveries end with the channel.
consumeLoop(c) ==
    /\ loop[c].at = "idle" /\ (Closed \/ ~loop[c].live)
    /\ loop' = [loop EXCEPT ![c] = NoLoop]
    /\ UNCHANGED <<brokerVars, historyVars, clientVars>>

\* A handler that panics fails.
executeRabbitHandler(c) ==
    LET e == loop[c].m.e IN
    /\ loop[c].at = "run"
    /\ \/ /\ loop' = [loop EXCEPT ![c].at = "ack"]
          /\ handled' = handled \cup {<<c[1], e>>}
          /\ UNCHANGED failures
       \/ /\ loop' = [loop EXCEPT ![c].at = "route"]
          /\ failures' = AddOne(failures, e)
          /\ UNCHANGED handled
    /\ UNCHANGED <<brokerVars, accepted, clientVars>>

getRetryCount(m) == m.n

(***************************************************************************)
(* To the next tier, or to the dead letters; on a channel that has ended   *)
(* the publication is refused and the error logged.  A body that is no     *)
(* event would be discarded; only Publish writes to the exchange, and its  *)
(* bodies are events.                                                      *)
(***************************************************************************)
handleDelivery(c) ==
    LET m == loop[c].m IN
    /\ loop[c].at = "route"
    /\ loop' = [loop EXCEPT ![c].at = "ack"]
    /\ \/ /\ loop[c].live /\ getRetryCount(m) < Tiers
          /\ retry' = AddOne(retry, [m EXCEPT !.n = getRetryCount(m) + 1])
          /\ UNCHANGED dead
       \/ /\ loop[c].live /\ getRetryCount(m) >= Tiers
          /\ dead' = AddOne(dead, m.e)
          /\ UNCHANGED retry
       \/ ~loop[c].live /\ UNCHANGED <<retry, dead>>
    /\ UNCHANGED <<main, declared, historyVars, clientVars>>

\* Without effect at the broker when the channel has ended.
Ack(c) ==
    /\ loop[c].at = "ack"
    /\ loop' = [loop EXCEPT ![c].at = "idle"]
    /\ UNCHANGED <<brokerVars, historyVars, clientVars>>

\* The broker: x-message-ttl has passed, x-dead-letter-exchange is the main exchange.
ExpireRetry(m) ==
    /\ retry[m] > 0
    /\ retry' = TakeOne(retry, m)
    /\ main' = AddOne(main, m)
    /\ UNCHANGED <<dead, declared, historyVars, clientVars, loop>>

-----------------------------------------------------------------------------
(* reconnectLoop and Close.                                                *)

reconnectLoop ==
    /\ healer = "watch"
    /\ \/ link = "down" /\ ~Closed /\ healer' = "dial"
       \/ Closed /\ healer' = "ended"
    /\ UNCHANGED <<brokerVars, historyVars, link, lost, subscriber, loop, channels, replay, closer>>

\* isClosed, Dial, the publishing channel and the exchanges; a failure is tried again.
reconnectWithBackoff ==
    /\ healer = "dial"
    /\ healer' = IF Closed THEN "ended" ELSE "dialled"
    /\ UNCHANGED <<brokerVars, historyVars, link, lost, subscriber, loop, channels, replay, closer>>

\* The bus may have been closed since isClosed.
UseConnection ==
    /\ healer = "dialled"
    /\ link' = "up" /\ healer' = "connected"
    /\ UNCHANGED <<brokerVars, historyVars, lost, subscriber, loop, channels, replay, closer>>

\* Under subsMu; a Subscribe that ran meanwhile may have listed a channel of the new connection.
CloseOldChannels ==
    /\ healer = "connected"
    /\ CloseChannels(channels)
    /\ channels' = {}
    /\ replay' = {h \in Handlers : subscriber[h] \in {"listed", "done"}}
    /\ healer' = "wait"
    /\ UNCHANGED <<retry, dead, declared, historyVars, link, lost, subscriber, closer>>

NoneRuns == \A c \in Loops : loop[c].at = "none"

WaitForLoops ==
    /\ healer = "wait" /\ NoneRuns
    /\ healer' = "replay"
    /\ UNCHANGED <<brokerVars, historyVars, link, lost, subscriber, loop, channels, replay, closer>>

Replay ==
    /\ healer = "replay"
    /\ \/ \E h \in replay :
            /\ startConsumer(<<h, "replay">>)
            /\ replay' = replay \ {h}
            /\ UNCHANGED healer
       \/ replay = {} /\ healer' = "watch" /\ UNCHANGED <<replay, channels, declared, loop>>
    /\ UNCHANGED <<main, retry, dead, historyVars, link, lost, subscriber, closer>>

Close ==
    /\ \/ closer = "open" /\ closer' = "waiting"
       \/ closer = "waiting" /\ NoneRuns /\ closer' = "waited"
    /\ UNCHANGED <<brokerVars, historyVars, link, lost, subscriber, loop, channels, healer, replay>>

\* The listed channels, the publishing channel and the connection.
CloseConnection ==
    /\ closer = "waited"
    /\ closer' = "closed"
    /\ link' = "down"
    /\ CloseChannels(Loops)
    /\ channels' = {}
    /\ UNCHANGED <<retry, dead, declared, historyVars, lost, subscriber, healer, replay>>

RabbitNext ==
    \/ \E e \in Events : Publish(e)
    \/ \E h \in Handlers : Subscribe(h) \/ StartSubscribed(h)
    \/ \E c \in Loops, m \in Msg : Deliver(c, m)
    \/ \E c \in Loops : consumeLoop(c) \/ executeRabbitHandler(c) \/ handleDelivery(c) \/ Ack(c)
    \/ \E m \in Msg : ExpireRetry(m)
    \/ ConnectionLost \/ reconnectLoop \/ reconnectWithBackoff \/ UseConnection
    \/ CloseOldChannels \/ WaitForLoops \/ Replay \/ Close \/ CloseConnection

RabbitSpec == RabbitInit /\ [][RabbitNext]_rabbitVars

-----------------------------------------------------------------------------
(* Properties.                                                             *)

RabbitTypeOK ==
    /\ main \in [Msg -> Nat] /\ retry \in [Msg -> Nat] /\ dead \in [Events -> Nat]
    /\ declared \in BOOLEAN /\ link \in {"up", "down"} /\ lost \in 0..MaxLosses
    /\ subscriber \in [Handlers -> {"new", "listed", "done", "refused"}]
    /\ loop \in [Loops -> Loop] /\ channels \subseteq Loops
    /\ healer \in {"watch", "dial", "dialled", "connected", "wait", "replay", "ended"}
    /\ replay \subseteq Handlers /\ closer \in {"open", "waiting", "waited", "closed"}
    /\ accepted \subseteq Events /\ handled \subseteq Handlers \X Events
    /\ failures \in [Events -> Nat]

\* An event the broker has queued is never lost: a handler has returned nil for it, it waits in
\* the main queue, in a tier or at a consumer, or it is a dead letter after a failure in every
\* tier, wherever connections were lost between the publication to a tier and the
\* acknowledgement, or Close and a reconnection met.
AcceptedIsAccounted ==
    \A e \in accepted :
        \/ \E h \in Handlers : <<h, e>> \in handled
        \/ \E m \in Msg : m.e = e /\ main[m] + retry[m] > 0
        \/ \E c \in Unacked : loop[c].m.e = e
        \/ dead[e] > 0 /\ failures[e] > Tiers
=============================================================================
