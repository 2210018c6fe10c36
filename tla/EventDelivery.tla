---------------------------- MODULE EventDelivery ----------------------------
(***************************************************************************)
(* The goroutines of one AxCom process and the events that connect them.   *)
(*                                                                         *)
(* A goroutine (an element of Workers) runs either an API request or one   *)
(* event handler.  Publishing an event spawns one handler goroutine per    *)
(* subscriber (LocalEventBus.Publish); a handler that fails is retried up  *)
(* to MaxRetries times and then dead-lettered (invokeHandlerWithRetry).    *)
(* Only the two topics whose handlers write to a database are kept: the    *)
(* other ones have no subscriber, or one that only logs.  Each of the two  *)
(* has exactly one subscriber, so a publication spawns one goroutine.      *)
(*                                                                         *)
(* The bus is never closed while requests run: the engine's Shutdown does  *)
(* not call Close.  Its queue and its dead letters live in memory, and a   *)
(* Crash (module Checkout) loses them.                                     *)
(***************************************************************************)
EXTENDS Naturals

CONSTANTS
    Orders,       \* order ids
    Workers,      \* goroutines that can run at the same time
    None,         \* no order
    MaxRetries,   \* attempts of one handler, RetryConfig.MaxRetries
    MaxRequests,  \* bound: API requests issued in one behaviour
    MaxFaults     \* bound: database and provider calls that fail

ASSUME DeliveryAssumption ==
    /\ None \notin Orders
    /\ MaxRetries \in Nat \ {0}
    /\ MaxRequests \in Nat
    /\ MaxFaults \in Nat

VARIABLES
    proc,      \* proc[w]: what goroutine w is doing
    spawned,   \* spawned[t][o]: handler goroutines started and not yet run
    dead,      \* <<t, o>>: events given up after MaxRetries attempts
    requests,  \* API requests issued so far
    faults     \* calls that have failed so far

deliveryVars == <<proc, spawned, dead, requests, faults>>

(***************************************************************************)
(* Topics with a subscriber that writes, and the operation that handles    *)
(* each of them.                                                           *)
(***************************************************************************)
Topics == {"payment.succeeded", "order.cancelled"}

HandlerOf(t) == IF t = "payment.succeeded" THEN "onPaid" ELSE "onCancelled"
TopicOf(op) == IF op = "onPaid" THEN "payment.succeeded" ELSE "order.cancelled"

HandlerOps == {"onPaid", "onCancelled"}
RequestOps == {"transition", "manualPay", "intent", "reattempt", "confirm", "refund"}
Ops == HandlerOps \cup RequestOps \cup {"idle"}

\* Where a goroutine stands, named after the call it makes next.
Labels == {"idle", "start", "orderUpdate", "orderPublish",
           "orderCheck", "createIntent", "payInsert", "payPublish",
           "confirmCall", "confirmExpire", "confirmWrite", "confirmFail",
           "refundMark", "refundCall", "refundUndo"}

OrderStatus == {"pending", "paid", "shipped", "done", "canceled"}
PaymentStatus == {"pending", "succeeded", "failed", "refunded", "refund_failed"}

\* Provider intents: every request creates at most one.
Intents == 1..MaxRequests
NoIntent == 0

Idle == [op |-> "idle", order |-> None, at |-> "idle",
         status |-> "none", intent |-> NoIntent, tries |-> 0]

(***************************************************************************)
(* A goroutine's local variables: the operation, its order, the status it  *)
(* is about to write, the provider intent it holds, and for a handler the  *)
(* number of the current attempt.                                          *)
(***************************************************************************)
ProcState == [op : Ops, order : Orders \cup {None}, at : Labels,
              status : OrderStatus \cup PaymentStatus \cup {"none"},
              intent : Intents \cup {NoIntent}, tries : 0..MaxRetries]

-----------------------------------------------------------------------------
\* Control of one goroutine.

Free(w) == proc[w] = Idle

Goto(w, l) == proc' = [proc EXCEPT ![w].at = l]

\* The request has been answered, or the handler has returned nil.
Finish(w) == proc' = [proc EXCEPT ![w] = Idle]

Fault == faults < MaxFaults /\ faults' = faults + 1
NoFault == UNCHANGED faults

\* An API request reaches goroutine w.
Request(w, p) ==
    /\ Free(w)
    /\ requests < MaxRequests
    /\ requests' = requests + 1
    /\ proc' = [proc EXCEPT ![w] = p]
    /\ UNCHANGED <<spawned, dead>>

(***************************************************************************)
(* LocalEventBus.Publish: one goroutine for the topic's only subscriber.   *)
(***************************************************************************)
Publish(t, o) == spawned' = [spawned EXCEPT ![t][o] = @ + 1]

StartHandler(w, t, o) ==
    /\ Free(w)
    /\ spawned[t][o] > 0
    /\ spawned' = [spawned EXCEPT ![t][o] = @ - 1]
    /\ proc' = [proc EXCEPT ![w] = [Idle EXCEPT !.op = HandlerOf(t), !.order = o,
                                                !.at = "start", !.tries = 1]]
    /\ UNCHANGED <<dead, requests, faults>>

-----------------------------------------------------------------------------
\* Faulty variants, used by the mutation runs only.
OneAttemptTooMany(n) == n <= MaxRetries
SameAttempt(n) == n
NoDeadLetter(t, o) == UNCHANGED dead
-----------------------------------------------------------------------------

\* The retry loop of invokeHandlerWithRetry: attempts 1 to MaxRetries.
MoreAttempts(n) == n < MaxRetries
NextAttempt(n) == n + 1

\* sendToDLQ.
DeadLetter(t, o) == dead' = dead \cup {<<t, o>>}

(***************************************************************************)
(* The operation of goroutine w returns an error (or panics, which         *)
(* executeHandler turns into one).  A request is answered with it; a       *)
(* handler starts its next attempt, or is dead-lettered after the last.    *)
(***************************************************************************)
Fail(w) ==
    LET p == proc[w] IN
    \/ /\ p.op \in RequestOps
       /\ Finish(w)
       /\ UNCHANGED dead
    \/ /\ p.op \in HandlerOps
       /\ MoreAttempts(p.tries)
       /\ proc' = [proc EXCEPT ![w] = [Idle EXCEPT !.op = p.op, !.order = p.order,
                                            !.at = "start", !.tries = NextAttempt(p.tries)]]
       /\ UNCHANGED dead
    \/ /\ p.op \in HandlerOps
       /\ ~MoreAttempts(p.tries)
       /\ DeadLetter(TopicOf(p.op), p.order)
       /\ Finish(w)

DeliveryInit ==
    /\ proc = [w \in Workers |-> Idle]
    /\ spawned = [t \in Topics |-> [o \in Orders |-> 0]]
    /\ dead = {}
    /\ requests = 0
    /\ faults = 0

DeliveryTypeOK ==
    /\ proc \in [Workers -> ProcState]
    /\ spawned \in [Topics -> [Orders -> Nat]]
    /\ dead \subseteq Topics \X Orders
    /\ requests \in 0..MaxRequests
    /\ faults \in 0..MaxFaults
=============================================================================
