----------------------------- MODULE RateLimit -----------------------------
(***************************************************************************)
(* The token buckets of the API gateway (gateway/middleware/ratelimit.go): *)
(* a request passes one bucket per check, each kept in Redis and, while    *)
(* Redis is out, in the process's memory.  A probe promotes Redis again.   *)
(* The unit of time is the time one token takes to refill (1/Rate), so a   *)
(* bucket gains one token per tick.  A request reads the clock before the  *)
(* script runs, so the script sees its timestamps out of order.            *)
(* Abstracted: metrics, key strings, the tier of a caller (one             *)
(* configuration per key).  A Redis that loses its data is not modelled.   *)
(***************************************************************************)
EXTENDS Integers, Sequences

CONSTANTS
    Clients,       \* requests in flight at once
    Checks,        \* the keys a request is checked against, in order
    Burst,         \* capacity of a bucket
    Slack,         \* time a Redis key lives beyond Burst (60 seconds)
    MaxDelay,      \* longest time a script call may take (100 milliseconds)
    IdleCutoff,    \* idle time after which the janitor drops a bucket (5 minutes)
    RecoveryThreshold, \* successful probes before Redis is used again (3)
    MaxNow,        \* bound: the clock
    MaxOK          \* bound: probes counted

\* The configured tiers refill in at most 36 seconds, well below the janitor's cutoff; a call
\* takes less than the minute added to the TTL.
ASSUME RateLimitAssumption ==
    /\ Burst \in Nat \ {0} /\ Slack \in Nat /\ MaxDelay \in Nat /\ IdleCutoff \in Nat
    /\ MaxDelay <= Slack /\ Burst <= IdleCutoff
    /\ Checks \in Seq(STRING) /\ Len(Checks) > 0
    /\ RecoveryThreshold \in Nat /\ MaxNow \in Nat /\ MaxOK \in Nat

VARIABLES
    clock,         \* time
    redis, memory, \* the buckets of each store
    granted,       \* history: tokens each store has handed out
    healthy,       \* fallbackStore.healthy
    consecOK,      \* fallbackStore.consecOK
    probe,         \* what the probe counted and has not acted on (0: nothing)
    rl             \* where each request is

rateLimitVars ==
    <<clock, redis, memory, granted, healthy, consecOK, probe, rl>>

Keys == {Checks[i] : i \in DOMAIN Checks}
Stores == {"redis", "memory"}
Bucket == [live: BOOLEAN, tok: Int, ref: Nat, seen: Nat]
NoBucket == [live |-> FALSE, tok |-> 0, ref |-> 0, seen |-> 0]
\* `i`: the check under way; `at`: the time the request read for its Redis call
Caller == [pc: {"idle", "next", "primary", "mark", "zero", "secondary"}, i: Nat, at: Nat]
Away == [pc |-> "idle", i |-> 0, at |-> 0]

TTL == Burst + Slack

RateLimitInit ==
    /\ clock = 0
    /\ redis = [k \in Keys |-> NoBucket] /\ memory = [k \in Keys |-> NoBucket]
    /\ granted = [s \in Stores |-> [k \in Keys |-> 0]]
    /\ healthy = TRUE /\ consecOK = 0 /\ probe = 0
    /\ rl = [c \in Clients |-> Away]

-----------------------------------------------------------------------------
(* A bucket.                                                               *)

AtMostBurst(n) == IF n > Burst THEN Burst ELSE n
Take(b) == [b EXCEPT !.tok = IF @ >= 1 THEN @ - 1 ELSE @]
Allows(b) == b.tok >= 1

\* The script's refill: timestamp `at` may precede the one before it, and then takes tokens.
\* Faulty variant: a request that arrives late resets the bucket's time and costs nothing.
RefilledForward(b, at) ==
    IF b.live
    THEN [live |-> TRUE, tok |-> AtMostBurst(b.tok + (IF at > b.ref THEN at - b.ref ELSE 0)),
          ref |-> at, seen |-> clock]
    ELSE [live |-> TRUE, tok |-> Burst, ref |-> at, seen |-> clock]
tokenBucketLua(b, at) ==
    IF b.live
    THEN [live |-> TRUE, tok |-> AtMostBurst(b.tok + (at - b.ref)), ref |-> at, seen |-> clock]
    ELSE [live |-> TRUE, tok |-> Burst, ref |-> at, seen |-> clock]

\* The memory store reads the clock under its lock.
MemoryRefill(b) ==
    IF b.live
    THEN [live |-> TRUE, tok |-> AtMostBurst(b.tok + (clock - b.ref)), ref |-> clock,
          seen |-> clock]
    ELSE [live |-> TRUE, tok |-> Burst, ref |-> clock, seen |-> clock]

Grant(s, k, b) == granted' = IF Allows(b) THEN [granted EXCEPT ![s][k] = @ + 1] ELSE granted

-----------------------------------------------------------------------------
(* A request.                                                              *)

\* Allow of check i: reads `healthy`, and for a Redis call the clock.
Allow(c, i) ==
    rl' = [rl EXCEPT ![c] = [pc |-> IF healthy THEN "primary" ELSE "secondary", i |-> i,
                             at |-> IF healthy THEN clock ELSE 0]]

\* The middleware makes its checks one after the other.
RateLimitMiddleware(c) ==
    /\ \/ rl[c].pc = "idle" /\ Allow(c, 1)
       \/ rl[c].pc = "next" /\ Allow(c, rl[c].i)
    /\ UNCHANGED <<clock, redis, memory, granted, healthy, consecOK, probe>>

\* A denied check ends the request, and so does the last one.
Answer(c, allowed) ==
    rl' = [rl EXCEPT ![c] = IF allowed /\ rl[c].i < Len(Checks)
                            THEN [pc |-> "next", i |-> rl[c].i + 1, at |-> 0] ELSE Away]

\* The script runs, atomically; its answer arrives, or is lost and the call reports an error.
allowE(c) ==
    LET k == Checks[rl[c].i]
        b == tokenBucketLua(redis[k], rl[c].at)
    IN  /\ rl[c].pc = "primary" /\ clock - rl[c].at <= MaxDelay
        /\ redis' = [redis EXCEPT ![k] = Take(b)]
        /\ \/ Grant("redis", k, b) /\ Answer(c, Allows(b))
           \/ rl' = [rl EXCEPT ![c].pc = "mark"] /\ UNCHANGED granted
        /\ UNCHANGED <<clock, memory, healthy, consecOK, probe>>

\* The call fails or its 100 milliseconds run out before the script ran.
RedisError(c) ==
    /\ rl[c].pc = "primary"
    /\ rl' = [rl EXCEPT ![c].pc = "mark"]
    /\ UNCHANGED <<clock, redis, memory, granted, healthy, consecOK, probe>>

\* CompareAndSwap(true, false): the first request to fail begins the outage.
markUnhealthy(c) ==
    /\ rl[c].pc = "mark"
    /\ rl' = [rl EXCEPT ![c].pc = IF healthy THEN "zero" ELSE "secondary"]
    /\ healthy' = FALSE
    /\ UNCHANGED <<clock, redis, memory, granted, consecOK, probe>>

\* consecOK.Store(0), after the swap and the time of the outage were stored.
ZeroConsecOK(c) ==
    /\ rl[c].pc = "zero"
    /\ consecOK' = 0 /\ rl' = [rl EXCEPT ![c].pc = "secondary"]
    /\ UNCHANGED <<clock, redis, memory, granted, healthy, probe>>

MemoryAllow(c) ==
    LET k == Checks[rl[c].i]
        b == MemoryRefill(memory[k])
    IN  /\ rl[c].pc = "secondary"
        /\ memory' = [memory EXCEPT ![k] = Take(b)]
        /\ Grant("memory", k, b) /\ Answer(c, Allows(b))
        /\ UNCHANGED <<clock, redis, healthy, consecOK, probe>>

-----------------------------------------------------------------------------
(* The probe, the janitor, the expiry of keys, the clock.                  *)

\* Every 30 seconds a ping: a failure zeroes the count; a success adds to it, healthy or not.
runProbe ==
    /\ probe = 0
    /\ \/ consecOK < MaxOK
          /\ consecOK' = consecOK + 1 /\ probe' = consecOK + 1
       \/ consecOK' = 0 /\ probe' = 0
    /\ UNCHANGED <<clock, redis, memory, granted, healthy, rl>>

\* The count is compared with the threshold, and `healthy` is read, in later statements.
Promote ==
    /\ probe > 0 /\ probe' = 0
    /\ healthy' = (healthy \/ probe >= RecoveryThreshold)
    /\ UNCHANGED <<clock, redis, memory, granted, consecOK, rl>>

\* The janitor drops the buckets last seen before the cutoff, under the lock.
initJanitor ==
    /\ \E k \in Keys : memory[k].live /\ memory[k].seen < clock - IdleCutoff
    /\ memory' = [k \in Keys |-> IF memory[k].seen < clock - IdleCutoff THEN NoBucket
                                 ELSE memory[k]]
    /\ UNCHANGED <<clock, redis, granted, healthy, consecOK, probe, rl>>

\* Redis removes a key whose TTL, set by the last script call, has run out.
ExpireKey(k) ==
    /\ redis[k].live /\ clock >= redis[k].seen + TTL
    /\ redis' = [redis EXCEPT ![k] = NoBucket]
    /\ UNCHANGED <<clock, memory, granted, healthy, consecOK, probe, rl>>

RateLimitTick ==
    /\ clock < MaxNow /\ clock' = clock + 1
    /\ UNCHANGED <<redis, memory, granted, healthy, consecOK, probe, rl>>

RateLimitNext ==
    \/ \E c \in Clients :
        RateLimitMiddleware(c) \/ allowE(c) \/ RedisError(c) \/ markUnhealthy(c)
          \/ ZeroConsecOK(c) \/ MemoryAllow(c)
    \/ runProbe \/ Promote \/ initJanitor
    \/ \E k \in Keys : ExpireKey(k)
    \/ RateLimitTick

RateLimitSpec == RateLimitInit /\ [][RateLimitNext]_rateLimitVars

-----------------------------------------------------------------------------
(* Properties.                                                             *)

RateLimitTypeOK ==
    /\ clock \in Nat
    /\ redis \in [Keys -> Bucket] /\ memory \in [Keys -> Bucket]
    /\ granted \in [Stores -> [Keys -> Nat]]
    /\ healthy \in BOOLEAN /\ consecOK \in Nat /\ probe \in Nat
    /\ rl \in [Clients -> Caller]
    /\ \A c \in Clients : rl[c].pc # "idle" => rl[c].i \in DOMAIN Checks

\* No store hands out more than its burst and one token per refill time, whatever the order in
\* which timestamps reach the script, and although an idle bucket is dropped (by the janitor or
\* its TTL) and starts full again.
GrantsBounded == \A s \in Stores, k \in Keys : granted[s][k] <= Burst + clock
=============================================================================
