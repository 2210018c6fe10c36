------------------------------- MODULE Cache -------------------------------
(***************************************************************************)
(* One key of the two-level cache (internal/infra/cache/manager.go and its *)
(* adapters) as the catalog uses it: every process has an L1 in memory,    *)
(* all share an L2 in Redis, readers call GetOrFetch, and an update writes *)
(* the database and then calls Invalidate.                                 *)
(*                                                                         *)
(* Keys do not interact, so one is enough.  What an update invalidates is  *)
(* a list of keys that may not hold this one: the stock handler and        *)
(* UpdateProduct leave out the other, and the removed, variants.           *)
(*                                                                         *)
(* The value is a version of the product.  Time passes in ticks, and an    *)
(* entry is gone when its time to live has run out, whether it is swept or *)
(* found expired by a Get.  An L1 hit changes nothing here.  A manager     *)
(* with no L2 behaves as one whose every call of Redis fails.  The null    *)
(* sentinel is left out: no caller's fetchFn returns (nil, nil).           *)
(***************************************************************************)
EXTENDS Naturals, FiniteSets

CONSTANTS
    Processes,
    Workers,      \* goroutines of requests and handlers
    Owner,        \* Owner[w]: the process w runs in
    L1TTL,        \* ticks: the option WithL1TTL
    TTL,          \* ticks: what the callers pass to GetOrFetch
    Jitter,       \* ticks: the most that jitterTTL adds
    MaxHold,      \* ticks a goroutine may hold a value before it has stored it
    MaxUpdates,   \* bound: updates of the product
    MaxFaults     \* bound: failing calls and crashes

ASSUME CacheAssumption ==
    /\ Owner \in [Workers -> Processes]
    /\ L1TTL \in Nat \ {0} /\ TTL \in Nat \ {0}
    /\ {Jitter, MaxHold, MaxUpdates, MaxFaults} \subseteq Nat

VARIABLES
    db,      \* the version in the database
    l1,      \* l1[p]: the entry of process p
    l2,      \* the entry in Redis
    pc,      \* pc[w]: the call w is about to make
    val,     \* val[w]: the value w holds
    held,    \* held[w]: ticks since w, or the leader it waited for, read it
    faults,  \* failures so far
    lag      \* history: lag[v] is the number of ticks since v was replaced

vars == <<db, l1, l2, pc, val, held, faults, lag>>

Versions == 0..MaxUpdates

\* The first tick at which a replaced version is not served any more: whoever
\* takes it from L2 does so while L2 still has a tick to live.
Bound == MaxHold + (TTL + Jitter - 1) + MaxHold + L1TTL

Entry(v, ttl) == [v |-> v, left |-> ttl]
NoEntry == Entry(0, 0)
Live(e) == e.left > 0

Aged(e) == IF e.left <= 1 THEN NoEntry ELSE [e EXCEPT !.left = @ - 1]

\* Faulty variant: L1 takes the caller's time to live as it is.
CallersTTL == TTL

L1Lifetime == IF TTL < L1TTL THEN TTL ELSE L1TTL

\* The goroutines that run fetchFn under the singleflight key of p.
InFlight == {"fetch", "landed", "failed"}
Leaders(p) == {w \in Workers : Owner[w] = p /\ pc[w] \in InFlight}
Waiters(p) == {w \in Workers : Owner[w] = p /\ pc[w] = "wait"}

\* Those to whom Do of w returns, with shared = TRUE for all but w.
Sharing(w) == {w} \cup Waiters(Owner[w])

Holding == {"landed", "setL2", "setL1", "backfill"}

Fault == faults < MaxFaults /\ faults' = faults + 1

Goto(W, label) == pc' = [w \in Workers |-> IF w \in W THEN label ELSE pc[w]]
Hold(W, v, h) ==
    /\ val' = [w \in Workers |-> IF w \in W THEN v ELSE val[w]]
    /\ held' = [w \in Workers |-> IF w \in W THEN h ELSE held[w]]
Return(W) == Goto(W, "idle") /\ Hold(W, 0, 0)

Init ==
    /\ db = 0
    /\ l1 = [p \in Processes |-> NoEntry]
    /\ l2 = NoEntry
    /\ pc = [w \in Workers |-> "idle"]
    /\ val = [w \in Workers |-> 0]
    /\ held = [w \in Workers |-> 0]
    /\ faults = 0
    /\ lag = [v \in Versions |-> 0]

-----------------------------------------------------------------------------
(* GetOrFetch                                                              *)

MissL1(w) ==
    /\ pc[w] = "idle" /\ ~Live(l1[Owner[w]])
    /\ Goto({w}, "l2")
    /\ UNCHANGED <<db, l1, l2, val, held, faults, lag>>

HitL2(w) ==
    /\ pc[w] = "l2" /\ Live(l2)
    /\ Goto({w}, "backfill") /\ Hold({w}, l2.v, 0)
    /\ UNCHANGED <<db, l1, l2, faults, lag>>

\* A failing Get of Redis counts as a miss.
MissL2(w) ==
    /\ pc[w] = "l2"
    /\ \/ ~Live(l2) /\ UNCHANGED faults
       \/ Fault
    /\ Goto({w}, "do")
    /\ UNCHANGED <<db, l1, l2, val, held, lag>>

\* singleflight.Do: the first goroutine fetches, the others wait for it.
Do(w) ==
    /\ pc[w] = "do"
    /\ Goto({w}, IF Leaders(Owner[w]) = {} THEN "fetch" ELSE "wait")
    /\ UNCHANGED <<db, l1, l2, val, held, faults, lag>>

\* The product and its variants are read by several statements: what is read
\* counts as old as the first of them.
Fetch(w) ==
    /\ pc[w] = "fetch"
    /\ \/ Goto({w}, "landed") /\ Hold({w}, db, 0) /\ UNCHANGED faults
       \/ Fault /\ Goto({w}, "failed") /\ UNCHANGED <<val, held>>
    /\ UNCHANGED <<db, l1, l2, lag>>

\* The flight ends, and everyone who shares its result goes on to store it.
Land(w) ==
    /\ pc[w] = "landed"
    /\ Goto(Sharing(w), "setL2") /\ Hold(Sharing(w), val[w], held[w])
    /\ UNCHANGED <<db, l1, l2, faults, lag>>

\* Faulty variant: an error is returned to the leader only.
FailsAlone(w) ==
    /\ pc[w] = "failed"
    /\ Return({w})
    /\ UNCHANGED <<db, l1, l2, faults, lag>>

\* The flight ends with an error, which everyone returns.
Fail(w) ==
    /\ pc[w] = "failed"
    /\ Return(Sharing(w))
    /\ UNCHANGED <<db, l1, l2, faults, lag>>

SetL2(w) ==
    /\ pc[w] = "setL2"
    /\ \/ /\ \E j \in 0..Jitter : l2' = Entry(val[w], TTL + j)
          /\ UNCHANGED faults
       \/ Fault /\ UNCHANGED l2
    /\ Goto({w}, "setL1")
    /\ UNCHANGED <<db, l1, val, held, lag>>

\* Faulty variant: the backfill of L1 renews the entry of L2 as well.
RenewsL2(w) ==
    /\ pc[w] \in {"setL1", "backfill"}
    /\ l1' = [l1 EXCEPT ![Owner[w]] = Entry(val[w], L1Lifetime)]
    /\ l2' = Entry(val[w], TTL)
    /\ Return({w})
    /\ UNCHANGED <<db, faults, lag>>

\* After a fetch and after a hit of L2 alike.
SetL1(w) ==
    /\ pc[w] \in {"setL1", "backfill"}
    /\ l1' = [l1 EXCEPT ![Owner[w]] = Entry(val[w], L1Lifetime)]
    /\ Return({w})
    /\ UNCHANGED <<db, l2, faults, lag>>

-----------------------------------------------------------------------------
(* Updates                                                                 *)

\* The write takes effect; Invalidate follows unless the key is not listed, the
\* answer was lost or, in the stock handler, the product could not be read.
Commit(w) ==
    /\ pc[w] = "idle" /\ db < MaxUpdates
    /\ db' = db + 1
    /\ \E label \in {"delL1", "idle"} : Goto({w}, label)
    /\ UNCHANGED <<l1, l2, val, held, faults, lag>>

DelL1(w) ==
    /\ pc[w] = "delL1"
    /\ l1' = [l1 EXCEPT ![Owner[w]] = NoEntry]
    /\ Goto({w}, "delL2")
    /\ UNCHANGED <<db, l2, val, held, faults, lag>>

\* A failing Delete of Redis is logged, and the entry stays.
DelL2(w) ==
    /\ pc[w] = "delL2"
    /\ \/ l2' = NoEntry /\ UNCHANGED faults
       \/ Fault /\ UNCHANGED l2
    /\ Return({w})
    /\ UNCHANGED <<db, l1, lag>>

-----------------------------------------------------------------------------
(* Memory, time and crashes                                                *)

\* A Set of another key at capacity removes an entry it sampled.
Evict(p) ==
    /\ Live(l1[p])
    /\ l1' = [l1 EXCEPT ![p] = NoEntry]
    /\ UNCHANGED <<db, l2, pc, val, held, faults, lag>>

\* Redis evicts as well, and loses everything when it restarts.
EvictL2 ==
    /\ Live(l2)
    /\ l2' = NoEntry
    /\ UNCHANGED <<db, l1, pc, val, held, faults, lag>>

Tick ==
    /\ \A w \in Workers : pc[w] \in Holding => held[w] < MaxHold
    /\ l1' = [p \in Processes |-> Aged(l1[p])]
    /\ l2' = Aged(l2)
    /\ held' = [w \in Workers |-> IF pc[w] \in Holding THEN held[w] + 1 ELSE held[w]]
    /\ lag' = [v \in Versions |-> IF v < db /\ lag[v] < Bound THEN lag[v] + 1 ELSE lag[v]]
    /\ UNCHANGED <<db, pc, val, faults>>

Crash(p) ==
    /\ Fault
    /\ l1' = [l1 EXCEPT ![p] = NoEntry]
    /\ Return({w \in Workers : Owner[w] = p})
    /\ UNCHANGED <<db, l2, lag>>

-----------------------------------------------------------------------------
\* What a goroutine does once it has begun, and is scheduled to go on with.
Progress(w) ==
    \/ HitL2(w) \/ MissL2(w) \/ Do(w) \/ Fetch(w) \/ Land(w) \/ Fail(w)
    \/ SetL2(w) \/ SetL1(w) \/ DelL1(w) \/ DelL2(w)

Next ==
    \/ \E w \in Workers : Progress(w) \/ MissL1(w) \/ Commit(w)
    \/ \E p \in Processes : Evict(p) \/ Crash(p)
    \/ EvictL2
    \/ Tick

Spec == Init /\ [][Next]_vars
FairSpec == Spec /\ \A w \in Workers : WF_vars(Progress(w))

-----------------------------------------------------------------------------
(* Properties                                                              *)

Entries(ttl) == [v : Versions, left : 0..ttl]

\* Every variable has its type, and no entry outlives the time of its level.
TypeOK ==
    /\ db \in Versions
    /\ l1 \in [Processes -> Entries(L1TTL)] /\ l2 \in Entries(TTL + Jitter)
    /\ pc \in [Workers -> {"idle", "l2", "do", "wait", "delL1", "delL2"} \cup InFlight \cup Holding]
    /\ val \in [Workers -> Versions]
    /\ held \in [Workers -> 0..MaxHold]
    /\ faults \in 0..MaxFaults
    /\ lag \in [Versions -> 0..Bound]

\* The times to live bound what races, lost deletes and other processes do: a
\* version that was replaced is not served any more once Redis has expired the
\* copy a slow reader stored and L1 the copy another slow reader took from it
\* (manager.go:155 and :233 choose the times; cache.md, TTL Management).
BoundedStaleness ==
    /\ Live(l2) => lag[l2.v] < MaxHold + TTL + Jitter
    /\ \A p \in Processes : Live(l1[p]) => lag[l1[p].v] < Bound
    /\ \A w \in Workers : pc[w] \in Holding => lag[val[w]] < Bound

\* Requests of one process that miss together share one query of the database,
\* and whoever waits has someone to wait for (manager.go:181 and cache.md,
\* Stampede Protection).
OneFetch ==
    \A p \in Processes :
        /\ \A w \in Leaders(p), x \in Leaders(p) : w = x
        /\ Waiters(p) # {} => Leaders(p) # {}

\* Every call of GetOrFetch and Invalidate returns, those that wait for the fetch
\* of another included, whether that fetch succeeds or not (manager.go:181).
CallsReturn == \A w \in Workers : pc[w] # "idle" ~> pc[w] = "idle"

=============================================================================
