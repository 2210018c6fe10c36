---------------------------- MODULE CacheProofs ----------------------------
(***************************************************************************)
(* Theorems about Cache, for any processes, goroutines, times to live,     *)
(* updates and failures.                                                   *)
(*                                                                         *)
(* The argument for the staleness is an account of time: what a replaced   *)
(* version has been served for and what its entry still has to live never  *)
(* add up to more than the level allows, because a value enters L2 only    *)
(* from the database and L1 only from L2 or the database.                  *)
(***************************************************************************)
EXTENDS Cache, TLAPS

\* The version in the database, and those to come, are not replaced.
CurrentIsFresh == \A v \in Versions : v >= db => lag[v] = 0

\* A value from the database was replaced after it was read.
FetchedAge ==
    \A w \in Workers : pc[w] \in {"landed", "setL2", "setL1"} => lag[val[w]] <= held[w]

\* A value from L2 is as old as an entry of L2 can be, and a little more.
BackfillAge ==
    \A w \in Workers :
        pc[w] = "backfill" => lag[val[w]] <= MaxHold + TTL + Jitter - 1 + held[w]

\* The shared cache: what an entry lags and has left is within one hold and one TTL.
L2Age == Live(l2) => lag[l2.v] + l2.left <= MaxHold + TTL + Jitter

\* The local caches: they copy an entry of the shared one, for at most another TTL.
L1Age == \A p \in Processes : Live(l1[p]) => lag[l1[p].v] + l1[p].left <= Bound

Ages == CurrentIsFresh /\ FetchedAge /\ BackfillAge /\ L2Age /\ L1Age

\* The inductive invariant.
IInv == TypeOK /\ Ages /\ OneFetch

-----------------------------------------------------------------------------
(* The constants and the entries.                                          *)

\* The sums of the times are natural numbers, and no level outlives its own.
LEMMA Times ==
  /\ L1TTL \in Nat \ {0} /\ TTL \in Nat \ {0} /\ Jitter \in Nat /\ MaxHold \in Nat
  /\ MaxUpdates \in Nat /\ MaxFaults \in Nat
  /\ Bound \in Nat /\ Bound = 2 * MaxHold + TTL + Jitter + L1TTL - 1
  /\ L1Lifetime \in 1..L1TTL
<1>1. Jitter \in Nat /\ MaxHold \in Nat /\ MaxUpdates \in Nat /\ MaxFaults \in Nat
  BY CacheAssumption
<1> QED BY <1>1, CacheAssumption DEF Bound, L1Lifetime

\* An entry that is absent has the type of any level.
LEMMA NoEntryType ==
  ASSUME NEW ttl \in Nat
  PROVE  NoEntry \in Entries(ttl) /\ ~Live(NoEntry)
BY Times DEF NoEntry, Entry, Entries, Live, Versions

\* An entry made of a version and a time within the level's is one of the level.
LEMMA EntryType ==
  ASSUME NEW ttl \in Nat, NEW v \in Versions, NEW t \in 0..ttl
  PROVE  Entry(v, t) \in Entries(ttl) /\ Entry(v, t).v = v /\ Entry(v, t).left = t
BY DEF Entry, Entries

\* A tick takes one from the time an entry has, and leaves its version alone.
LEMMA AgedEntry ==
  ASSUME NEW ttl \in Nat, NEW e \in Entries(ttl)
  PROVE  /\ Aged(e) \in Entries(ttl)
         /\ Live(Aged(e)) => Live(e) /\ Aged(e).v = e.v /\ Aged(e).left = e.left - 1
<1>0. e.left \in 0..ttl
  BY DEF Entries
<1>1. CASE e.left <= 1
  BY <1>1, NoEntryType DEF Aged
<1>2. CASE ~(e.left <= 1)
  BY <1>0, <1>2 DEF Aged, Entries, Live
<1> QED BY <1>1, <1>2

-----------------------------------------------------------------------------
(* Types.                                                                  *)

\* The labels a goroutine can be at.
Labels == {"idle", "l2", "do", "wait", "delL1", "delL2"} \cup InFlight \cup Holding

\* Moving some goroutines to a label keeps the type of pc.
LEMMA GotoType ==
  ASSUME pc \in [Workers -> Labels], NEW W, NEW label \in Labels, Goto(W, label)
  PROVE  pc' \in [Workers -> Labels]
BY DEF Goto

\* So does giving them a value to hold.
LEMMA HoldType ==
  ASSUME val \in [Workers -> Versions], held \in [Workers -> 0..MaxHold],
         NEW W, NEW v \in Versions, NEW h \in 0..MaxHold, Hold(W, v, h)
  PROVE  val' \in [Workers -> Versions] /\ held' \in [Workers -> 0..MaxHold]
BY DEF Hold

\* The initial state is well typed.
LEMMA InitType == Init => TypeOK
<1> SUFFICES ASSUME Init PROVE TypeOK
  OBVIOUS
<1>1. NoEntry \in Entries(L1TTL) /\ NoEntry \in Entries(TTL + Jitter)
  BY NoEntryType, Times
<1> QED BY <1>1, Times DEF Init, TypeOK, Versions, InFlight, Holding

\* Every step keeps the types: a goroutine holds a value no longer than MaxHold
\* because time waits for it, and an entry gets no more than its level's time.
LEMMA TypeStep ==
  ASSUME TypeOK, [Next]_vars
  PROVE  TypeOK'
<1> USE Times
<1>0. /\ pc \in [Workers -> Labels]
      /\ 0 \in Versions /\ 0 \in 0..MaxHold
      /\ Owner \in [Workers -> Processes]
      /\ TTL + Jitter \in Nat
      /\ Fault => faults' \in 0..MaxFaults
  BY CacheAssumption DEF TypeOK, Labels, Versions, Fault
<1> DEFINE PcOK == pc' \in [Workers -> Labels]
           HoldOK == val' \in [Workers -> Versions] /\ held' \in [Workers -> 0..MaxHold]
<1>q. ASSUME PcOK, HoldOK, db' \in Versions, l1' \in [Processes -> Entries(L1TTL)],
             l2' \in Entries(TTL + Jitter), faults' \in 0..MaxFaults,
             lag' \in [Versions -> 0..Bound]
      PROVE  TypeOK'
  BY <1>q DEF TypeOK, Labels, Entries, Versions, Bound
<1>a. ASSUME NEW W, Return(W) PROVE PcOK /\ HoldOK
  BY <1>0, <1>a, GotoType, HoldType DEF Return, TypeOK, Labels
<1>1. CASE UNCHANGED vars
  BY <1>1 DEF TypeOK, vars, Versions, Entries, Bound
<1>2. ASSUME NEW w \in Workers, MissL1(w) \/ MissL2(w) \/ Do(w) PROVE TypeOK'
  <2>1. PcOK
    BY <1>0, <1>2, GotoType DEF MissL1, MissL2, Do, Labels, InFlight
  <2> QED BY <1>0, <1>2, <1>q, <2>1 DEF MissL1, MissL2, Do, TypeOK
<1>3. ASSUME NEW w \in Workers, HitL2(w) PROVE TypeOK'
  <2>1. l2.v \in Versions
    BY DEF TypeOK, Entries
  <2>2. PcOK /\ HoldOK
    BY <1>0, <1>3, <2>1, GotoType, HoldType DEF HitL2, TypeOK, Labels, Holding
  <2> QED BY <1>3, <1>q, <2>2 DEF HitL2, TypeOK
<1>4. ASSUME NEW w \in Workers, Fetch(w) PROVE TypeOK'
  <2>1. PcOK /\ HoldOK
    BY <1>0, <1>4, GotoType, HoldType DEF Fetch, TypeOK, Labels, InFlight
  <2> QED BY <1>0, <1>4, <1>q, <2>1 DEF Fetch, TypeOK
<1>5. ASSUME NEW w \in Workers, Land(w) PROVE TypeOK'
  <2>1. PcOK /\ HoldOK
    BY <1>0, <1>5, GotoType, HoldType DEF Land, TypeOK, Labels, Holding
  <2> QED BY <1>5, <1>q, <2>1 DEF Land, TypeOK
<1>6. ASSUME NEW w \in Workers, Fail(w) PROVE TypeOK'
  BY <1>6, <1>a, <1>q DEF Fail, TypeOK
<1>7. ASSUME NEW w \in Workers, SetL2(w) PROVE TypeOK'
  <2>1. l2' \in Entries(TTL + Jitter)
    BY <1>7, EntryType DEF SetL2, TypeOK
  <2>2. PcOK
    BY <1>0, <1>7, GotoType DEF SetL2, Labels, Holding
  <2> QED BY <1>0, <1>7, <1>q, <2>1, <2>2 DEF SetL2, TypeOK
<1>8. ASSUME NEW w \in Workers, SetL1(w) PROVE TypeOK'
  <2>1. Entry(val[w], L1Lifetime) \in Entries(L1TTL)
    BY EntryType DEF TypeOK
  <2>2. l1' \in [Processes -> Entries(L1TTL)]
    BY <1>0, <1>8, <2>1 DEF SetL1, TypeOK
  <2> QED BY <1>8, <1>a, <1>q, <2>2 DEF SetL1, TypeOK
<1>9. ASSUME NEW w \in Workers, Commit(w) PROVE TypeOK'
  <2>1. PcOK
    BY <1>0, <1>9, GotoType DEF Commit, Labels
  <2>2. db' \in Versions
    BY <1>9 DEF Commit, TypeOK, Versions
  <2> QED BY <1>9, <1>q, <2>1, <2>2 DEF Commit, TypeOK
<1>10. ASSUME NEW w \in Workers, DelL1(w) PROVE TypeOK'
  <2>1. PcOK
    BY <1>0, <1>10, GotoType DEF DelL1, Labels
  <2>2. l1' \in [Processes -> Entries(L1TTL)]
    BY <1>0, <1>10, NoEntryType DEF DelL1, TypeOK
  <2> QED BY <1>10, <1>q, <2>1, <2>2 DEF DelL1, TypeOK
<1>11. ASSUME NEW w \in Workers, DelL2(w) PROVE TypeOK'
  <2>1. l2' \in Entries(TTL + Jitter)
    BY <1>0, <1>11, NoEntryType DEF DelL2, TypeOK
  <2> QED BY <1>0, <1>11, <1>a, <1>q, <2>1 DEF DelL2, TypeOK
<1>12. ASSUME NEW p \in Processes, Evict(p) PROVE TypeOK'
  <2>1. l1' \in [Processes -> Entries(L1TTL)]
    BY <1>12, NoEntryType DEF Evict, TypeOK
  <2> QED BY <1>0, <1>12, <1>q, <2>1 DEF Evict, TypeOK
<1>13. ASSUME NEW p \in Processes, Crash(p) PROVE TypeOK'
  <2>1. l1' \in [Processes -> Entries(L1TTL)]
    BY <1>13, NoEntryType DEF Crash, TypeOK
  <2> QED BY <1>0, <1>13, <1>a, <1>q, <2>1 DEF Crash, TypeOK
<1>14. CASE EvictL2
  <2>1. l2' \in Entries(TTL + Jitter)
    BY <1>0, <1>14, NoEntryType DEF EvictL2
  <2> QED BY <1>0, <1>14, <1>q, <2>1 DEF EvictL2, TypeOK
<1>15. CASE Tick
  <2>1. l2' \in Entries(TTL + Jitter)
    BY <1>0, <1>15, AgedEntry DEF Tick, TypeOK
  <2>2. l1' \in [Processes -> Entries(L1TTL)]
    BY <1>15, AgedEntry DEF Tick, TypeOK
  <2>3. held' \in [Workers -> 0..MaxHold]
    BY <1>15 DEF Tick, TypeOK
  <2>4. lag' \in [Versions -> 0..Bound]
    BY <1>15 DEF Tick, TypeOK, Versions
  <2> QED BY <1>0, <1>15, <1>q, <2>1, <2>2, <2>3, <2>4 DEF Tick, TypeOK
<1> QED
  BY <1>1, <1>2, <1>3, <1>4, <1>5, <1>6, <1>7, <1>8, <1>9, <1>10, <1>11, <1>12, <1>13,
     <1>14, <1>15 DEF Next, Progress

\* Every reachable state is well typed.
THEOREM TypeCorrect == Spec => []TypeOK
<1>1. TypeOK /\ [Next]_vars => TypeOK'
  BY TypeStep
<1> QED BY <1>1, InitType, PTL DEF Spec

-----------------------------------------------------------------------------
(* Staleness.                                                              *)

\* A write makes no other version current than the one it adds.
LEMMA KeepsFresh ==
  ASSUME TypeOK, CurrentIsFresh, lag' = lag, db' \in {db, db + 1}
  PROVE  CurrentIsFresh'
BY DEF CurrentIsFresh, TypeOK, Versions

\* Entries that are left alone or removed keep their account.
LEMMA KeepsL2 ==
  ASSUME L2Age, lag' = lag, l2' \in {l2, NoEntry}
  PROVE  L2Age'
BY NoEntryType, Times DEF L2Age

\* Nor does a local cache gain an age when its entries stay or go.
LEMMA KeepsL1 ==
  ASSUME L1Age, lag' = lag, \A p \in Processes : l1'[p] \in {l1[p], NoEntry}
  PROVE  L1Age'
BY NoEntryType, Times DEF L1Age, Bound

\* So do goroutines that are left alone, and those that let go of their value.
LEMMA KeepsHolders ==
  ASSUME FetchedAge, BackfillAge, lag' = lag,
         \A w \in Workers : \/ pc'[w] \notin Holding
                            \/ pc'[w] = pc[w] /\ val'[w] = val[w] /\ held'[w] = held[w]
  PROVE  FetchedAge' /\ BackfillAge'
BY DEF FetchedAge, BackfillAge, Holding

\* The account holds initially: nothing is cached.
LEMMA InitAges == Init => Ages
BY NoEntryType, Times
   DEF Init, Ages, CurrentIsFresh, FetchedAge, BackfillAge, L2Age, L1Age

\* Every step keeps the account: a value enters a level with what it may still
\* live, and a tick adds to its age what it takes from its life.
LEMMA AgesStep ==
  ASSUME TypeOK, Ages, [Next]_vars
  PROVE  Ages'
<1> USE Times
<1>0. /\ Owner \in [Workers -> Processes]
      /\ CurrentIsFresh /\ FetchedAge /\ BackfillAge /\ L2Age /\ L1Age
  BY CacheAssumption DEF Ages
<1> DEFINE Quiet == \A x \in Workers :
              \/ pc'[x] \notin Holding
              \/ pc'[x] = pc[x] /\ val'[x] = val[x] /\ held'[x] = held[x]
           L1Quiet == \A p \in Processes : l1'[p] \in {l1[p], NoEntry}
<1>q. ASSUME Quiet, L1Quiet, l2' \in {l2, NoEntry}, lag' = lag, db' \in {db, db + 1}
      PROVE  Ages'
  BY <1>0, <1>q, KeepsFresh, KeepsL1, KeepsL2, KeepsHolders DEF Ages
<1>1. CASE UNCHANGED vars
  BY <1>1, <1>q DEF vars
<1>2. ASSUME NEW w \in Workers, MissL1(w) \/ MissL2(w) \/ Do(w) \/ Commit(w) PROVE Ages'
  <2>1. Quiet
    BY <1>2 DEF Goto, Hold, MissL1, MissL2, Do, Commit, Holding
  <2> QED BY <1>2, <1>q, <2>1 DEF MissL1, MissL2, Do, Commit
<1>3. ASSUME NEW w \in Workers, Fail(w) \/ DelL2(w) PROVE Ages'
  <2>1. \A W : Return(W) => Quiet
    BY DEF Goto, Hold, Return, Holding
  <2> QED BY <1>3, <1>q, <2>1 DEF Fail, DelL2
<1>4. ASSUME NEW w \in Workers, HitL2(w) PROVE Ages'
  <2>1. lag[l2.v] + l2.left <= MaxHold + TTL + Jitter /\ l2.left \in Nat \ {0}
    BY <1>0, <1>4 DEF HitL2, L2Age, Live, TypeOK, Entries
  <2>2. lag[l2.v] \in Nat /\ lag[l2.v] <= MaxHold + TTL + Jitter - 1
    BY <2>1 DEF TypeOK, Entries, Versions
  <2>3. FetchedAge' /\ BackfillAge'
    BY <1>0, <1>4, <2>2 DEF Goto, Hold, HitL2, FetchedAge, BackfillAge
  <2> QED BY <1>0, <1>4, <2>3, KeepsFresh, KeepsL1, KeepsL2 DEF HitL2, Ages
<1>5. ASSUME NEW w \in Workers, Fetch(w) PROVE Ages'
  <2>1. lag[db] = 0
    BY <1>0 DEF CurrentIsFresh, TypeOK, Versions
  <2>2. FetchedAge' /\ BackfillAge'
    <3>1. CASE Goto({w}, "landed") /\ Hold({w}, db, 0)
      BY <1>0, <1>5, <2>1, <3>1 DEF Goto, Hold, Fetch, FetchedAge, BackfillAge
    <3>2. CASE Goto({w}, "failed") /\ UNCHANGED <<val, held>>
      BY <1>0, <1>5, <3>2, KeepsHolders DEF Goto, Hold, Fetch, Holding
    <3> QED BY <1>5, <3>1, <3>2 DEF Fetch
  <2> QED BY <1>0, <1>5, <2>2, KeepsFresh, KeepsL1, KeepsL2 DEF Fetch, Ages
<1>6. ASSUME NEW w \in Workers, Land(w) PROVE Ages'
  <2>1. lag[val[w]] <= held[w]
    BY <1>0, <1>6 DEF Land, FetchedAge
  <2>2. FetchedAge' /\ BackfillAge'
    BY <1>0, <1>6, <2>1 DEF Goto, Hold, Land, FetchedAge, BackfillAge
  <2> QED BY <1>0, <1>6, <2>2, KeepsFresh, KeepsL1, KeepsL2 DEF Land, Ages
<1>7. ASSUME NEW w \in Workers, SetL2(w) PROVE Ages'
  <2>1. lag[val[w]] <= held[w] /\ held[w] <= MaxHold
    BY <1>0, <1>7 DEF SetL2, FetchedAge, TypeOK
  <2>2. L2Age'
    <3>1. CASE UNCHANGED l2
      BY <1>0, <1>7, <3>1, KeepsL2 DEF SetL2
    <3>2. ASSUME NEW j \in 0..Jitter, l2' = Entry(val[w], TTL + j) PROVE L2Age'
      <4>1. l2'.v = val[w] /\ l2'.left = TTL + j
        BY <3>2 DEF Entry
      <4> QED BY <1>7, <2>1, <4>1 DEF SetL2, L2Age, TypeOK, Versions
    <3> QED BY <1>7, <3>1, <3>2 DEF SetL2
  <2>3. FetchedAge' /\ BackfillAge'
    BY <1>0, <1>7 DEF Goto, Hold, SetL2, FetchedAge, BackfillAge
  <2> QED BY <1>0, <1>7, <2>2, <2>3, KeepsFresh, KeepsL1 DEF SetL2, Ages
<1>8. ASSUME NEW w \in Workers, SetL1(w) PROVE Ages'
  <2>1. lag[val[w]] <= MaxHold + TTL + Jitter - 1 + held[w] /\ held[w] \in 0..MaxHold
        /\ lag[val[w]] \in Nat
    BY <1>0, <1>8 DEF SetL1, FetchedAge, BackfillAge, TypeOK
  <2>2. l1' = [l1 EXCEPT ![Owner[w]] = Entry(val[w], L1Lifetime)]
        /\ Entry(val[w], L1Lifetime).v = val[w] /\ Entry(val[w], L1Lifetime).left = L1Lifetime
    BY <1>8 DEF SetL1, Entry
  <2>3. L1Age'
    <3> SUFFICES ASSUME NEW p \in Processes, Live(l1'[p])
                 PROVE  lag[l1'[p].v] + l1'[p].left <= Bound
      BY <1>8 DEF L1Age, SetL1, Bound
    <3>1. CASE p = Owner[w]
      BY <2>1, <2>2, <3>1 DEF TypeOK
    <3>2. CASE p # Owner[w]
      BY <1>0, <2>2, <3>2 DEF L1Age, TypeOK
    <3> QED BY <3>1, <3>2
  <2>4. Quiet
    BY <1>8 DEF Goto, Hold, SetL1, Return, Holding
  <2> QED BY <1>0, <1>8, <2>3, <2>4, KeepsFresh, KeepsL2, KeepsHolders DEF SetL1, Ages
<1>9. ASSUME NEW w \in Workers, DelL1(w) PROVE Ages'
  <2>1. Quiet
    BY <1>9 DEF Goto, Hold, DelL1, Holding
  <2>2. L1Quiet
    BY <1>9 DEF DelL1, TypeOK
  <2> QED BY <1>9, <1>q, <2>1, <2>2 DEF DelL1
<1>10. ASSUME NEW p \in Processes, Evict(p) PROVE Ages'
  BY <1>10, <1>q DEF Evict, TypeOK
<1>11. ASSUME NEW p \in Processes, Crash(p) PROVE Ages'
  <2>1. Quiet
    BY <1>11 DEF Goto, Hold, Crash, Return, Holding
  <2>2. L1Quiet
    BY <1>11 DEF Crash, TypeOK
  <2> QED BY <1>11, <1>q, <2>1, <2>2 DEF Crash
<1>12. CASE EvictL2
  BY <1>12, <1>q DEF EvictL2
<1>13. CASE Tick
  <2>0. /\ \A v \in Versions : lag[v] \in Nat /\ lag'[v] \in Nat /\ lag'[v] <= lag[v] + 1
        /\ \A v \in Versions : v >= db => lag'[v] = lag[v]
    BY <1>13 DEF Tick, TypeOK, Versions
  <2>1. CurrentIsFresh'
    BY <1>0, <1>13, <2>0 DEF Tick, CurrentIsFresh
  <2>2. \A w \in Workers : /\ pc[w] \in Holding => held'[w] = held[w] + 1
                           /\ pc'[w] = pc[w] /\ val'[w] = val[w] /\ val[w] \in Versions
                           /\ held[w] \in Nat
    BY <1>13 DEF Tick, TypeOK
  <2>3. FetchedAge'
    BY <1>0, <2>0, <2>2 DEF FetchedAge, Holding
  <2>4. BackfillAge'
    BY <1>0, <2>0, <2>2 DEF BackfillAge, Holding
  <2>5. L2Age'
    <3>1. l2' = Aged(l2) /\ l2 \in Entries(TTL + Jitter)
      BY <1>13 DEF Tick, TypeOK
    <3>2. Live(l2') => Live(l2) /\ l2'.v = l2.v /\ l2'.left = l2.left - 1
      BY <3>1, AgedEntry
    <3> QED BY <1>0, <2>0, <3>1, <3>2 DEF L2Age, Entries
  <2>6. L1Age'
    <3> SUFFICES ASSUME NEW p \in Processes, Live(l1'[p])
                 PROVE  lag'[l1'[p].v] + l1'[p].left <= Bound
      BY <1>13 DEF L1Age, Tick, Bound
    <3>1. l1'[p] = Aged(l1[p]) /\ l1[p] \in Entries(L1TTL)
      BY <1>13 DEF Tick, TypeOK
    <3>2. Live(l1[p]) /\ l1'[p].v = l1[p].v /\ l1'[p].left = l1[p].left - 1
      BY <3>1, AgedEntry
    <3> QED BY <1>0, <2>0, <3>1, <3>2 DEF L1Age, Entries
  <2> QED BY <2>1, <2>3, <2>4, <2>5, <2>6 DEF Ages
<1> QED
  BY <1>1, <1>2, <1>3, <1>4, <1>5, <1>6, <1>7, <1>8, <1>9, <1>10, <1>11, <1>12, <1>13
     DEF Next, Progress

\* The account bounds how long a replaced version can be served.
LEMMA AgesBoundStaleness == TypeOK /\ Ages => BoundedStaleness
<1> SUFFICES ASSUME TypeOK, Ages PROVE BoundedStaleness
  OBVIOUS
<1> USE Times
<1>1. Live(l2) => lag[l2.v] < MaxHold + TTL + Jitter
  BY DEF Ages, L2Age, Live, TypeOK, Entries
<1>2. \A p \in Processes : Live(l1[p]) => lag[l1[p].v] < Bound
  <2> SUFFICES ASSUME NEW p \in Processes, Live(l1[p]) PROVE lag[l1[p].v] < Bound
    OBVIOUS
  <2>1. l1[p] \in Entries(L1TTL)
    BY DEF TypeOK
  <2> QED BY <2>1 DEF Ages, L1Age, Live, TypeOK, Entries
<1>3. \A w \in Workers : pc[w] \in Holding => lag[val[w]] < Bound
  BY DEF Ages, FetchedAge, BackfillAge, TypeOK, Holding
<1> QED BY <1>1, <1>2, <1>3 DEF BoundedStaleness

-----------------------------------------------------------------------------
(* Single flight.                                                          *)

\* A step that starts no fetch, and after which whoever waits was waiting before
\* and has the fetch it waited for, keeps one fetch per process.
LEMMA KeepsOneFetch ==
  ASSUME OneFetch,
         \A p \in Processes : /\ Leaders(p)' \subseteq Leaders(p)
                              /\ Waiters(p)' \subseteq Waiters(p)
                              /\ Waiters(p)' # {} => Leaders(p)' = Leaders(p)
  PROVE  OneFetch'
BY DEF OneFetch

\* Every step keeps one fetch per process: the first in leads, and nobody waits
\* beyond the end of the fetch.
LEMMA FlightStep ==
  ASSUME TypeOK, OneFetch, [Next]_vars
  PROVE  OneFetch'
<1>0. Owner \in [Workers -> Processes] /\ pc \in [Workers -> Labels]
  BY CacheAssumption DEF TypeOK, Labels
<1>1. CASE UNCHANGED pc
  BY <1>1, KeepsOneFetch DEF Leaders, Waiters
<1>2. ASSUME NEW w \in Workers, NEW label, Goto({w}, label),
             pc[w] \notin InFlight \cup {"wait"}, label \notin InFlight \cup {"wait"}
      PROVE  OneFetch'
  <2>1. \A x \in Workers : /\ pc'[x] \in InFlight <=> pc[x] \in InFlight
                           /\ pc'[x] = "wait" <=> pc[x] = "wait"
    BY <1>2 DEF Goto
  <2>2. \A p \in Processes : Leaders(p)' = Leaders(p) /\ Waiters(p)' = Waiters(p)
    BY <2>1 DEF Leaders, Waiters
  <2> QED BY <2>2, KeepsOneFetch
<1>3. ASSUME NEW w \in Workers, Do(w) PROVE OneFetch'
  <2>0. \A x \in Workers \ {w} : pc'[x] = pc[x]
    BY <1>3 DEF Goto, Hold, Do
  <2>1. CASE Leaders(Owner[w]) = {}
    <3>1. pc'[w] = "fetch"
      BY <1>3, <2>1 DEF Goto, Hold, Do
    <3>2. Leaders(Owner[w])' = {w}
      BY <2>0, <2>1, <3>1 DEF Leaders, InFlight
    <3>3. \A p \in Processes : p # Owner[w] => Leaders(p)' = Leaders(p)
      BY <2>0 DEF Leaders
    <3>4. \A p \in Processes : Waiters(p)' \subseteq Waiters(p)
      BY <2>0, <3>1 DEF Waiters
    <3> QED BY <3>2, <3>3, <3>4 DEF OneFetch
  <2>2. CASE Leaders(Owner[w]) # {}
    <3>1. pc'[w] = "wait" /\ pc[w] = "do"
      BY <1>3, <2>2 DEF Goto, Hold, Do
    <3>2. \A p \in Processes : Leaders(p)' = Leaders(p)
      BY <2>0, <3>1 DEF Leaders, InFlight
    <3>3. \A p \in Processes : p # Owner[w] => Waiters(p)' = Waiters(p)
      BY <2>0 DEF Waiters
    <3> QED BY <2>2, <3>2, <3>3 DEF OneFetch
  <2> QED BY <2>1, <2>2
<1>4. ASSUME NEW w \in Workers, Fetch(w) PROVE OneFetch'
  <2>1. \A x \in Workers : /\ pc'[x] \in InFlight <=> pc[x] \in InFlight
                           /\ pc'[x] = "wait" <=> pc[x] = "wait"
    BY <1>4 DEF Goto, Hold, Fetch, InFlight
  <2>2. \A p \in Processes : Leaders(p)' = Leaders(p) /\ Waiters(p)' = Waiters(p)
    BY <2>1 DEF Leaders, Waiters
  <2> QED BY <2>2, KeepsOneFetch
<1>5. ASSUME NEW w \in Workers, NEW label \in {"setL2", "idle"},
             pc[w] \in InFlight, Goto(Sharing(w), label)
      PROVE  OneFetch'
  <2>1. \A x \in Workers : pc'[x] = IF x \in Sharing(w) THEN label ELSE pc[x]
    BY <1>5 DEF Goto
  <2>2. Waiters(Owner[w])' = {}
    BY <2>1 DEF Waiters, Sharing
  <2>3. \A p \in Processes : Leaders(p)' \subseteq Leaders(p) /\ Waiters(p)' \subseteq Waiters(p)
    BY <2>1 DEF Leaders, Waiters, InFlight
  <2>4. \A p \in Processes : p # Owner[w] => Leaders(p)' = Leaders(p)
    BY <2>1 DEF Leaders, Waiters, Sharing
  <2> QED BY <2>2, <2>3, <2>4, KeepsOneFetch
<1>6. ASSUME NEW p \in Processes, Crash(p) PROVE OneFetch'
  <2>1. \A x \in Workers : pc'[x] = IF Owner[x] = p THEN "idle" ELSE pc[x]
    BY <1>6 DEF Crash, Return, Goto
  <2>2. Waiters(p)' = {} /\ Leaders(p)' = {}
    BY <2>1 DEF Waiters, Leaders, InFlight
  <2>3. \A q \in Processes : q # p => Leaders(q)' = Leaders(q) /\ Waiters(q)' = Waiters(q)
    BY <2>1 DEF Waiters, Leaders
  <2> QED BY <2>2, <2>3, KeepsOneFetch
<1>7. ASSUME NEW w \in Workers,
             MissL1(w) \/ HitL2(w) \/ MissL2(w) \/ SetL2(w) \/ SetL1(w)
                 \/ Commit(w) \/ DelL1(w) \/ DelL2(w)
      PROVE  OneFetch'
  BY <1>2, <1>7
     DEF MissL1, HitL2, MissL2, SetL2, SetL1, Commit, DelL1, DelL2, Return, InFlight
<1>8. ASSUME NEW w \in Workers, Land(w) \/ Fail(w) PROVE OneFetch'
  BY <1>5, <1>8 DEF Land, Fail, Return, InFlight
<1>9. CASE (\E p \in Processes : Evict(p)) \/ EvictL2 \/ Tick \/ UNCHANGED vars
  BY <1>1, <1>9 DEF Evict, EvictL2, Tick, vars
<1> QED
  BY <1>3, <1>4, <1>6, <1>7, <1>8, <1>9 DEF Next, Progress

-----------------------------------------------------------------------------
\* The invariant is inductive.
THEOREM Inductive == Spec => []IInv
<1>1. Init => IInv
  BY InitType, InitAges DEF IInv, OneFetch, Init, Leaders, Waiters, InFlight
<1>2. IInv /\ [Next]_vars => IInv'
  BY TypeStep, AgesStep, FlightStep DEF IInv
<1> QED BY <1>1, <1>2, PTL DEF Spec

\* No level and no goroutine serves a version longer after its replacement than
\* the times to live allow, whatever races, fails or is not invalidated.
THEOREM StalenessIsBounded == Spec => []BoundedStaleness
<1>1. IInv => BoundedStaleness
  BY AgesBoundStaleness DEF IInv
<1> QED BY <1>1, Inductive, PTL

\* At most one goroutine of a process fetches, and no one waits for nobody.
THEOREM StampedesAreShared == Spec => []OneFetch
<1>1. IInv => OneFetch
  BY DEF IInv
<1> QED BY <1>1, Inductive, PTL
=============================================================================
