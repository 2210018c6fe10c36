---------------------------- MODULE OutboxProofs ----------------------------
(***************************************************************************)
(* Proofs about Outbox, for any number of processes, events and handler    *)
(* goroutines: what the relay marks is accounted for, the deduplication    *)
(* table hides nothing from the handler, a shutdown leaves nothing sent    *)
(* and unmarked, and the outbox implements a delivery at least once.       *)
(***************************************************************************)
EXTENDS Outbox, TLAPS

\* How a relay stands to its batch, and a Stop that has returned to its relay.
RelayShape ==
    \A p \in Relays :
        /\ relay[p] = "marking" => todo[p] = {}
        /\ relay[p] \in {"idle", "stopped"} => ids[p] = {}
        /\ todo[p] \subseteq ids[p]
        /\ p \in returned => p \in stopping /\ relay[p] = "stopped"

\* What a relay has published of its batch is accounted for, marked or not.
BatchAccounted ==
    \A p \in Relays : \A e \in ids[p] \ todo[p] : Accounted(e)

\* A goroutine that will mark an event has handled it.
MarksHandled ==
    \A g \in Goroutines : task[g].at = "mark" => task[g].e \in handled

\* A relay publishes stored events only.
SentAreStored ==
    \A p \in Relays : \A e \in todo[p] : row[e] # "none"

\* Nothing has happened to an event that was not stored.
AccountedAreStored ==
    \A e \in Events : Accounted(e) => row[e] # "none"

\* The inductive invariant.
IInv ==
    /\ TypeOK
    /\ RelayShape
    /\ SentAreStored
    /\ BatchAccounted
    /\ MarksHandled
    /\ NothingVanishes
    /\ NotSkippedUnhandled
    /\ AccountedAreStored
    /\ UnmarkedIsInHand

-----------------------------------------------------------------------------
\* An idle goroutine is at no event.
LEMMA NoTaskFacts == NoTask.at = "idle" /\ NoTask.e = 0 /\ NoTask \in Tasks
BY DEF NoTask, Tasks

\* What a goroutine that is at work has in hand.
LEMMA AtWork ==
    ASSUME TypeOK, NEW g \in Goroutines, task[g].at # "idle"
    PROVE  /\ task[g] \in [p : Relays, e : Events, at : {"check", "handle", "mark"},
                           tries : 1..MaxRetries]
           /\ task[g] # NoTask
BY NoTaskFacts DEF TypeOK, Tasks

\* The initial state satisfies the invariant: nothing is stored.
LEMMA InitIInv == Init => IInv
<1> SUFFICES ASSUME Init PROVE IInv
    OBVIOUS
<1>1. TypeOK
    BY NoTaskFacts, OutboxAssumption DEF Init, TypeOK, States, Events
<1>2. RelayShape /\ SentAreStored /\ BatchAccounted /\ NothingVanishes /\ NotSkippedUnhandled
    BY DEF Init, RelayShape, SentAreStored, BatchAccounted, NothingVanishes, NotSkippedUnhandled
<1>3. MarksHandled
    BY NoTaskFacts DEF Init, MarksHandled
<1>4. \A e \in Events : ~Accounted(e)
    BY NoTaskFacts DEF Init, Accounted, Events
<1> QED
    BY <1>1, <1>2, <1>3, <1>4 DEF IInv, AccountedAreStored, UnmarkedIsInHand

\* Giving up or retrying keeps the types of the task and of lost.
LEMMA FailedType ==
    ASSUME TypeOK, NEW g \in Goroutines, task[g].at # "idle", Failed(g)
    PROVE  task' \in [Goroutines -> Tasks] /\ lost' \subseteq Events
<1>1. task[g].e \in Events /\ task[g].tries \in 1..MaxRetries /\ task[g].p \in Relays
    BY AtWork
<1>2. CASE MayRetry(g)
  <2>1. [task[g] EXCEPT !.at = "check", !.tries = @ + 1] \in Tasks
    <3>1. task[g].tries + 1 \in 1..MaxRetries
        BY <1>1, <1>2, OutboxAssumption DEF MayRetry
    <3> QED
        BY <3>1, AtWork DEF Tasks
  <2> QED
      BY <1>2, <2>1 DEF Failed, TypeOK
<1>3. CASE ~MayRetry(g)
    BY <1>1, <1>3, NoTaskFacts DEF Failed, Finish, TypeOK
<1> QED
    BY <1>2, <1>3

\* Every step keeps the types.
LEMMA TypeStep == TypeOK /\ [Next]_vars => TypeOK'
<1> SUFFICES ASSUME TypeOK, [Next]_vars PROVE TypeOK'
    OBVIOUS
<1> USE DEF TypeOK
<1>1. ASSUME NEW e \in Events, Store(e) PROVE TypeOK'
    BY <1>1 DEF Store, relayVars, taskVars, fateVars, States
<1>2. ASSUME NEW p \in Relays, Fetch(p) PROVE TypeOK'
    BY <1>2 DEF Fetch, Oldest, Unsent, taskVars, fateVars
<1>3. ASSUME NEW p \in Relays, NEW e \in Events, PublishNext(p, e) PROVE TypeOK'
  <2>1. waiting' \in [Relays -> [Events -> Nat]] /\ lost' \subseteq Events /\ faults' \in 0..MaxFaults
      BY <1>3, OutboxAssumption DEF PublishNext, Fault, NoFault
  <2> QED
      BY <1>3, <2>1 DEF PublishNext
<1>4. ASSUME NEW p \in Relays, MarkPublished(p) PROVE TypeOK'
  <2>1. row' \in [Events -> States]
      BY <1>4 DEF MarkPublished, Marked, States
  <2>2. faults' \in 0..MaxFaults
      BY <1>4, OutboxAssumption DEF MarkPublished, Fault, NoFault
  <2>3. relay' = [relay EXCEPT ![p] = "idle"]
      BY <1>4 DEF MarkPublished, AfterFailedPoll
  <2> QED
      BY <1>4, <2>1, <2>2, <2>3 DEF MarkPublished, taskVars, fateVars
<1>5. ASSUME NEW p \in Relays, Exit(p) \/ StopReturn(p) \/ Stop(p) PROVE TypeOK'
    BY <1>5 DEF Exit, StopReturn, Stop, taskVars, fateVars
<1>6. ASSUME NEW p \in Relays, Crash(p) PROVE TypeOK'
  <2>1. task' \in [Goroutines -> Tasks] /\ lost' \subseteq Events
    <3>1. \A g \in Goroutines : task[g] # NoTask => task[g].e \in Events
        BY DEF Tasks
    <3> QED
        BY <1>6, <3>1, NoTaskFacts DEF Crash
  <2>2. faults' \in 0..MaxFaults /\ waiting' \in [Relays -> [Events -> Nat]]
      BY <1>6, OutboxAssumption DEF Crash, Fault
  <2> QED
      BY <1>6, <2>1, <2>2 DEF Crash
<1>7. ASSUME NEW g \in Goroutines, NEW p \in Relays, NEW e \in Events, Begin(g, p, e) PROVE TypeOK'
  <2>1. [p |-> p, e |-> e, at |-> "check", tries |-> 1] \in Tasks
      BY OutboxAssumption DEF Tasks
  <2>2. waiting' \in [Relays -> [Events -> Nat]]
      BY <1>7 DEF Begin
  <2> QED
      BY <1>7, <2>1, <2>2 DEF Begin, relayVars, fateVars
<1>8. ASSUME NEW g \in Goroutines, Check(g) PROVE TypeOK'
  <2>1. [task[g] EXCEPT !.at = "handle"] \in Tasks
      BY <1>8, AtWork DEF Check, Tasks
  <2>2. task' \in [Goroutines -> Tasks] /\ lost' \subseteq Events
      BY <1>8, <2>1, NoTaskFacts, FailedType DEF Check, Finish
  <2>3. faults' \in 0..MaxFaults
      BY <1>8, OutboxAssumption DEF Check, Fault, NoFault
  <2> QED
      BY <1>8, <2>2, <2>3 DEF Check, relayVars
<1>9. ASSUME NEW g \in Goroutines, Handle(g) PROVE TypeOK'
  <2>1. [task[g] EXCEPT !.at = "mark"] \in Tasks /\ task[g].e \in Events
      BY <1>9, AtWork DEF Handle, Tasks
  <2>2. task' \in [Goroutines -> Tasks] /\ lost' \subseteq Events /\ handled' \subseteq Events
      BY <1>9, <2>1, FailedType DEF Handle
  <2> QED
      BY <1>9, <2>2 DEF Handle, SeenByHandler, relayVars
<1>10. ASSUME NEW g \in Goroutines, Mark(g) PROVE TypeOK'
  <2>1. task[g].e \in Events
      BY <1>10, AtWork DEF Mark
  <2>2. seen' \subseteq Events /\ faults' \in 0..MaxFaults
      BY <1>10, <2>1, OutboxAssumption DEF Mark, Fault, NoFault
  <2> QED
      BY <1>10, <2>2, NoTaskFacts DEF Mark, Finish, relayVars, fateVars
<1>11. CASE UNCHANGED vars
    BY <1>11 DEF vars, relayVars, taskVars, fateVars
<1> QED
    BY <1>1, <1>2, <1>3, <1>4, <1>5, <1>6, <1>7, <1>8, <1>9, <1>10, <1>11
    DEF Next, RelayStep, TaskStep

-----------------------------------------------------------------------------
(* Where published events are.                                             *)

\* Giving up puts the event of the goroutine among the lost ones, retrying
\* leaves it with the goroutine.
LEMMA FailedKeeps ==
    ASSUME TypeOK, NEW g \in Goroutines, task[g].at # "idle", Failed(g)
    PROVE  /\ \A h \in Goroutines : h # g => task'[h] = task[h]
           /\ task'[g].e = task[g].e \/ task[g].e \in lost'
           /\ lost \subseteq lost'
           /\ task'[g].at # "mark"
<1>1. task[g] \in [p : Relays, e : Events, at : {"check", "handle", "mark"}, tries : 1..MaxRetries]
    BY AtWork
<1> QED
    BY <1>1, NoTaskFacts DEF Failed, Finish, TypeOK

\* No step loses track of an event: a goroutine that ends has handled its
\* event, found it handled, given it up or died with it.
LEMMA AccountedStays ==
    ASSUME IInv, [Next]_vars, NEW x \in Events, Accounted(x)
    PROVE  Accounted(x)'
<1> USE DEF IInv
<1>1. CASE UNCHANGED <<waiting, task, handled, lost>>
    BY <1>1 DEF Accounted
<1>2. ASSUME NEW p \in Relays, NEW e \in Events, PublishNext(p, e) PROVE Accounted(x)'
  <2>1. lost \subseteq lost' /\ task' = task /\ handled' = handled
      BY <1>2 DEF PublishNext
  <2>2. ASSUME NEW q \in Relays, waiting[q][x] > 0 PROVE waiting'[q][x] > 0
      BY <1>2, <2>2 DEF PublishNext, TypeOK
  <2> QED
      BY <2>1, <2>2 DEF Accounted
<1>3. ASSUME NEW p \in Relays, Crash(p) PROVE Accounted(x)'
  <2>1. lost \subseteq lost' /\ handled' = handled
      BY <1>3 DEF Crash
  <2>2. ASSUME NEW q \in Relays, waiting[q][x] > 0 PROVE waiting'[q][x] > 0 \/ x \in lost'
      BY <1>3, <2>2 DEF Crash, TypeOK
  <2>3. ASSUME NEW g \in Goroutines, task[g].e = x PROVE task'[g].e = x \/ x \in lost'
    <3>1. task[g] # NoTask
        BY <2>3, NoTaskFacts DEF Events
    <3> QED
        BY <1>3, <2>3, <3>1 DEF Crash
  <2> QED
      BY <2>1, <2>2, <2>3 DEF Accounted
<1>4. ASSUME NEW g \in Goroutines, NEW p \in Relays, NEW e \in Events, Begin(g, p, e)
      PROVE Accounted(x)'
  <2>1. task'[g].e = e /\ \A h \in Goroutines : h # g => task'[h] = task[h]
      BY <1>4 DEF Begin, TypeOK
  <2>2. ASSUME NEW q \in Relays, waiting[q][x] > 0 PROVE waiting'[q][x] > 0 \/ x = e
      BY <1>4, <2>2 DEF Begin, TypeOK
  <2>3. task[g].e # x
      BY <1>4, NoTaskFacts DEF Begin, Events
  <2>4. handled' = handled /\ lost' = lost
      BY <1>4 DEF Begin, fateVars
  <2> QED
      BY <2>1, <2>2, <2>3, <2>4 DEF Accounted
<1>5. ASSUME NEW g \in Goroutines, Check(g) \/ Handle(g) \/ Mark(g) PROVE Accounted(x)'
  <2>1. task[g].at # "idle" /\ waiting' = waiting
      BY <1>5 DEF Check, Handle, Mark
  <2>2. handled \subseteq handled' /\ lost \subseteq lost'
      BY <1>5, <2>1, FailedKeeps DEF Check, Handle, Mark, fateVars
  <2>3. \A h \in Goroutines : h # g => task'[h] = task[h]
      BY <1>5, <2>1, FailedKeeps DEF Check, Handle, Mark, Finish, TypeOK
  <2>4. task'[g].e = task[g].e \/ task[g].e \in handled' \cup lost'
    <3>1. task[g] \in [p : Relays, e : Events, at : {"check", "handle", "mark"}, tries : 1..MaxRetries]
        BY <2>1, AtWork
    <3>2. CASE Check(g)
        BY <2>1, <3>1, <3>2, FailedKeeps DEF Check, NotSkippedUnhandled, TypeOK
    <3>3. CASE Handle(g)
        BY <2>1, <3>1, <3>3, FailedKeeps DEF Handle, TypeOK
    <3>4. CASE Mark(g)
        BY <3>4 DEF Mark, MarksHandled, fateVars
    <3> QED
        BY <1>5, <3>2, <3>3, <3>4
  <2> QED
      BY <2>1, <2>2, <2>3, <2>4 DEF Accounted
<1>6. ASSUME NEW e \in Events, Store(e) PROVE UNCHANGED <<waiting, task, handled, lost>>
    BY <1>6 DEF Store, taskVars, fateVars
<1>7. ASSUME NEW p \in Relays, Fetch(p) \/ MarkPublished(p) \/ Exit(p) \/ StopReturn(p) \/ Stop(p)
      PROVE UNCHANGED <<waiting, task, handled, lost>>
    BY <1>7 DEF Fetch, MarkPublished, Exit, StopReturn, Stop, taskVars, fateVars
<1>8. CASE UNCHANGED vars
    BY <1>1, <1>8 DEF vars, taskVars, fateVars
<1> QED
    BY <1>1, <1>2, <1>3, <1>4, <1>5, <1>6, <1>7, <1>8 DEF Next, RelayStep, TaskStep

-----------------------------------------------------------------------------
(* The invariant is inductive.                                             *)

\* A record of a batch has been published once it has left todo, todo is empty
\* when the batch is marked, and a relay leaves its loop between polls.
LEMMA RelayPart ==
    ASSUME IInv, [Next]_vars
    PROVE  RelayShape'
<1> USE DEF IInv, TypeOK, RelayShape
<1>1. ASSUME NEW p \in Relays, Fetch(p) PROVE RelayShape'
    BY <1>1 DEF Fetch
<1>2. ASSUME NEW p \in Relays, NEW e \in Events, PublishNext(p, e)
      PROVE RelayShape'
    BY <1>2 DEF PublishNext
<1>3. ASSUME NEW p \in Relays, MarkPublished(p) PROVE RelayShape'
  <2>1. relay' = [relay EXCEPT ![p] = "idle"]
      BY <1>3 DEF MarkPublished, AfterFailedPoll
  <2> QED
      BY <1>3, <2>1 DEF MarkPublished
<1>4. ASSUME NEW p \in Relays, Exit(p) \/ StopReturn(p) \/ Stop(p)
      PROVE RelayShape'
    BY <1>4 DEF Exit, StopReturn, Stop, LoopEnded
<1>5. ASSUME NEW p \in Relays, Crash(p) PROVE RelayShape'
    BY <1>5 DEF Crash
<1>6. CASE UNCHANGED relayVars
    BY <1>6 DEF relayVars
<1>7. ASSUME NEW e \in Events, Store(e) PROVE UNCHANGED relayVars
    BY <1>7 DEF Store
<1>8. ASSUME NEW g \in Goroutines, TaskStep(g) PROVE UNCHANGED relayVars
    BY <1>8 DEF TaskStep, Begin, Check, Handle, Mark
<1>9. CASE UNCHANGED vars
    BY <1>6, <1>9 DEF vars
<1> QED
    BY <1>1, <1>2, <1>3, <1>4, <1>5, <1>6, <1>7, <1>8, <1>9 DEF Next, RelayStep

\* A batch is taken from the unsent records, and no record is ever taken back.
LEMMA StoredPart ==
    ASSUME IInv, [Next]_vars
    PROVE  SentAreStored'
<1> USE DEF IInv, TypeOK, SentAreStored
<1>1. ASSUME NEW p \in Relays, Fetch(p) PROVE SentAreStored'
    BY <1>1 DEF Fetch, Oldest, Unsent
<1>2. ASSUME NEW p \in Relays, NEW e \in Events, PublishNext(p, e) PROVE SentAreStored'
    BY <1>2 DEF PublishNext
<1>3. ASSUME NEW p \in Relays, MarkPublished(p) PROVE SentAreStored'
    BY <1>3 DEF MarkPublished, Marked
<1>4. ASSUME NEW p \in Relays, Exit(p) \/ StopReturn(p) \/ Stop(p) \/ Crash(p)
      PROVE SentAreStored'
    BY <1>4 DEF Exit, StopReturn, Stop, Crash
<1>5. ASSUME NEW e \in Events, Store(e) PROVE SentAreStored'
    BY <1>5 DEF Store, relayVars
<1>6. ASSUME NEW g \in Goroutines, TaskStep(g) PROVE SentAreStored'
    BY <1>6 DEF TaskStep, Begin, Check, Handle, Mark, relayVars
<1>7. CASE UNCHANGED vars
    BY <1>7 DEF vars, relayVars
<1> QED
    BY <1>1, <1>2, <1>3, <1>4, <1>5, <1>6, <1>7 DEF Next, RelayStep

\* What the relay has published of a batch stays accounted for.
LEMMA BatchPart ==
    ASSUME IInv, [Next]_vars
    PROVE  BatchAccounted'
<1> SUFFICES ASSUME NEW p \in Relays, NEW e \in ids'[p] \ todo'[p]
             PROVE  Accounted(e)'
    BY DEF BatchAccounted
<1>1. e \in Events
    BY TypeStep DEF IInv, TypeOK
<1>2. CASE e \in ids[p] \ todo[p]
    BY <1>1, <1>2, AccountedStays DEF IInv, BatchAccounted
<1>3. CASE e \notin ids[p] \ todo[p]
  <2>1. PublishNext(p, e)
    <3> USE DEF IInv, TypeOK
    <3>1. ASSUME NEW q \in Relays, Fetch(q) \/ MarkPublished(q) \/ Exit(q) \/ StopReturn(q)
                                    \/ Stop(q) \/ Crash(q)
          PROVE FALSE
        BY <1>3, <3>1 DEF Fetch, MarkPublished, Exit, StopReturn, Stop, Crash
    <3>2. ASSUME NEW q \in Relays, NEW f \in Events, PublishNext(q, f) PROVE PublishNext(p, e)
        BY <1>3, <3>2 DEF PublishNext
    <3>3. ASSUME UNCHANGED relayVars PROVE FALSE
        BY <1>3, <3>3 DEF relayVars
    <3>4. ASSUME NEW f \in Events, Store(f) PROVE UNCHANGED relayVars
        BY <3>4 DEF Store
    <3>5. ASSUME NEW g \in Goroutines, TaskStep(g) PROVE UNCHANGED relayVars
        BY <3>5 DEF TaskStep, Begin, Check, Handle, Mark
    <3>6. ~UNCHANGED vars
        BY <3>3 DEF vars
    <3> QED
        BY <3>1, <3>2, <3>3, <3>4, <3>5, <3>6 DEF Next, RelayStep
  <2>2. waiting'[p][e] > 0 \/ e \in lost'
      BY <1>1, <2>1 DEF PublishNext, IInv, TypeOK
  <2> QED
      BY <2>2 DEF Accounted
<1> QED
    BY <1>2, <1>3

\* A record becomes published with its batch, all of which is accounted for.
LEMMA PublishedPart ==
    ASSUME IInv, [Next]_vars
    PROVE  NothingVanishes'
<1> SUFFICES ASSUME NEW e \in Events, row'[e] = "published"
             PROVE  Accounted(e)'
    BY DEF NothingVanishes
<1>1. row[e] = "published" \/ \E p \in Relays : MarkPublished(p) /\ e \in ids[p]
  <2> USE DEF IInv, TypeOK
  <2>1. ASSUME NEW f \in Events, Store(f) PROVE row[e] = "published"
      BY <2>1 DEF Store
  <2>2. ASSUME NEW p \in Relays, MarkPublished(p) PROVE row[e] = "published" \/ e \in ids[p]
      BY <2>2 DEF MarkPublished, Marked, Batch
  <2>3. ASSUME NEW p \in Relays, Fetch(p) \/ (\E f \in Events : PublishNext(p, f)) \/ Exit(p)
                                  \/ StopReturn(p) \/ Stop(p) \/ Crash(p)
        PROVE row' = row
      BY <2>3 DEF Fetch, PublishNext, Exit, StopReturn, Stop, Crash
  <2>4. ASSUME NEW g \in Goroutines, TaskStep(g) PROVE row' = row
      BY <2>4 DEF TaskStep, Begin, Check, Handle, Mark
  <2>5. CASE UNCHANGED vars
      BY <2>5 DEF vars
  <2> QED
      BY <2>1, <2>2, <2>3, <2>4, <2>5 DEF Next, RelayStep
<1>2. Accounted(e)
    BY <1>1 DEF IInv, NothingVanishes, MarkPublished, RelayShape, BatchAccounted
<1> QED
    BY <1>2, AccountedStays

\* An event is marked as processed by a goroutine that has handled it.
LEMMA SeenPart ==
    ASSUME IInv, [Next]_vars
    PROVE  (MarksHandled /\ NotSkippedUnhandled)'
<1> USE DEF IInv, MarksHandled, NotSkippedUnhandled
<1>1. CASE UNCHANGED <<task, seen, handled>>
    BY <1>1
<1>2. ASSUME NEW g \in Goroutines, NEW p \in Relays, NEW e \in Events, Begin(g, p, e)
      PROVE (MarksHandled /\ NotSkippedUnhandled)'
    BY <1>2 DEF Begin, fateVars, TypeOK
<1>3. ASSUME NEW g \in Goroutines, Check(g) PROVE (MarksHandled /\ NotSkippedUnhandled)'
  <2>1. task[g].at = "check" /\ handled' = handled /\ seen' = seen
      BY <1>3 DEF Check
  <2>2. \A h \in Goroutines : h # g => task'[h] = task[h]
      BY <1>3, <2>1, FailedKeeps DEF Check, Finish, TypeOK
  <2>3. task'[g].at # "mark"
      BY <1>3, <2>1, FailedKeeps, AtWork, NoTaskFacts DEF Check, Finish, TypeOK
  <2> QED
      BY <2>1, <2>2, <2>3
<1>4. ASSUME NEW g \in Goroutines, Handle(g) PROVE (MarksHandled /\ NotSkippedUnhandled)'
  <2>1. task[g].at = "handle" /\ handled \subseteq handled' /\ seen' = seen
      BY <1>4 DEF Handle, SeenByHandler
  <2>2. \A h \in Goroutines : h # g => task'[h] = task[h]
      BY <1>4, <2>1, FailedKeeps DEF Handle, TypeOK
  <2>3. task'[g].at = "mark" => task'[g].e \in handled'
      BY <1>4, <2>1, FailedKeeps, AtWork DEF Handle, TypeOK
  <2> QED
      BY <2>1, <2>2, <2>3
<1>5. ASSUME NEW g \in Goroutines, Mark(g) PROVE (MarksHandled /\ NotSkippedUnhandled)'
    BY <1>5, NoTaskFacts DEF Mark, Finish, fateVars, TypeOK
<1>6. ASSUME NEW p \in Relays, Crash(p) PROVE (MarksHandled /\ NotSkippedUnhandled)'
  <2>1. \A g \in Goroutines : task'[g] = task[g] \/ task'[g] = NoTask
      BY <1>6 DEF Crash
  <2> QED
      BY <1>6, <2>1, NoTaskFacts DEF Crash
<1>7. ASSUME NEW e \in Events, Store(e) PROVE UNCHANGED <<task, seen, handled>>
    BY <1>7 DEF Store, taskVars, fateVars
<1>8. ASSUME NEW p \in Relays, RelayStep(p) \/ Stop(p) PROVE UNCHANGED <<task, seen, handled>>
    BY <1>8 DEF RelayStep, Fetch, PublishNext, MarkPublished, Exit, StopReturn, Stop,
                taskVars, fateVars
<1>9. CASE UNCHANGED vars
    BY <1>1, <1>9 DEF vars, taskVars, fateVars
<1> QED
    BY <1>1, <1>2, <1>3, <1>4, <1>5, <1>6, <1>7, <1>8, <1>9 DEF Next, TaskStep

\* An event comes to be accounted for by being sent only.
LEMMA AccountedComes ==
    ASSUME IInv, [Next]_vars, NEW x \in Events, Accounted(x)'
    PROVE  Accounted(x) \/ \E p \in Relays : PublishNext(p, x)
<1> USE DEF IInv, TypeOK
<1>1. CASE UNCHANGED <<waiting, task, handled, lost>>
    BY <1>1 DEF Accounted
<1>2. ASSUME NEW p \in Relays, NEW e \in Events, PublishNext(p, e), e # x PROVE Accounted(x)
  <2>1. task' = task /\ handled' = handled /\ (x \in lost' => x \in lost)
      BY <1>2 DEF PublishNext
  <2>2. \A q \in Relays : waiting'[q][x] > 0 => waiting[q][x] > 0
      BY <1>2 DEF PublishNext
  <2> QED
      BY <2>1, <2>2 DEF Accounted
<1>3. ASSUME NEW p \in Relays, Crash(p) PROVE Accounted(x)
  <2>1. handled' = handled /\ \A q \in Relays : waiting'[q][x] > 0 => waiting[q][x] > 0
      BY <1>3 DEF Crash
  <2>2. ASSUME NEW g \in Goroutines, task'[g].e = x PROVE task[g].e = x
      BY <1>3, <2>2, NoTaskFacts DEF Crash, Events
  <2>3. x \in lost' => Accounted(x)
      BY <1>3 DEF Crash, Accounted
  <2> QED
      BY <2>1, <2>2, <2>3 DEF Accounted
<1>4. ASSUME NEW g \in Goroutines, NEW p \in Relays, NEW e \in Events, Begin(g, p, e)
      PROVE Accounted(x)
  <2>1. task'[g].e = e /\ \A h \in Goroutines : h # g => task'[h] = task[h]
      BY <1>4 DEF Begin
  <2>2. waiting[p][e] > 0 /\ \A q \in Relays : waiting'[q][x] > 0 => waiting[q][x] > 0
      BY <1>4 DEF Begin
  <2>3. handled' = handled /\ lost' = lost
      BY <1>4 DEF Begin, fateVars
  <2> QED
      BY <2>1, <2>2, <2>3 DEF Accounted
<1>5. ASSUME NEW g \in Goroutines, Check(g) \/ Handle(g) \/ Mark(g) PROVE Accounted(x)
  <2>1. task[g].at # "idle" /\ waiting' = waiting /\ task[g].e \in Events
      BY <1>5, AtWork DEF Check, Handle, Mark
  <2>2. handled' \subseteq handled \cup {task[g].e} /\ lost' \subseteq lost \cup {task[g].e}
      BY <1>5 DEF Check, Handle, Mark, Failed, fateVars
  <2>3. \A h \in Goroutines : h # g => task'[h] = task[h]
      BY <1>5, <2>1, FailedKeeps DEF Check, Handle, Mark, Finish
  <2>4. task'[g].e \in {task[g].e, 0}
      BY <1>5, <2>1, AtWork, NoTaskFacts DEF Check, Handle, Mark, Failed, Finish
  <2>5. CASE x = task[g].e
      BY <2>5 DEF Accounted
  <2>6. CASE x # task[g].e
    <3>1. x # 0
        BY DEF Events
    <3> QED
        BY <2>1, <2>2, <2>3, <2>4, <2>6, <3>1 DEF Accounted
  <2> QED
      BY <2>5, <2>6
<1>6. ASSUME NEW e \in Events, Store(e) PROVE UNCHANGED <<waiting, task, handled, lost>>
    BY <1>6 DEF Store, taskVars, fateVars
<1>7. ASSUME NEW p \in Relays, Fetch(p) \/ MarkPublished(p) \/ Exit(p) \/ StopReturn(p) \/ Stop(p)
      PROVE UNCHANGED <<waiting, task, handled, lost>>
    BY <1>7 DEF Fetch, MarkPublished, Exit, StopReturn, Stop, taskVars, fateVars
<1>8. CASE UNCHANGED vars
    BY <1>1, <1>8 DEF vars, taskVars, fateVars
<1> QED
    BY <1>1, <1>2, <1>3, <1>4, <1>5, <1>6, <1>7, <1>8 DEF Next, RelayStep, TaskStep

\* A record that is there stays there, and becomes unsent by Store only.
LEMMA RowsStay ==
    ASSUME IInv, [Next]_vars, NEW x \in Events
    PROVE  /\ row[x] # "none" => row'[x] # "none"
           /\ row'[x] = "unsent" => row[x] \in {"none", "unsent"}
           /\ row[x] = "none" /\ row'[x] # "none" => UNCHANGED <<waiting, task, handled, lost>>
<1> USE DEF IInv, TypeOK
<1>1. ASSUME NEW e \in Events, Store(e)
      PROVE  /\ row[x] # "none" => row'[x] # "none"
             /\ row'[x] = "unsent" => row[x] \in {"none", "unsent"}
             /\ UNCHANGED <<waiting, task, handled, lost>>
    BY <1>1 DEF Store, taskVars, fateVars
<1>2. ASSUME NEW p \in Relays, MarkPublished(p)
      PROVE  /\ row[x] # "none" => row'[x] # "none"
             /\ row'[x] = "unsent" => row[x] = "unsent"
             /\ row[x] = "none" => row'[x] = "none"
  <2>1. x \in ids[p] => row[x] # "none"
      BY <1>2 DEF MarkPublished, RelayShape, BatchAccounted, AccountedAreStored
  <2> QED
      BY <1>2, <2>1 DEF MarkPublished, Marked, Batch
<1>3. ASSUME NEW p \in Relays, Fetch(p) \/ (\E f \in Events : PublishNext(p, f)) \/ Exit(p)
                                  \/ StopReturn(p) \/ Stop(p) \/ Crash(p)
      PROVE row' = row
    BY <1>3 DEF Fetch, PublishNext, Exit, StopReturn, Stop, Crash
<1>4. ASSUME NEW g \in Goroutines, TaskStep(g) PROVE row' = row
    BY <1>4 DEF TaskStep, Begin, Check, Handle, Mark
<1>5. row[x] \in {"none", "unsent", "published"}
    BY DEF States
<1>6. UNCHANGED vars => row' = row
    BY DEF vars
<1> QED
    BY <1>1, <1>2, <1>3, <1>4, <1>5, <1>6 DEF Next, RelayStep

\* What is accounted for is stored, since only stored events are sent.
LEMMA AccountedStoredPart ==
    ASSUME IInv, [Next]_vars
    PROVE  AccountedAreStored'
<1> SUFFICES ASSUME NEW e \in Events, Accounted(e)' PROVE row'[e] # "none"
    BY DEF AccountedAreStored
<1>1. CASE Accounted(e)
    BY <1>1, RowsStay DEF IInv, AccountedAreStored
<1>2. CASE \E p \in Relays : PublishNext(p, e)
  <2>1. row[e] # "none"
      BY <1>2 DEF PublishNext, IInv, SentAreStored
  <2> QED
      BY <2>1, RowsStay
<1> QED
    BY <1>1, <1>2, AccountedComes

\* A step is without failure or is counted as one.
LEMMA FaultsCount ==
    ASSUME [Next]_vars, TypeOK, faults' = 0
    PROVE  faults' = faults
<1> USE DEF TypeOK, Fault, NoFault
<1>1. ASSUME NEW p \in Relays, RelayStep(p) \/ Stop(p) \/ Crash(p) PROVE faults' = faults
    BY <1>1 DEF RelayStep, Fetch, PublishNext, MarkPublished, Exit, StopReturn, Stop, Crash
<1>2. ASSUME NEW g \in Goroutines, TaskStep(g) PROVE faults' = faults
    BY <1>2 DEF TaskStep, Begin, Check, Handle, Mark
<1>3. ASSUME NEW e \in Events, Store(e) PROVE faults' = faults
    BY <1>3 DEF Store
<1> QED
    BY <1>1, <1>2, <1>3 DEF Next, vars

\* An event that was sent leaves its batch by being marked, and a relay that
\* has stopped has no batch.
LEMMA UnmarkedPart ==
    ASSUME IInv, [Next]_vars
    PROVE  UnmarkedIsInHand'
<1> SUFFICES ASSUME faults' = 0, NEW e \in Events, row'[e] = "unsent", Accounted(e)'
             PROVE  \E p \in Relays \ returned' : e \in ids'[p] \ todo'[p]
    BY DEF UnmarkedIsInHand
<1> USE DEF IInv, TypeOK
<1>1. faults' = faults
    BY FaultsCount
<1>2. ASSUME NEW p \in Relays, PublishNext(p, e)
      PROVE  p \notin returned' /\ e \in ids'[p] \ todo'[p]
    BY <1>2 DEF PublishNext, RelayShape
<1>3. CASE ~\E p \in Relays : PublishNext(p, e)
  <2>1. Accounted(e)
      BY <1>3, AccountedComes
  <2>2. row[e] = "unsent"
      BY <2>1, RowsStay DEF AccountedAreStored
  <2>3. PICK p \in Relays \ returned : e \in ids[p] \ todo[p]
      BY <1>1, <2>1, <2>2 DEF UnmarkedIsInHand
  <2>4. ASSUME NEW q \in Relays, Fetch(q) PROVE p \notin returned' /\ e \in ids'[p] \ todo'[p]
      BY <2>3, <2>4 DEF Fetch, RelayShape
  <2>5. ASSUME NEW q \in Relays, NEW f \in Events, PublishNext(q, f)
        PROVE p \notin returned' /\ e \in ids'[p] \ todo'[p]
      BY <2>3, <2>5 DEF PublishNext
  <2>6. ASSUME NEW q \in Relays, MarkPublished(q) PROVE p \notin returned' /\ e \in ids'[p] \ todo'[p]
    <3>1. row' = Marked(q)
        BY <1>1, <2>6 DEF MarkPublished
    <3>2. p # q
        BY <2>3, <3>1 DEF Marked, Batch
    <3> QED
        BY <2>3, <2>6, <3>2 DEF MarkPublished
  <2>7. ASSUME NEW q \in Relays, Exit(q) \/ Stop(q) \/ StopReturn(q)
        PROVE p \notin returned' /\ e \in ids'[p] \ todo'[p]
      BY <2>3, <2>7 DEF Exit, Stop, StopReturn, LoopEnded, RelayShape
  <2>8. ASSUME NEW q \in Relays, Crash(q) PROVE FALSE
      BY <1>1, <2>8 DEF Crash, Fault
  <2>9. ASSUME UNCHANGED relayVars PROVE p \notin returned' /\ e \in ids'[p] \ todo'[p]
      BY <2>3, <2>9 DEF relayVars
  <2>10. ASSUME NEW f \in Events, Store(f) PROVE UNCHANGED relayVars
      BY <2>10 DEF Store
  <2>11. ASSUME NEW g \in Goroutines, TaskStep(g) PROVE UNCHANGED relayVars
      BY <2>11 DEF TaskStep, Begin, Check, Handle, Mark
  <2>12. UNCHANGED vars => UNCHANGED relayVars
      BY DEF vars
  <2> QED
      BY <2>4, <2>5, <2>6, <2>7, <2>8, <2>9, <2>10, <2>11, <2>12 DEF Next, RelayStep
<1> QED
    BY <1>2, <1>3

\* The invariant holds in every reachable state.
THEOREM Inductive == Spec => []IInv
<1>1. IInv /\ [Next]_vars => IInv'
    BY TypeStep, RelayPart, StoredPart, BatchPart, PublishedPart, SeenPart,
       AccountedStoredPart, UnmarkedPart DEF IInv
<1> QED
    BY InitIInv, <1>1, PTL DEF Spec

\* Every reachable state is well typed.
THEOREM TypeCorrect == Spec => []TypeOK
<1>1. IInv => TypeOK
    BY DEF IInv
<1> QED
    BY <1>1, Inductive, PTL

\* A published event is with a handler, was handled, or was lost for a cause.
THEOREM PublishedAccounted == Spec => []NothingVanishes
<1>1. IInv => NothingVanishes
    BY DEF IInv
<1> QED
    BY <1>1, Inductive, PTL

\* What the deduplication table holds was handled.
THEOREM DedupSound == Spec => []NotSkippedUnhandled
<1>1. IInv => NotSkippedUnhandled
    BY DEF IInv
<1> QED
    BY <1>1, Inductive, PTL

\* Without a failure, an event that was sent and is not marked is in the batch
\* of a relay whose connection is open: shutting processes down between or
\* during polls leaves nothing to be sent again.
THEOREM ShutdownLeavesNothing == Spec => []UnmarkedIsInHand
<1>1. IInv => UnmarkedIsInHand
    BY DEF IInv
<1> QED
    BY <1>1, Inductive, PTL

-----------------------------------------------------------------------------
(* The outbox implements OutboxPromise.                                    *)

\* The copies after a step of one goroutine, which keeps its event or ends.
LEMMA CopiesOfGoroutine ==
    ASSUME TypeOK, NEW g \in Goroutines, task[g].e \in Events,
           waiting' = waiting,
           \A h \in Goroutines : h # g => task'[h] = task[h],
           task'[g].e = task[g].e \/ task'[g].e = 0
    PROVE  /\ Promise!CopiesEnd({task[g].e})
           /\ task'[g].e = task[g].e => Copies' = Copies
<1>1. task[g].e \in Copies
    BY DEF Copies
<1>2. ASSUME NEW e \in Events
      PROVE  /\ e \in Copies' => e \in Copies
             /\ e \in Copies /\ (e # task[g].e \/ task'[g].e = task[g].e) => e \in Copies'
    BY DEF Copies, Events
<1> QED
    BY <1>1, <1>2 DEF Promise!CopiesEnd, Copies

\* Giving up is a loss, retrying changes nothing that a service relies on.
LEMMA FailedPromise ==
    ASSUME TypeOK, NEW g \in Goroutines, task[g].at # "idle", Failed(g),
           UNCHANGED <<row, waiting, handled, seen>>
    PROVE  [Promise!Next]_(Promise!vars)
<1>1. task[g].e \in Events /\ task[g] \in Tasks /\ DOMAIN task = Goroutines
    BY AtWork DEF TypeOK
<1>2. CASE MayRetry(g)
  <2>1. /\ task'[g].e = task[g].e
        /\ \A h \in Goroutines : h # g => task'[h] = task[h]
        /\ lost' = lost
      BY <1>1, <1>2, AtWork DEF Failed, TypeOK
  <2>2. Copies' = Copies
      BY <1>1, <2>1, CopiesOfGoroutine
  <2> QED
      BY <2>1, <2>2 DEF Promise!vars
<1>3. CASE ~MayRetry(g)
  <2>1. /\ task'[g].e = 0
        /\ \A h \in Goroutines : h # g => task'[h] = task[h]
        /\ lost' = lost \cup {task[g].e}
      BY <1>1, <1>3, NoTaskFacts DEF Failed, Finish
  <2>2. Promise!CopiesEnd({task[g].e})
      BY <1>1, <2>1, CopiesOfGoroutine
  <2>3. Promise!Lose({task[g].e})
      BY <2>1, <2>2 DEF Promise!Lose
  <2> QED
      BY <1>1, <2>3 DEF Promise!Next
<1> QED
    BY <1>2, <1>3

\* A step of a relay is a sending, a settling or nothing.
LEMMA RelayPromise ==
    ASSUME IInv, NEW p \in Relays, RelayStep(p) \/ Stop(p)
    PROVE  [Promise!Next]_(Promise!vars)
<1> USE DEF IInv, TypeOK
<1>1. ASSUME Fetch(p) \/ Exit(p) \/ StopReturn(p) \/ Stop(p)
      PROVE  [Promise!Next]_(Promise!vars)
  <2>1. UNCHANGED <<row, waiting, task, handled, lost, seen>>
      BY <1>1 DEF Fetch, Exit, StopReturn, Stop, taskVars, fateVars
  <2>2. Copies' = Copies
      BY <2>1 DEF Copies
  <2> QED
      BY <2>1, <2>2 DEF Promise!vars
<1>2. ASSUME NEW e \in Events, PublishNext(p, e) PROVE Promise!Next
  <2>1. UNCHANGED <<row, task, handled, seen>> /\ Promise!Stored(e)
      BY <1>2 DEF PublishNext, SentAreStored, Promise!Stored
  <2>2. CASE waiting' = [waiting EXCEPT ![p][e] = @ + 1] /\ UNCHANGED lost
    <3>1. \A q \in Relays, f \in Events :
            waiting'[q][f] > 0 <=> waiting[q][f] > 0 \/ (q = p /\ f = e)
        BY <2>2
    <3>2. Copies' = Copies \cup {e}
        BY <2>1, <3>1 DEF Copies
    <3> QED
        BY <2>1, <2>2, <3>2 DEF Promise!Next, Promise!Send
  <2>3. CASE lost' = lost \cup {e} /\ UNCHANGED waiting
    <3>1. Copies' = Copies
        BY <2>1, <2>3 DEF Copies
    <3> QED
        BY <2>1, <2>3, <3>1 DEF Promise!Next, Promise!Send
  <2> QED
      BY <1>2, <2>2, <2>3 DEF PublishNext
<1>3. ASSUME MarkPublished(p) PROVE [Promise!Next]_(Promise!vars)
  <2>1. UNCHANGED <<waiting, task, handled, lost, seen>>
      BY <1>3 DEF MarkPublished, taskVars, fateVars
  <2>2. Copies' = Copies
      BY <2>1 DEF Copies
  <2>3. ids[p] \subseteq Copies \cup handled \cup lost
      BY <1>3 DEF MarkPublished, RelayShape, BatchAccounted, Accounted, Copies
  <2>6. p \notin returned
      BY <1>3 DEF MarkPublished, RelayShape
  <2>4. CASE row' = [e \in Events |-> IF e \in ids[p] THEN "published" ELSE row[e]]
    <3>1. Promise!Settle(ids[p])
        BY <2>1, <2>2, <2>3, <2>4 DEF Promise!Settle
    <3> QED
        BY <3>1 DEF Promise!Next
  <2>5. CASE row' = row
      BY <2>1, <2>2, <2>5 DEF Promise!vars
  <2> QED
      BY <1>3, <2>4, <2>5, <2>6 DEF MarkPublished, Marked, Batch
<1> QED
    BY <1>1, <1>2, <1>3 DEF RelayStep

\* A process that dies loses the copies that waited or ran in it.
LEMMA CrashPromise ==
    ASSUME IInv, NEW p \in Relays, Crash(p)
    PROVE  [Promise!Next]_(Promise!vars)
<1> DEFINE cut == {g \in Goroutines : task[g] # NoTask /\ task[g].p = p}
           S == {e \in Events : waiting[p][e] > 0} \cup {task[g].e : g \in cut}
<1> USE DEF IInv, TypeOK
<1>1. UNCHANGED <<row, handled, seen>> /\ lost' = lost \cup S
    BY DEF Crash
<1>2. \A g \in cut : task[g].e \in Events
    BY DEF Tasks
<1>3. S \subseteq Copies
    BY <1>2 DEF Copies
<1>4. /\ \A q \in Relays, e \in Events : waiting'[q][e] = IF q = p THEN 0 ELSE waiting[q][e]
      /\ \A g \in Goroutines : task'[g] = IF g \in cut THEN NoTask ELSE task[g]
    BY DEF Crash
<1>5. Copies' \subseteq Copies
  <2> SUFFICES ASSUME NEW e \in Events, e \in Copies' PROVE e \in Copies
      BY DEF Copies
  <2>1. CASE \E q \in Relays : waiting'[q][e] > 0
      BY <1>4, <2>1 DEF Copies
  <2>2. ASSUME NEW g \in Goroutines, task'[g].e = e PROVE e \in Copies
    <3>1. task'[g] # NoTask
        BY <2>2, NoTaskFacts DEF Events
    <3> QED
        BY <1>4, <2>2, <3>1 DEF Copies
  <2> QED
      BY <2>1, <2>2 DEF Copies
<1>6. Copies \ S \subseteq Copies'
    BY <1>4 DEF Copies
<1>7. Promise!Lose(S)
    BY <1>1, <1>3, <1>5, <1>6 DEF Promise!Lose, Promise!CopiesEnd
<1>8. S \in SUBSET Events
    BY <1>3 DEF Copies
<1> QED
    BY <1>7, <1>8 DEF Promise!Next

\* A step of a handler goroutine handles its event, ends its copy or nothing.
LEMMA TaskPromise ==
    ASSUME IInv, NEW g \in Goroutines, TaskStep(g)
    PROVE  [Promise!Next]_(Promise!vars)
<1> USE DEF IInv
<1>1. ASSUME NEW p \in Relays, NEW e \in Events, Begin(g, p, e)
      PROVE  [Promise!Next]_(Promise!vars)
  <2>1. UNCHANGED <<row, handled, lost, seen>>
      BY <1>1 DEF Begin, fateVars
  <2>2. /\ task[g].e = 0 /\ task'[g].e = e
        /\ \A h \in Goroutines : h # g => task'[h] = task[h]
      BY <1>1, NoTaskFacts DEF Begin, TypeOK
  <2>3. /\ waiting[p][e] > 0
        /\ \A q \in Relays, f \in Events : waiting'[q][f] > 0 => waiting[q][f] > 0
        /\ \A q \in Relays, f \in Events : waiting[q][f] > 0 => waiting'[q][f] > 0 \/ f = e
      BY <1>1 DEF Begin, TypeOK
  <2>4. Copies' = Copies
      BY <2>2, <2>3 DEF Copies, Events
  <2> QED
      BY <2>1, <2>4 DEF Promise!vars
<1>2. ASSUME Check(g) PROVE [Promise!Next]_(Promise!vars)
  <2>1. UNCHANGED <<row, waiting, handled, seen>> /\ task[g].at # "idle"
      BY <1>2 DEF Check, relayVars
  <2>2. task[g].e \in Events /\ task[g] \in Tasks
      BY <2>1, AtWork DEF TypeOK
  <2>3. CASE task[g].e \in seen /\ Finish(g) /\ UNCHANGED lost
    <3>1. task'[g].e = 0 /\ \A h \in Goroutines : h # g => task'[h] = task[h]
        BY <2>3, NoTaskFacts DEF Finish, TypeOK
    <3>2. Promise!CopiesEnd({task[g].e})
        BY <2>1, <2>2, <3>1, CopiesOfGoroutine
    <3>3. Promise!Skip(task[g].e)
        BY <2>1, <2>3, <3>2 DEF Promise!Skip, NotSkippedUnhandled
    <3> QED
        BY <2>2, <3>3 DEF Promise!Next
  <2>4. CASE task' = [task EXCEPT ![g].at = "handle"] /\ UNCHANGED lost
    <3>1. task'[g].e = task[g].e /\ \A h \in Goroutines : h # g => task'[h] = task[h]
        BY <2>1, <2>4, AtWork DEF TypeOK
    <3>2. Copies' = Copies
        BY <2>1, <2>2, <3>1, CopiesOfGoroutine
    <3> QED
        BY <2>1, <2>4, <3>2 DEF Promise!vars
  <2>5. CASE Failed(g)
      BY <2>1, <2>5, FailedPromise
  <2> QED
      BY <1>2, <2>3, <2>4, <2>5 DEF Check
<1>3. ASSUME Handle(g) PROVE [Promise!Next]_(Promise!vars)
  <2>1. UNCHANGED <<row, waiting, seen>> /\ task[g].at # "idle"
      BY <1>3 DEF Handle, relayVars, SeenByHandler
  <2>2. task[g].e \in Events
      BY <2>1, AtWork
  <2>3. CASE /\ handled' = handled \cup {task[g].e}
             /\ task' = [task EXCEPT ![g].at = "mark"]
             /\ UNCHANGED lost
    <3>1. task'[g].e = task[g].e /\ \A h \in Goroutines : h # g => task'[h] = task[h]
        BY <2>1, <2>3, AtWork DEF TypeOK
    <3>2. Copies' = Copies
        BY <2>1, <2>2, <3>1, CopiesOfGoroutine
    <3>3. task[g].e \in Copies
        BY <2>2 DEF Copies
    <3>4. Promise!Handle(task[g].e)
        BY <2>1, <2>3, <3>2, <3>3 DEF Promise!Handle
    <3> QED
        BY <2>2, <3>4 DEF Promise!Next
  <2>4. CASE Failed(g) /\ UNCHANGED handled
      BY <2>1, <2>4, FailedPromise
  <2> QED
      BY <1>3, <2>3, <2>4 DEF Handle
<1>4. ASSUME Mark(g) PROVE [Promise!Next]_(Promise!vars)
  <2>1. UNCHANGED <<row, waiting, handled, lost>> /\ task[g].at = "mark"
      BY <1>4 DEF Mark, relayVars, fateVars
  <2>2. task[g].e \in Events /\ task[g].e \in handled
      BY <2>1, AtWork DEF MarksHandled
  <2>3. task'[g].e = 0 /\ \A h \in Goroutines : h # g => task'[h] = task[h]
      BY <1>4, NoTaskFacts DEF Mark, Finish, TypeOK
  <2>4. Promise!CopiesEnd({task[g].e})
      BY <2>1, <2>2, <2>3, CopiesOfGoroutine
  <2>5. Promise!Skip(task[g].e)
      BY <1>4, <2>1, <2>2, <2>4 DEF Mark, Promise!Skip
  <2> QED
      BY <2>2, <2>5 DEF Promise!Next
<1> QED
    BY <1>1, <1>2, <1>3, <1>4 DEF TaskStep

\* Every step of the outbox is one of the promise, or changes nothing of it.
LEMMA NextPromise ==
    ASSUME IInv, [Next]_vars
    PROVE  [Promise!Next]_(Promise!vars)
<1>1. ASSUME NEW e \in Events, Store(e) PROVE Promise!Next
  <2>1. UNCHANGED <<waiting, task, handled, lost, seen>>
      BY <1>1 DEF Store, taskVars, fateVars
  <2>2. Copies' = Copies
      BY <2>1 DEF Copies
  <2>3. Promise!Store(e)
      BY <1>1, <2>1, <2>2 DEF Store, Promise!Store, Promise!Stored
  <2> QED
      BY <2>3 DEF Promise!Next
<1>2. CASE UNCHANGED vars
    BY <1>2 DEF vars, taskVars, fateVars, Promise!vars, Copies
<1> QED
    BY <1>1, <1>2, RelayPromise, CrashPromise, TaskPromise DEF Next

\* Nothing is stored, on its way, handled or lost at first.
LEMMA InitPromise == Init => Promise!Init
<1> SUFFICES ASSUME Init PROVE Promise!Init
    OBVIOUS
<1>1. Copies = {}
    BY NoTaskFacts DEF Init, Copies, Events
<1> QED
    BY <1>1 DEF Init, Promise!Init

\* For any relays, events, batches, goroutines and failures, the outbox
\* delivers every stored event it marks at least once or records its loss.
THEOREM Implements == Spec => DeliversAtLeastOnce
<1>1. IInv /\ [Next]_vars => [Promise!Next]_(Promise!vars)
    BY NextPromise
<1> QED
    BY <1>1, InitPromise, Inductive, PTL DEF Spec, DeliversAtLeastOnce, Promise!Spec
=============================================================================
