------------------------------- MODULE Outbox -------------------------------
(***************************************************************************)
(* The transactional outbox (internal/events/outbox.go, relay.go,          *)
(* idempotency.go and the Postgres repositories): services store events in *)
(* a table, the relay of every process polls it, publishes what is unsent  *)
(* on its bus and marks it, and consumers skip what the deduplication      *)
(* table says was processed.                                               *)
(*                                                                         *)
(* SELECT ... FOR UPDATE SKIP LOCKED is a statement of its own, outside a  *)
(* transaction: its locks end with it, so a fetch is one step and leaves   *)
(* nothing locked.  A poll is a fetch, one publication per record and one  *)
(* UPDATE; a process can die between any two of them.                      *)
(*                                                                         *)
(* Events are numbered in the order of created_at; one handler consumes    *)
(* them, and a statement that fails without effect outside a poll is a     *)
(* stutter.  The producers and the use of WithIdempotency are those of the *)
(* documentation: the engine passes no outbox to the services it has       *)
(* already initialised, and wraps no handler.                              *)
(***************************************************************************)
EXTENDS Naturals, FiniteSets

CONSTANTS
    NumEvents,    \* bound: events stored
    Relays,       \* processes, each with a relay and a bus
    Goroutines,   \* bound: handler goroutines that run at the same time
    BatchSize,    \* records per poll
    MaxRetries,   \* attempts of one handler
    MaxFaults     \* bound: failures of MarkPublished, Exists and Mark, lost publications, crashes

ASSUME OutboxAssumption ==
    /\ NumEvents \in Nat
    /\ BatchSize \in Nat \ {0}
    /\ MaxRetries \in Nat \ {0}
    /\ MaxFaults \in Nat
    /\ Relays # {}

Events == 1..NumEvents

VARIABLES
    row,        \* row[e]: the outbox record of e
    relay,      \* relay[p]: where the relay of process p stands
    todo,       \* todo[p]: records of its batch not published yet
    ids,        \* ids[p]: records of its batch
    stopping,   \* processes whose Stop has closed stopCh
    returned,   \* processes whose Stop has returned
    waiting,    \* waiting[p][e]: handler goroutines for e not yet run in p
    task,       \* task[g]: what handler goroutine g is doing
    seen,       \* the table processed_events
    faults,     \* failures so far
    handled,    \* history: events whose handler has succeeded
    lost        \* history: events given up, or of which a copy was lost

relayVars == <<relay, todo, ids, stopping, returned>>
taskVars == <<waiting, task>>
fateVars == <<handled, lost>>
vars == <<row, relayVars, taskVars, seen, faults, fateVars>>

NoTask == [p |-> CHOOSE p \in Relays : TRUE, e |-> 0, at |-> "idle", tries |-> 0]

Fault == faults < MaxFaults /\ faults' = faults + 1
NoFault == UNCHANGED faults

Unsent == {e \in Events : row[e] = "unsent"}

\* The n oldest events of S.
Oldest(S, n) == {e \in S : Cardinality({f \in S : f < e}) < n}

-----------------------------------------------------------------------------
\* Producers and relays.

\* Store, in the transaction of a service.
Store(e) ==
    /\ row[e] = "none"
    /\ \A f \in 1..(e - 1) : row[f] # "none"
    /\ row' = [row EXCEPT ![e] = "unsent"]
    /\ UNCHANGED <<relayVars, taskVars, seen, faults, fateVars>>

\* poll: FetchUnsent.  A poll that finds nothing, or fails here, is a stutter.
Fetch(p) ==
    /\ relay[p] = "idle"
    /\ Unsent # {}
    /\ relay' = [relay EXCEPT ![p] = "publishing"]
    /\ todo' = [todo EXCEPT ![p] = Oldest(Unsent, BatchSize)]
    /\ ids' = [ids EXCEPT ![p] = Oldest(Unsent, BatchSize)]
    /\ UNCHANGED <<row, stopping, returned, taskVars, seen, faults, fateVars>>

\* poll: Publish of the next record.  It reports no failure.
PublishNext(p, e) ==
    /\ relay[p] = "publishing"
    /\ e \in todo[p]
    /\ \A f \in todo[p] : e <= f
    /\ \/ /\ NoFault
          /\ waiting' = [waiting EXCEPT ![p][e] = @ + 1]
          /\ UNCHANGED lost
       \/ /\ Fault
          /\ lost' = lost \cup {e}
          /\ UNCHANGED waiting
    /\ todo' = [todo EXCEPT ![p] = @ \ {e}]
    /\ relay' = [relay EXCEPT ![p] = IF todo[p] = {e} THEN "marking" ELSE "publishing"]
    /\ UNCHANGED <<row, ids, stopping, returned, task, seen, handled>>

\* Faulty variant: marks every record that is unsent now, published or not.
MarksUpToNow(p) == Unsent

Batch(p) == ids[p]

\* The table after MarkPublished of p.  Shutdown closes the connection of a
\* process when its Stop has returned: no statement has an effect then.
Marked(p) ==
    [e \in Events |-> IF e \in Batch(p) /\ p \notin returned THEN "published" ELSE row[e]]

\* Faulty variant: an error of a poll ends the loop.
EndsTheLoop == "stopped"

AfterFailedPoll == "idle"

\* poll: MarkPublished.  It can fail with or without effect.
MarkPublished(p) ==
    /\ relay[p] = "marking"
    /\ \/ NoFault /\ relay' = [relay EXCEPT ![p] = "idle"]
       \/ Fault /\ relay' = [relay EXCEPT ![p] = AfterFailedPoll]
    /\ \/ row' = Marked(p)
       \/ faults' # faults /\ UNCHANGED row
    /\ ids' = [ids EXCEPT ![p] = {}]
    /\ UNCHANGED <<todo, stopping, returned, taskVars, seen, fateVars>>

\* Stop: stopCh is closed.
Stop(p) ==
    /\ p \notin stopping
    /\ stopping' = stopping \cup {p}
    /\ UNCHANGED <<row, relay, todo, ids, returned, taskVars, seen, faults, fateVars>>

\* run: the select takes stopCh, between polls only.
Exit(p) ==
    /\ p \in stopping
    /\ relay[p] = "idle"
    /\ relay' = [relay EXCEPT ![p] = "stopped"]
    /\ UNCHANGED <<row, todo, ids, stopping, returned, taskVars, seen, faults, fateVars>>

\* Faulty variant: Stop does not wait for doneCh.
DoesNotWait(p) == TRUE

LoopEnded(p) == relay[p] = "stopped"

\* Stop returns, and Shutdown closes the database connection.
StopReturn(p) ==
    /\ p \in stopping \ returned
    /\ LoopEnded(p)
    /\ returned' = returned \cup {p}
    /\ UNCHANGED <<row, relay, todo, ids, stopping, taskVars, seen, faults, fateVars>>

-----------------------------------------------------------------------------
\* Handlers wrapped by WithIdempotency, on the goroutines of a bus.

Begin(g, p, e) ==
    /\ task[g] = NoTask
    /\ waiting[p][e] > 0
    /\ waiting' = [waiting EXCEPT ![p][e] = @ - 1]
    /\ task' = [task EXCEPT ![g] = [p |-> p, e |-> e, at |-> "check", tries |-> 1]]
    /\ UNCHANGED <<row, relayVars, seen, faults, fateVars>>

Finish(g) == task' = [task EXCEPT ![g] = NoTask]

\* Faulty variant: one attempt too many.
OneMoreTry(g) == task[g].tries <= MaxRetries

MayRetry(g) == task[g].tries < MaxRetries

\* The wrapped handler returned an error, as often as its attempts allow: the
\* bus runs it again or gives up.
Failed(g) ==
    IF MayRetry(g)
    THEN /\ task' = [task EXCEPT ![g].at = "check", ![g].tries = @ + 1]
         /\ UNCHANGED lost
    ELSE /\ Finish(g)
         /\ lost' = lost \cup {task[g].e}

\* store.Exists.  A row that fails to arrive counts as none, since rows.Err is
\* not read: the event is handled again.
Check(g) ==
    /\ task[g].at = "check"
    /\ \/ task[g].e \in seen /\ NoFault /\ Finish(g) /\ UNCHANGED lost
       \/ /\ \/ task[g].e \notin seen /\ NoFault
             \/ task[g].e \in seen /\ Fault
          /\ task' = [task EXCEPT ![g].at = "handle"]
          /\ UNCHANGED lost
       \/ NoFault /\ Failed(g)
    /\ UNCHANGED <<row, relayVars, waiting, seen, handled>>

\* Faulty variant: the event is marked before its handler runs.
MarksFirst(e) == seen \cup {e}

SeenByHandler(e) == seen

\* The handler itself; it can fail before or after its effects.
Handle(g) ==
    /\ task[g].at = "handle"
    /\ seen' = SeenByHandler(task[g].e)
    /\ \/ /\ handled' = handled \cup {task[g].e}
          /\ task' = [task EXCEPT ![g].at = "mark"]
          /\ UNCHANGED lost
       \/ /\ Failed(g)
          /\ UNCHANGED handled
    /\ UNCHANGED <<row, relayVars, waiting, faults>>

\* store.Mark: an error of it is logged only.
Mark(g) ==
    /\ task[g].at = "mark"
    /\ \/ NoFault /\ seen' = seen \cup {task[g].e}
       \/ Fault /\ UNCHANGED seen
    /\ Finish(g)
    /\ UNCHANGED <<row, relayVars, waiting, fateVars>>

\* Process p dies and, unless it was being shut down, starts again.
Crash(p) ==
    LET dying == {e \in Events : waiting[p][e] > 0}
        cut == {g \in Goroutines : task[g] # NoTask /\ task[g].p = p}
    IN  /\ Fault
        /\ lost' = lost \cup dying \cup {task[g].e : g \in cut}
        /\ waiting' = [waiting EXCEPT ![p] = [e \in Events |-> 0]]
        /\ task' = [g \in Goroutines |-> IF g \in cut THEN NoTask ELSE task[g]]
        /\ relay' = [relay EXCEPT ![p] = IF p \in stopping THEN "stopped" ELSE "idle"]
        /\ todo' = [todo EXCEPT ![p] = {}]
        /\ ids' = [ids EXCEPT ![p] = {}]
        /\ UNCHANGED <<row, stopping, returned, seen, handled>>

-----------------------------------------------------------------------------
Init ==
    /\ row = [e \in Events |-> "none"]
    /\ relay = [p \in Relays |-> "idle"]
    /\ todo = [p \in Relays |-> {}]
    /\ ids = [p \in Relays |-> {}]
    /\ stopping = {}
    /\ returned = {}
    /\ waiting = [p \in Relays |-> [e \in Events |-> 0]]
    /\ task = [g \in Goroutines |-> NoTask]
    /\ seen = {}
    /\ faults = 0
    /\ handled = {}
    /\ lost = {}

RelayStep(p) ==
    \/ Fetch(p)
    \/ \E e \in Events : PublishNext(p, e)
    \/ MarkPublished(p)
    \/ Exit(p)
    \/ StopReturn(p)

TaskStep(g) ==
    \/ \E p \in Relays, e \in Events : Begin(g, p, e)
    \/ Check(g)
    \/ Handle(g)
    \/ Mark(g)

Next ==
    \/ \E e \in Events : Store(e)
    \/ \E p \in Relays : RelayStep(p) \/ Stop(p) \/ Crash(p)
    \/ \E g \in Goroutines : TaskStep(g)

Spec == Init /\ [][Next]_vars

\* The ticker fires again and again and a goroutine runs to its end; nobody
\* has to store an event, to stop a process or to fail.
Fairness ==
    /\ \A p \in Relays : WF_vars(RelayStep(p))
    /\ \A g \in Goroutines : WF_vars(TaskStep(g))

FairSpec == Spec /\ Fairness

-----------------------------------------------------------------------------
\* Properties.

States == {"none", "unsent", "published"}

Tasks == {NoTask} \cup
    [p : Relays, e : Events, at : {"check", "handle", "mark"}, tries : 1..MaxRetries]

\* Types: a batch holds stored events only, and no handler goroutine is at an
\* attempt beyond MaxRetries.
TypeOK ==
    /\ row \in [Events -> States]
    /\ relay \in [Relays -> {"idle", "publishing", "marking", "stopped"}]
    /\ todo \in [Relays -> SUBSET Events]
    /\ ids \in [Relays -> SUBSET Events]
    /\ stopping \subseteq Relays
    /\ returned \subseteq Relays
    /\ waiting \in [Relays -> [Events -> Nat]]
    /\ task \in [Goroutines -> Tasks]
    /\ seen \subseteq Events
    /\ faults \in 0..MaxFaults
    /\ handled \subseteq Events
    /\ lost \subseteq Events

\* Where an event that was published can be.
Accounted(e) ==
    \/ \E p \in Relays : waiting[p][e] > 0
    \/ \E g \in Goroutines : task[g].e = e
    \/ e \in handled \cup lost

\* A record marked as published is never forgotten without a cause: its event
\* waits for a handler, is being handled, was handled, was given up after
\* MaxRetries attempts or was lost with a process or a publication.  The relay
\* marks a whole batch, after publishing it, while others store and mark.
NothingVanishes ==
    \A e \in Events : row[e] = "published" => Accounted(e)

\* The deduplication table never hides an event from its handler: what it
\* holds was handled to the end, whatever failed or was published twice.
NotSkippedUnhandled == seen \subseteq handled

\* Without a failure an event that has been sent stays unmarked only while a
\* relay that can still mark it holds it in its batch: Stop waits for the poll
\* it interrupts, and Shutdown closes the connection after it, so a process that
\* is shut down leaves no event to be sent again when it comes back.
UnmarkedIsInHand ==
    faults = 0 =>
        \A e \in Events : row[e] = "unsent" /\ Accounted(e) =>
            \E p \in Relays \ returned : e \in ids[p] \ todo[p]

\* A stored event is published unless every process is being shut down: a poll
\* that fails or dies is followed by another one.
EventuallyPublished ==
    \A e \in Events : row[e] = "unsent" ~> (row[e] = "published" \/ stopping = Relays)

(***************************************************************************)
(* The outbox implements OutboxPromise: whatever relays of other processes *)
(* fetch, publish and mark in between, an event is delivered at least once *)
(* or its loss is recorded, nothing is sent before it is stored, and a     *)
(* duplicate is dropped only when its event has been handled.              *)
(***************************************************************************)
Copies ==
    {e \in Events : \/ \E p \in Relays : waiting[p][e] > 0
                    \/ \E g \in Goroutines : task[g].e = e}

Promise == INSTANCE OutboxPromise WITH record <- row, copies <- Copies, known <- seen

DeliversAtLeastOnce == Promise!Spec

\* What outbox.go says of concurrent relays: no two of them have fetched the
\* same record and are about to publish it.
BatchesDisjoint ==
    \A p, q \in Relays : p # q => todo[p] \cap todo[q] = {}
=============================================================================
