------------------------------ MODULE LocalBus ------------------------------
(***************************************************************************)
(* LocalEventBus (internal/events/bus.go): publishing to goroutines that   *)
(* retry their handler, dead-lettering, and closing.                       *)
(*                                                                         *)
(* The mutex is never held across a call that can block, so each of its    *)
(* critical sections is one step.  What happens between them is not:       *)
(* PublishCtx checks the bus before Publish checks it again, the           *)
(* goroutines of a publication start after the lock is released, and Close *)
(* waits for them without it.                                              *)
(*                                                                         *)
(* One topic is modelled: topics share nothing but the closed flag, the    *)
(* wait group and the dead-letter channel, and events differ from each     *)
(* other here as topics would.  An event is published once, by the         *)
(* goroutine of the same name.  Backoff is time, and not modelled.  A      *)
(* handler that panics fails (executeHandler).  The second recover, around *)
(* the retry loop, is there for a send on the closed channel, which        *)
(* DLQClosedLast shows cannot happen.                                      *)
(***************************************************************************)
EXTENDS Naturals, FiniteSets

CONSTANTS
    Events,       \* events, and the goroutines that publish them
    Handlers,     \* handlers that may be subscribed
    Closers,      \* goroutines that call Close
    MaxRetries,   \* RetryConfig.MaxRetries
    DLQSize       \* LocalBusConfig.DLQBufferSize

ASSUME BusAssumption ==
    /\ IsFiniteSet(Events)
    /\ IsFiniteSet(Handlers)
    /\ MaxRetries \in Nat \ {0}
    /\ DLQSize \in Nat \ {0}

VARIABLES
    subscribers,   \* handlers registered for the topic
    closed,        \* b.closed
    wg,            \* counter of the wait group b.wg
    dlq,           \* events in the channel b.dlq
    dlqClosed,     \* b.dlq has been closed
    publisher,     \* publisher[e]: where the publication of e stands
    run,           \* run[d]: where the goroutine of delivery d stands
    tries,         \* tries[d]: its current attempt
    released,      \* deliveries whose goroutine has called wg.Done
    closer         \* closer[c]: where a call of Close stands

vars == <<subscribers, closed, wg, dlq, dlqClosed, publisher, run, tries, released, closer>>

\* One event for one handler, and the goroutine that runs it.
Deliveries == Events \X Handlers

\* "slot": counted in the wait group, goroutine not started yet.
RunStates == {"none", "slot", "running", "exhausted", "handled", "givenUp"}

\* Deliveries counted in the wait group.
Held == {d \in Deliveries : run[d] # "none" /\ d \notin released}

Subscribe(h) ==
    /\ ~closed
    /\ h \notin subscribers
    /\ subscribers' = subscribers \cup {h}
    /\ UNCHANGED <<closed, wg, dlq, dlqClosed, publisher, run, tries, released, closer>>

\* PublishCtx up to its call of Publish; it returns an error if the context
\* has ended or the bus is closed.
CheckOpen(e) ==
    /\ publisher[e] = "new"
    /\ \/ ~closed /\ publisher' = [publisher EXCEPT ![e] = "checked"]
       \/ publisher' = [publisher EXCEPT ![e] = "dropped"]
    /\ UNCHANGED <<subscribers, closed, wg, dlq, dlqClosed, run, tries, released, closer>>

\* Faulty variant: PublishCtx has checked already.
AcceptsIfChecked(e) == publisher[e] = "checked" \/ ~closed

Accepts(e) == ~closed

(***************************************************************************)
(* Publish under the read lock: copy the handlers and take a slot of the   *)
(* wait group for each; or drop the event.                                 *)
(***************************************************************************)
Publish(e) ==
    /\ publisher[e] \in {"new", "checked"}
    /\ IF Accepts(e) /\ subscribers # {}
       THEN /\ publisher' = [publisher EXCEPT ![e] = "accepted"]
            /\ run' = [d \in Deliveries |-> IF d \in {e} \X subscribers THEN "slot" ELSE run[d]]
            /\ wg' = wg + Cardinality(subscribers)
       ELSE /\ publisher' = [publisher EXCEPT ![e] = "dropped"]
            /\ UNCHANGED <<run, wg>>
    /\ UNCHANGED <<subscribers, closed, dlq, dlqClosed, tries, released, closer>>

\* The go statement, after the lock has been released.
Launch(d) ==
    /\ publisher[d[1]] = "accepted"
    /\ run[d] = "slot"
    /\ run' = [run EXCEPT ![d] = "running"]
    /\ tries' = [tries EXCEPT ![d] = 1]
    /\ UNCHANGED <<subscribers, closed, wg, dlq, dlqClosed, publisher, released, closer>>

\* Faulty variant: one attempt too many.
RetriesOnceMore(n) == n <= MaxRetries

MoreAttempts(n) == n < MaxRetries

\* An attempt of invokeHandlerWithRetry.
Attempt(d) ==
    /\ run[d] = "running"
    /\ \/ run' = [run EXCEPT ![d] = "handled"] /\ UNCHANGED tries
       \/ /\ MoreAttempts(tries[d])
          /\ tries' = [tries EXCEPT ![d] = @ + 1]
          /\ UNCHANGED run
       \/ /\ ~MoreAttempts(tries[d])
          /\ run' = [run EXCEPT ![d] = "exhausted"]
          /\ UNCHANGED tries
    /\ UNCHANGED <<subscribers, closed, wg, dlq, dlqClosed, publisher, released, closer>>

\* Faulty variant: a handled event is dead-lettered as well.
GivesUpAnyway(d) == run[d] \in {"exhausted", "handled"}

GivesUp(d) == run[d] = "exhausted"

\* sendToDLQ: a full channel drops the event.
SendToDLQ(d) ==
    /\ GivesUp(d)
    /\ run' = [run EXCEPT ![d] = "givenUp"]
    /\ dlq' = IF dlq < DLQSize THEN dlq + 1 ELSE dlq
    /\ UNCHANGED <<subscribers, closed, wg, dlqClosed, publisher, tries, released, closer>>

\* Whoever reads DLQ(); external.
ReadDLQ ==
    /\ dlq > 0
    /\ dlq' = dlq - 1
    /\ UNCHANGED <<subscribers, closed, wg, dlqClosed, publisher, run, tries, released, closer>>

\* Faulty variant: the slot is given back after a success only.
EndsIfHandled(d) == run[d] = "handled"

Ended(d) == run[d] \in {"handled", "givenUp"}

\* The deferred wg.Done of the goroutine.
Done(d) ==
    /\ Ended(d)
    /\ d \notin released
    /\ released' = released \cup {d}
    /\ wg' = wg - 1
    /\ UNCHANGED <<subscribers, closed, dlq, dlqClosed, publisher, run, tries, closer>>

\* Close under the lock: only the first caller goes on.
Close(c) ==
    /\ closer[c] = "idle"
    /\ closed' = TRUE
    /\ closer' = [closer EXCEPT ![c] = IF closed THEN "returned" ELSE "waiting"]
    /\ UNCHANGED <<subscribers, wg, dlq, dlqClosed, publisher, run, tries, released>>

\* wg.Wait.
Wait(c) ==
    /\ closer[c] = "waiting"
    /\ wg = 0
    /\ closer' = [closer EXCEPT ![c] = "drained"]
    /\ UNCHANGED <<subscribers, closed, wg, dlq, dlqClosed, publisher, run, tries, released>>

HasWaited(c) == closer[c] = "drained"

\* close(b.dlq)
CloseDLQ(c) ==
    /\ HasWaited(c)
    /\ dlqClosed' = TRUE
    /\ closer' = [closer EXCEPT ![c] = "returned"]
    /\ UNCHANGED <<subscribers, closed, wg, dlq, publisher, run, tries, released>>

Init ==
    /\ subscribers = {}
    /\ closed = FALSE
    /\ wg = 0
    /\ dlq = 0
    /\ dlqClosed = FALSE
    /\ publisher = [e \in Events |-> "new"]
    /\ run = [d \in Deliveries |-> "none"]
    /\ tries = [d \in Deliveries |-> 0]
    /\ released = {}
    /\ closer = [c \in Closers |-> "idle"]

Next ==
    \/ \E h \in Handlers : Subscribe(h)
    \/ \E e \in Events : CheckOpen(e) \/ Publish(e)
    \/ \E d \in Deliveries : Launch(d) \/ Attempt(d) \/ SendToDLQ(d) \/ Done(d)
    \/ ReadDLQ
    \/ \E c \in Closers : Close(c) \/ Wait(c) \/ CloseDLQ(c)

Spec == Init /\ [][Next]_vars

(***************************************************************************)
(* The scheduler runs every goroutine that can run, and handlers return:   *)
(* the ones of this program give their work a context with a deadline.     *)
(* Nothing makes an event be published, or the bus be closed.              *)
(***************************************************************************)
Fairness ==
    /\ \A d \in Deliveries : /\ WF_vars(Launch(d))
                             /\ WF_vars(Attempt(d))
                             /\ WF_vars(SendToDLQ(d))
                             /\ WF_vars(Done(d))
    /\ \A c \in Closers : WF_vars(Wait(c)) /\ WF_vars(CloseDLQ(c))

FairSpec == Spec /\ Fairness

-----------------------------------------------------------------------------
(***************************************************************************)
(* Types of the variables.                                                 *)
(***************************************************************************)
TypeOK ==
    /\ subscribers \subseteq Handlers
    /\ closed \in BOOLEAN
    /\ wg \in Nat
    /\ dlq \in 0..DLQSize
    /\ dlqClosed \in BOOLEAN
    /\ publisher \in [Events -> {"new", "checked", "dropped", "accepted"}]
    /\ run \in [Deliveries -> RunStates]
    /\ tries \in [Deliveries -> 0..MaxRetries]
    /\ released \subseteq Deliveries
    /\ closer \in [Closers -> {"idle", "waiting", "drained", "returned"}]

(***************************************************************************)
(* The dead-letter channel is closed last and once: after that no          *)
(* goroutine can still send to it and no call of Close can close it again, *)
(* which would both panic.                                                 *)
(***************************************************************************)
DLQClosedLast ==
    dlqClosed => /\ \A d \in Deliveries : run[d] \in {"none", "handled", "givenUp"}
                 /\ \A c \in Closers : closer[c] \notin {"waiting", "drained"}

(***************************************************************************)
(* Close never waits for a moving target: once the bus is closed no slot   *)
(* of the wait group is taken any more, not even by a PublishCtx that      *)
(* found it open.                                                          *)
(***************************************************************************)
NoLateSlot == [][closed => wg' <= wg]_vars

\* Both: Close waits for a number that only falls, and closes the channel after it is zero.
ShutsDownInOrder == []DLQClosedLast /\ NoLateSlot

(***************************************************************************)
(* Everyone who calls Close gets an answer, whatever the handlers do.      *)
(***************************************************************************)
CloseReturns == \A c \in Closers : (closer[c] # "idle") ~> (closer[c] = "returned")

(***************************************************************************)
(* The bus implements EventPromise: every accepted delivery ends exactly   *)
(* once, nothing is accepted after Close, and the bus is drained only when *)
(* nothing is left.                                                        *)
(***************************************************************************)
Promised ==
    [d \in Deliveries |->
        CASE run[d] = "none" -> "no"
          [] run[d] \in {"slot", "running", "exhausted"} -> "accepted"
          [] OTHER -> run[d]]

Promise == INSTANCE EventPromise WITH promised <- Promised, open <- ~closed, drained <- dlqClosed

KeepsPromise == Promise!FairSpec

=============================================================================
