---------------------------- MODULE OutboxPromise ----------------------------
(***************************************************************************)
(* What a service that stores its events in the outbox may rely on, with   *)
(* neither relays, batches and goroutines nor counts: delivery at least    *)
(* once.  A stored event is sent to its handler any number of times, and   *)
(* its record is set to published only after a sending of it.  A copy on   *)
(* its way disappears only because the event has been handled, or with a   *)
(* loss that is recorded: the handler gave up, a process died, the bus     *)
(* dropped it.  Consumers learn to skip only what was handled.             *)
(***************************************************************************)

CONSTANT Events

VARIABLES
    record,     \* record[e]: "none", "unsent" or "published"
    copies,     \* events of which a copy is on its way or with a handler
    handled,    \* events whose handler has succeeded
    lost,       \* events of which a copy was lost
    known       \* events that consumers skip

vars == <<record, copies, handled, lost, known>>

Stored(e) == record[e] # "none"

\* e is stored with the data of a service.
Store(e) ==
    /\ ~Stored(e)
    /\ record' = [record EXCEPT ![e] = "unsent"]
    /\ UNCHANGED <<copies, handled, lost, known>>

\* A copy of e is on its way, or lost at once.
Send(e) ==
    /\ Stored(e)
    /\ \/ copies' = copies \cup {e} /\ UNCHANGED lost
       \/ lost' = lost \cup {e} /\ UNCHANGED copies
    /\ UNCHANGED <<record, handled, known>>

\* The records of S, each of which has been sent, need no further sending.
Settle(S) ==
    /\ S \subseteq copies \cup handled \cup lost
    /\ record' = [e \in Events |-> IF e \in S THEN "published" ELSE record[e]]
    /\ UNCHANGED <<copies, handled, lost, known>>

Handle(e) ==
    /\ e \in copies
    /\ handled' = handled \cup {e}
    /\ UNCHANGED <<record, copies, lost, known>>

\* The last copies of S end; other copies of the same events can remain.
CopiesEnd(S) ==
    /\ S \subseteq copies
    /\ copies \ S \subseteq copies'
    /\ copies' \subseteq copies

\* A copy of a handled event ends, and consumers may skip it from now on.
Skip(e) ==
    /\ e \in handled
    /\ CopiesEnd({e})
    /\ known' \in {known, known \cup {e}}
    /\ UNCHANGED <<record, handled, lost>>

Lose(S) ==
    /\ CopiesEnd(S)
    /\ lost' = lost \cup S
    /\ UNCHANGED <<record, handled, known>>

Init ==
    /\ record = [e \in Events |-> "none"]
    /\ copies = {}
    /\ handled = {}
    /\ lost = {}
    /\ known = {}

Next ==
    \/ \E e \in Events : Store(e) \/ Send(e) \/ Handle(e) \/ Skip(e)
    \/ \E S \in SUBSET Events : Settle(S) \/ Lose(S)

Spec == Init /\ [][Next]_vars
=============================================================================
