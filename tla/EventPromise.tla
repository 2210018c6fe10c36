---------------------------- MODULE EventPromise ----------------------------
(***************************************************************************)
(* What LocalEventBus promises to those who use it, without goroutines,    *)
(* locks or counters: a delivery is one event for one handler.  While the  *)
(* bus is open a publication is accepted for a set of handlers at once.    *)
(* Every accepted delivery ends, exactly once, handled or given up.  After *)
(* the bus is shut nothing is accepted, and it is drained only when        *)
(* nothing is left to end.                                                 *)
(***************************************************************************)

CONSTANT Deliveries

VARIABLES
    promised,   \* promised[d]: how far the promise to d has got
    open,       \* publications are accepted
    drained     \* the bus has been closed for good

vars == <<promised, open, drained>>

Accept(D) ==
    /\ open
    /\ D # {}
    /\ \A d \in D : promised[d] = "no"
    /\ promised' = [d \in Deliveries |-> IF d \in D THEN "accepted" ELSE promised[d]]
    /\ UNCHANGED <<open, drained>>

End(d, outcome) ==
    /\ promised[d] = "accepted"
    /\ promised' = [promised EXCEPT ![d] = outcome]
    /\ UNCHANGED <<open, drained>>

Shut ==
    /\ open
    /\ open' = FALSE
    /\ UNCHANGED <<promised, drained>>

Drain ==
    /\ ~open
    /\ ~drained
    /\ \A d \in Deliveries : promised[d] # "accepted"
    /\ drained' = TRUE
    /\ UNCHANGED <<promised, open>>

Init ==
    /\ promised = [d \in Deliveries |-> "no"]
    /\ open = TRUE
    /\ drained = FALSE

Next ==
    \/ \E D \in SUBSET Deliveries : Accept(D)
    \/ \E d \in Deliveries, outcome \in {"handled", "givenUp"} : End(d, outcome)
    \/ Shut
    \/ Drain

Spec == Init /\ [][Next]_vars

Fairness ==
    /\ \A d \in Deliveries : WF_vars(\E outcome \in {"handled", "givenUp"} : End(d, outcome))
    /\ WF_vars(Drain)

FairSpec == Spec /\ Fairness
=============================================================================
