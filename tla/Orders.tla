------------------------------- MODULE Orders -------------------------------
(***************************************************************************)
(* The order service (internal/core/orders) over the orders table, in the  *)
(* direct-publish mode every deployment runs in: the modules receive a nil *)
(* outbox, because the engine sets it after their Init.                    *)
(*                                                                         *)
(* TransitionOrder reads the row, computes the next status in memory,      *)
(* writes the whole row back without a condition and then publishes.  The  *)
(* three are separate steps here, and other goroutines run between them.   *)
(* The customer, the total and the items are left out.                     *)
(***************************************************************************)
EXTENDS EventDelivery

VARIABLES
    order,   \* order[o]: the status column, "none" before the row exists
    held,    \* history: every status the row of o has held
    manual   \* history: orders whose status an admin wrote with "pay"

orderVars == <<order, held, manual>>

\* Faulty variant: the state machine lets a pending order ship.
ShipUnpaid == { <<"pending", "pay", "paid">>,
                <<"pending", "ship", "shipped">>,
                <<"pending", "cancel", "canceled">>,
                <<"paid", "ship", "shipped">>,
                <<"paid", "cancel", "canceled">>,
                <<"shipped", "complete", "done">> }

\* OrderStateMachine.Transition as a relation: from, action, to.
Transitions == { <<"pending", "pay", "paid">>,
                 <<"pending", "cancel", "canceled">>,
                 <<"paid", "ship", "shipped">>,
                 <<"paid", "cancel", "canceled">>,
                 <<"shipped", "complete", "done">> }

Actions == {"pay", "cancel", "ship", "complete"}

CreateOrder(o) ==
    /\ order[o] = "none"
    /\ order' = [order EXCEPT ![o] = "pending"]
    /\ held' = [held EXCEPT ![o] = {"pending"}]
    /\ UNCHANGED <<manual, deliveryVars>>

\* Faulty variant: publishes the event of a transition without writing it.
PublishUnwritten(w, o, a) ==
    /\ \E to \in OrderStatus :
          /\ <<order[o], a, to>> \in Transitions
          /\ Request(w, [Idle EXCEPT
                           !.op = IF a = "pay" THEN "manualPay" ELSE "transition",
                           !.order = o, !.at = "orderPublish", !.status = to])
    /\ UNCHANGED <<faults, orderVars>>

(***************************************************************************)
(* TransitionOrder up to its write, for a request: the customer's cancel   *)
(* or any action of an admin.  A transition the state machine refuses is   *)
(* answered with an error and changes nothing, so it is no step here.      *)
(***************************************************************************)
TransitionRequest(w, o, a) ==
    /\ \E to \in OrderStatus :
          /\ <<order[o], a, to>> \in Transitions
          /\ Request(w, [Idle EXCEPT
                           !.op = IF a = "pay" THEN "manualPay" ELSE "transition",
                           !.order = o, !.at = "orderUpdate", !.status = to])
    /\ UNCHANGED <<faults, orderVars>>

\* handlePaymentSucceeded: TransitionOrder with "pay", up to its write.
HandlePaymentSucceeded(w) ==
    LET o == proc[w].order IN
    /\ proc[w].op = "onPaid"
    /\ proc[w].at = "start"
    /\ \/ /\ <<order[o], "pay", "paid">> \in Transitions
          /\ proc' = [proc EXCEPT ![w].at = "orderUpdate", ![w].status = "paid"]
          /\ UNCHANGED dead
          /\ NoFault
       \/ /\ <<order[o], "pay", "paid">> \notin Transitions
          /\ Fail(w)
          /\ NoFault
       \/ Fault /\ Fail(w)
    /\ UNCHANGED <<spawned, requests, orderVars>>

\* The UPDATE statement: the status read earlier decides what is written.
WriteStatus(w) ==
    LET p == proc[w] IN
    /\ order' = [order EXCEPT ![p.order] = p.status]
    /\ held' = [held EXCEPT ![p.order] = @ \cup {p.status}]
    /\ manual' = IF p.op = "manualPay" THEN manual \cup {p.order} ELSE manual

(***************************************************************************)
(* OrderRepository.Update outside a transaction: UPDATE of the row, then   *)
(* DELETE and INSERT of the items.  It can fail before the row is written, *)
(* or after it: then the status has changed, the caller gets an error and  *)
(* nothing is published.                                                   *)
(***************************************************************************)
UpdateOrder(w) ==
    /\ proc[w].at = "orderUpdate"
    /\ \/ /\ WriteStatus(w)
          /\ Goto(w, "orderPublish")
          /\ UNCHANGED dead
          /\ NoFault
       \/ /\ Fault
          /\ UNCHANGED orderVars
          /\ Fail(w)
       \/ /\ Fault
          /\ WriteStatus(w)
          /\ Fail(w)
    /\ UNCHANGED <<spawned, requests>>

\* order.paid is only logged by the notifications handler.
PublishTransition(w) ==
    /\ proc[w].at = "orderPublish"
    /\ IF proc[w].status = "canceled"
       THEN Publish("order.cancelled", proc[w].order)
       ELSE UNCHANGED spawned
    /\ Finish(w)
    /\ UNCHANGED <<dead, requests, faults, orderVars>>

OrdersInit ==
    /\ order = [o \in Orders |-> "none"]
    /\ held = [o \in Orders |-> {}]
    /\ manual = {}

OrdersTypeOK ==
    /\ order \in [Orders -> OrderStatus \cup {"none"}]
    /\ held \in [Orders -> SUBSET OrderStatus]
    /\ manual \subseteq Orders
=============================================================================
