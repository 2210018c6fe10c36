------------------------------ MODULE Payments ------------------------------
(***************************************************************************)
(* The payment service (internal/core/payments) over the payments table    *)
(* and the payment provider.                                               *)
(*                                                                         *)
(* Every operation reads the row, calls the provider or writes, each a     *)
(* separate step; the writes carry no condition on what was read.  The     *)
(* table holds at most one payment per order (uq_payments_order_id).       *)
(*                                                                         *)
(* The provider is external.  A call can fail without effect, or take      *)
(* effect and still be reported as failed, as when the context's deadline  *)
(* (getProviderTimeout) passes first.  A database read can fail with an    *)
(* error, or come back empty: the repositories take rows.Next() = false    *)
(* for "not found" without asking rows.Err().                              *)
(***************************************************************************)
EXTENDS Orders

CONSTANT IntentStatuses   \* statuses a provider gives a new intent

ASSUME PaymentAssumption == IntentStatuses \subseteq {"pending", "succeeded", "failed"}

VARIABLES
    pay,      \* pay[o]: status and provider intent of the row for order o
    intent,   \* intent[i]: what the provider knows of intent i
    unacked   \* history: orders whose row was written "succeeded" by a
              \* statement that was reported as failed

paymentVars == <<pay, intent, unacked>>

PaymentRow == [status : PaymentStatus \cup {"none"}, intent : Intents \cup {NoIntent}]
ProviderIntent == [order : Orders \cup {None}, captured : BOOLEAN, refunds : Nat]

NoPayment == [status |-> "none", intent |-> NoIntent]
NoSuchIntent == [order |-> None, captured |-> FALSE, refunds |-> 0]

Fresh(i) == intent[i].order = None /\ \A j \in Intents : j < i => intent[j].order # None

\* The amount column and the intent never change, so a write is its status.
WritePayment(o, s) == pay' = [pay EXCEPT ![o].status = s]

\* The statement took effect and its answer was lost.
Unacknowledged(o, s) ==
    unacked' = IF s = "succeeded" THEN unacked \cup {o} ELSE unacked

-----------------------------------------------------------------------------
(***************************************************************************)
(* CreatePaymentIntent.  An existing row that is pending or succeeded is   *)
(* returned as it is, which changes nothing; otherwise the order's status  *)
(* is checked, the provider creates an intent and the row is inserted.     *)
(***************************************************************************)
Reattempted(s) == s \in {"failed", "refund_failed"}

CreatePaymentIntent(w, o) ==
    /\ \/ /\ pay[o].status \notin {"pending", "succeeded"}
          /\ Request(w, [Idle EXCEPT
                !.op = IF Reattempted(pay[o].status) THEN "reattempt" ELSE "intent",
                !.order = o, !.at = "orderCheck"])
          /\ NoFault
       \/ /\ pay[o].status \in PaymentStatus
          /\ Fault
          /\ Request(w, [Idle EXCEPT !.op = "intent", !.order = o, !.at = "orderCheck"])
    /\ UNCHANGED <<orderVars, paymentVars>>

Payable(s) == s = "pending"

CheckOrder(w) ==
    /\ proc[w].at = "orderCheck"
    /\ \/ Payable(order[proc[w].order]) /\ Goto(w, "createIntent") /\ NoFault
       \/ ~Payable(order[proc[w].order]) /\ Finish(w) /\ NoFault
       \/ Fault /\ Finish(w)
    /\ UNCHANGED <<spawned, dead, requests, orderVars, paymentVars>>

NewIntent(i, o, s) ==
    /\ Fresh(i)
    /\ intent' = [intent EXCEPT ![i] = [order |-> o, captured |-> s = "succeeded",
                                        refunds |-> 0]]

CreateIntent(w) ==
    /\ proc[w].at = "createIntent"
    /\ \/ \E i \in Intents, s \in IntentStatuses :
             /\ NewIntent(i, proc[w].order, s)
             /\ proc' = [proc EXCEPT ![w].at = "payInsert", ![w].status = s,
                                     ![w].intent = i]
             /\ NoFault
       \/ Fault /\ Finish(w) /\ UNCHANGED intent
       \/ /\ Fault
          /\ Finish(w)
          /\ \E i \in Intents, s \in IntentStatuses : NewIntent(i, proc[w].order, s)
    /\ UNCHANGED <<spawned, dead, requests, orderVars, pay, unacked>>

\* Faulty variant: a second payment replaces the first.
DuplicateReplaces(w) ==
    LET p == proc[w] IN
    /\ pay[p.order].status # "none"
    /\ Finish(w)
    /\ pay' = [pay EXCEPT ![p.order] = [status |-> p.status, intent |-> p.intent]]

(***************************************************************************)
(* The INSERT.  The unique index on order_id refuses a second row, and     *)
(* any other error leaves an intent at the provider with no row.           *)
(***************************************************************************)
DuplicateRefused(w) ==
    /\ pay[proc[w].order].status # "none"
    /\ Finish(w)
    /\ UNCHANGED pay

\* Faulty variants: the event of an intent that is not captured, or no event.
PaidAnyway(s) == s # "failed"
PaidLater(s) == FALSE

\* Only such an intent's payment.succeeded is published right away.
PaidAtOnce(s) == s = "succeeded"

InsertPayment(w) ==
    LET p == proc[w] IN
    /\ p.at = "payInsert"
    /\ \/ /\ pay[p.order].status = "none"
          /\ pay' = [pay EXCEPT ![p.order] = [status |-> p.status, intent |-> p.intent]]
          /\ \/ /\ IF PaidAtOnce(p.status) THEN Goto(w, "payPublish") ELSE Finish(w)
                /\ UNCHANGED unacked
                /\ NoFault
             \/ Fault /\ Finish(w) /\ Unacknowledged(p.order, p.status)
       \/ DuplicateRefused(w) /\ UNCHANGED unacked /\ NoFault
       \/ Fault /\ Finish(w) /\ UNCHANGED <<pay, unacked>>
    /\ UNCHANGED <<spawned, dead, requests, orderVars, intent>>

PublishPaymentSuccess(w) ==
    /\ proc[w].at = "payPublish"
    /\ Publish("payment.succeeded", proc[w].order)
    /\ Finish(w)
    /\ UNCHANGED <<dead, requests, faults, orderVars, paymentVars>>

-----------------------------------------------------------------------------
(***************************************************************************)
(* ConfirmPayment, called by the provider's webhook with an intent id:     *)
(* only an intent with a row is found.  An intent older than 24 hours is   *)
(* written off as failed without a call; time is not modelled, so that can *)
(* happen to any of them.  payment.failed has no subscriber.               *)
(***************************************************************************)
Confirmable(s) == s \notin {"none", "succeeded", "refunded", "failed"}

ConfirmPayment(w, o) ==
    /\ Confirmable(pay[o].status)
    /\ \E l \in {"confirmCall", "confirmExpire"} :
          Request(w, [Idle EXCEPT !.op = "confirm", !.order = o, !.at = l,
                                  !.intent = pay[o].intent])
    /\ UNCHANGED <<faults, orderVars, paymentVars>>

Capture(w) == intent' = [intent EXCEPT ![proc[w].intent].captured = TRUE]

CallConfirm(w) ==
    /\ proc[w].at = "confirmCall"
    /\ \/ Capture(w) /\ Goto(w, "confirmWrite") /\ NoFault
       \/ Fault /\ Goto(w, "confirmFail") /\ UNCHANGED intent
       \/ Fault /\ Goto(w, "confirmFail") /\ Capture(w)
    /\ UNCHANGED <<spawned, dead, requests, orderVars, pay, unacked>>

WriteConfirmed(w) ==
    /\ proc[w].at = "confirmWrite"
    /\ \/ /\ WritePayment(proc[w].order, "succeeded")
          /\ \/ Goto(w, "payPublish") /\ UNCHANGED unacked /\ NoFault
             \/ Fault /\ Finish(w) /\ Unacknowledged(proc[w].order, "succeeded")
       \/ Fault /\ Finish(w) /\ UNCHANGED <<pay, unacked>>
    /\ UNCHANGED <<spawned, dead, requests, orderVars, intent>>

WriteFailed(w) ==
    /\ proc[w].at \in {"confirmFail", "confirmExpire"}
    /\ \/ WritePayment(proc[w].order, "failed") /\ Finish(w) /\ NoFault
       \/ Fault /\ Finish(w) /\ UNCHANGED pay
    /\ UNCHANGED <<spawned, dead, requests, orderVars, intent, unacked>>

-----------------------------------------------------------------------------
(***************************************************************************)
(* RefundPayment, called by an admin or by handleOrderCancelled.  The row  *)
(* says "refunded" before the provider is called, and "refund_failed"      *)
(* after the call has failed.                                              *)
(***************************************************************************)
RefundRequest(w, o) ==
    /\ Request(w, [Idle EXCEPT !.op = "refund", !.order = o, !.at = "start"])
    /\ UNCHANGED <<faults, orderVars, paymentVars>>

\* Faulty variant: refunds an intent that may not be captured yet.
RefundPending(s) == s \in {"pending", "succeeded", "refund_failed"}

Refundable(s) == s \in {"succeeded", "refund_failed"}

\* Faulty variant: nothing to refund unless the row says "succeeded".
DismissUnlessSucceeded(w) ==
    \/ pay[proc[w].order].status # "succeeded" /\ Finish(w) /\ NoFault
    \/ Fault /\ Finish(w)

\* No row, or one that was not seen: ErrPaymentNotFound, which is the
\* handler's reason to consider the order unpaid and its work done.
DismissRefund(w) ==
    \/ pay[proc[w].order].status = "none" /\ Finish(w) /\ NoFault
    \/ Fault /\ Finish(w)

ReadPaymentForRefund(w) ==
    LET row == pay[proc[w].order] IN
    /\ proc[w].op \in {"refund", "onCancelled"}
    /\ proc[w].at = "start"
    /\ \/ DismissRefund(w) /\ UNCHANGED dead
       \/ row.status = "refunded" /\ Finish(w) /\ UNCHANGED dead /\ NoFault
       \/ /\ Refundable(row.status)
          /\ proc' = [proc EXCEPT ![w].at = "refundMark", ![w].intent = row.intent]
          /\ UNCHANGED dead
          /\ NoFault
       \/ /\ row.status \in {"pending", "failed"}
          /\ Fail(w)
          /\ NoFault
       \/ Fault /\ Fail(w)
    /\ UNCHANGED <<spawned, requests, orderVars, paymentVars>>

MarkRefunded(w) ==
    /\ proc[w].at = "refundMark"
    /\ \/ /\ WritePayment(proc[w].order, "refunded")
          /\ Goto(w, "refundCall")
          /\ UNCHANGED dead
          /\ NoFault
       \/ Fault /\ Fail(w) /\ (UNCHANGED pay \/ WritePayment(proc[w].order, "refunded"))
    /\ UNCHANGED <<spawned, requests, orderVars, intent, unacked>>

PayBack(w) == intent' = [intent EXCEPT ![proc[w].intent].refunds = @ + 1]

\* payment.refunded has no subscriber.
CallRefund(w) ==
    /\ proc[w].at = "refundCall"
    /\ \/ PayBack(w) /\ Finish(w) /\ NoFault
       \/ Fault /\ Goto(w, "refundUndo") /\ UNCHANGED intent
       \/ Fault /\ Goto(w, "refundUndo") /\ PayBack(w)
    /\ UNCHANGED <<spawned, dead, requests, orderVars, pay, unacked>>

UndoRefund(w) ==
    /\ proc[w].at = "refundUndo"
    /\ \/ WritePayment(proc[w].order, "refund_failed") /\ Fail(w) /\ NoFault
       \/ Fault /\ Fail(w) /\ UNCHANGED pay
    /\ UNCHANGED <<spawned, requests, orderVars, intent, unacked>>

PaymentsInit ==
    /\ pay = [o \in Orders |-> NoPayment]
    /\ intent = [i \in Intents |-> NoSuchIntent]
    /\ unacked = {}

PaymentsTypeOK ==
    /\ pay \in [Orders -> PaymentRow]
    /\ intent \in [Intents -> ProviderIntent]
    /\ unacked \subseteq Orders
=============================================================================
