--------------------------- MODULE CheckoutProofs ---------------------------
(***************************************************************************)
(* What the checkout guarantees for any set of orders and goroutines, any  *)
(* number of retries, requests, failing calls and crashes.                 *)
(***************************************************************************)
EXTENDS Checkout, TLAPS

-----------------------------------------------------------------------------
(* The inductive invariant.                                                *)

\* Labels at which a goroutine holds the intent of its order's payment row.
HoldsRow == {"confirmCall", "confirmExpire", "confirmWrite", "confirmFail",
             "refundMark", "refundCall", "refundUndo"}

\* Some transition leads from a status the row of o has held to s.
Reached(o, s) ==
    \/ s = "paid" /\ "pending" \in held[o]
    \/ s = "shipped" /\ "paid" \in held[o]
    \/ s = "done" /\ "shipped" \in held[o]
    \/ s = "canceled"

(***************************************************************************)
(* The local variables of a goroutine in the order service: the status it  *)
(* is about to write was allowed by a status the row has really held, and  *)
(* the payment service's word was needed unless an admin acts.             *)
(***************************************************************************)
OrderLocals(p) ==
    /\ p.at # "idle" => p.order \in Orders
    /\ p.op = "idle" => p.at = "idle"
    /\ p.at \in {"orderUpdate", "orderPublish"} =>
          /\ p.status \in OrderStatus
          /\ order[p.order] # "none"
          /\ Reached(p.order, p.status)
          /\ p.status = "paid" => p.op \in {"onPaid", "manualPay"}
          /\ p.op = "onPaid" => p.status = "paid"
    /\ p.at = "orderPublish" => /\ p.status \in held[p.order]
                                /\ order[p.order] \notin {"none", "pending"}
    /\ p.op = "onPaid" => p.at \in {"start", "orderUpdate", "orderPublish"}
    /\ p.op = "onPaid" => CapturedFor(p.order)
    /\ p.op = "onCancelled" => p.order \in Orders /\ "canceled" \in held[p.order]

(***************************************************************************)
(* The local variables of a goroutine in the payment service.              *)
(***************************************************************************)
PaymentLocals(p) ==
    /\ p.at \in {"createIntent", "payInsert"} => order[p.order] # "none"
    /\ p.at = "payInsert" =>
          /\ p.status \in IntentStatuses
          /\ p.intent \in Intents
          /\ intent[p.intent].order = p.order
          /\ p.status = "succeeded" => intent[p.intent].captured
    /\ p.at \in HoldsRow =>
          /\ pay[p.order].status # "none"
          /\ pay[p.order].intent = p.intent
    /\ p.at \in {"confirmWrite", "refundMark", "refundCall", "refundUndo"} =>
          intent[p.intent].captured
    /\ p.at = "payPublish" => CapturedFor(p.order)

\* A payment row names an intent of its order, captured if it says so.
RowOK(o) ==
    /\ pay[o].status = "none" => pay[o].intent = NoIntent
    /\ pay[o].status # "none" => /\ order[o] # "none"
                                 /\ pay[o].intent \in Intents
                                 /\ intent[pay[o].intent].order = o
    /\ pay[o].status \in {"succeeded", "refunded", "refund_failed"} =>
          intent[pay[o].intent].captured

\* An order is in a status it has held, and paid only if captured or by hand.
OrderOK(o) ==
    /\ order[o] = "none" => held[o] = {}
    /\ order[o] # "none" => order[o] \in held[o]
    /\ "paid" \in held[o] => CapturedFor(o) \/ o \in manual

\* What the event of a spawned handler says of its order.
EventsOK(o) ==
    /\ spawned["payment.succeeded"][o] > 0 => CapturedFor(o)
    /\ spawned["order.cancelled"][o] > 0 => "canceled" \in held[o]

\* The provider knows nothing of an intent that was not created.
IntentOK(i) == intent[i].order = None => ~intent[i].captured /\ intent[i].refunds = 0

\* The inductive invariant.
IInv ==
    /\ TypeOK
    /\ \A w \in Workers : OrderLocals(proc[w]) /\ PaymentLocals(proc[w])
    /\ \A o \in Orders : RowOK(o) /\ OrderOK(o) /\ EventsOK(o)
    /\ \A i \in Intents : IntentOK(i)
    /\ NoStepSkipped
    /\ RefundsAreBacked
    /\ PaymentNotForgotten

-----------------------------------------------------------------------------
(* Facts about the constants and the goroutine records.                    *)

\* The record of a free goroutine is well-typed.
LEMMA IdleIsState == Idle \in ProcState
  BY DeliveryAssumption DEF Idle, ProcState, Ops, Labels, NoIntent

\* A step of one goroutine leaves a well-typed record for it.
LEMMA TypeIdle ==
  ASSUME proc \in [Workers -> ProcState], NEW w \in Workers, Finish(w)
  PROVE  proc' \in [Workers -> ProcState]
  BY IdleIsState DEF Finish

\* Moving to a label keeps the goroutine records well-typed.
LEMMA TypeGoto ==
  ASSUME proc \in [Workers -> ProcState], NEW w \in Workers, NEW l \in Labels, Goto(w, l)
  PROVE  proc' \in [Workers -> ProcState]
  BY DEF Goto, ProcState

\* So does an error: MoreAttempts bounds the number of the next attempt.
LEMMA TypeFail ==
  ASSUME TypeOK, NEW w \in Workers, proc[w].order \in Orders, Fail(w)
  PROVE  /\ proc' \in [Workers -> ProcState]
         /\ dead' \subseteq Topics \X Orders
<1> USE DeliveryAssumption DEF TypeOK, DeliveryTypeOK
<1>1. CASE proc[w].op \in RequestOps /\ Finish(w) /\ UNCHANGED dead
  BY <1>1, TypeIdle
<1>2. CASE /\ proc[w].op \in HandlerOps
           /\ MoreAttempts(proc[w].tries)
           /\ proc' = [proc EXCEPT ![w] = [Idle EXCEPT !.op = proc[w].op, !.order = proc[w].order,
                                     !.at = "start", !.tries = NextAttempt(proc[w].tries)]]
           /\ UNCHANGED dead
  <2>1. proc[w].tries \in 0..MaxRetries /\ proc[w].op \in Ops
    BY DEF ProcState
  <2>2. NextAttempt(proc[w].tries) \in 0..MaxRetries
    BY <1>2, <2>1 DEF NextAttempt, MoreAttempts
  <2>3. [Idle EXCEPT !.op = proc[w].op, !.order = proc[w].order,
                     !.at = "start", !.tries = NextAttempt(proc[w].tries)] \in ProcState
    BY <2>1, <2>2, IdleIsState DEF ProcState, Labels
  <2> QED BY <1>2, <2>3
<1>3. CASE /\ proc[w].op \in HandlerOps
           /\ DeadLetter(TopicOf(proc[w].op), proc[w].order)
           /\ Finish(w)
  BY <1>3, TypeIdle DEF DeadLetter, TopicOf, Topics
<1> QED BY <1>1, <1>2, <1>3 DEF Fail

\* A request or a handler starts with a well-typed record.
LEMMA TypeRequest ==
  ASSUME TypeOK, NEW w \in Workers, NEW p \in ProcState, Request(w, p)
  PROVE  /\ proc' \in [Workers -> ProcState]
         /\ requests' \in 0..MaxRequests
  BY DeliveryAssumption DEF TypeOK, DeliveryTypeOK, Request

\* A handler starts with a well-typed record, at its first attempt.
LEMMA TypeHandler ==
  ASSUME NEW t \in Topics, NEW o \in Orders
  PROVE  [Idle EXCEPT !.op = HandlerOf(t), !.order = o, !.at = "start", !.tries = 1] \in ProcState
<1>1. 1 \in 0..MaxRetries
  BY DeliveryAssumption
<1> QED BY ZenonT(40), <1>1, IdleIsState DEF ProcState, Ops, HandlerOps, HandlerOf, Labels

\* The count of failed calls stays within its bound.
LEMMA TypeFault ==
  ASSUME TypeOK, Fault \/ NoFault
  PROVE  faults' \in 0..MaxFaults
  BY DeliveryAssumption DEF TypeOK, DeliveryTypeOK, Fault, NoFault

\* A write of a row's status keeps the table well-typed.
LEMMA TypeWritePayment ==
  ASSUME pay \in [Orders -> PaymentRow], NEW o \in Orders, NEW s \in PaymentStatus,
         WritePayment(o, s)
  PROVE  pay' \in [Orders -> PaymentRow]
<1>1. [pay[o] EXCEPT !.status = s] \in PaymentRow
  BY DEF PaymentRow
<1> QED BY <1>1 DEF WritePayment

(***************************************************************************)
(* Every step keeps the types of the variables.                            *)
(***************************************************************************)
LEMMA TypeStep ==
  ASSUME IInv, [Next]_vars
  PROVE  TypeOK'
<1> USE DeliveryAssumption, PaymentAssumption, CrashAssumption
<1> USE DEF TypeOK, DeliveryTypeOK, OrdersTypeOK, PaymentsTypeOK, IInv
<1>1. ASSUME NEW o \in Orders, CreateOrder(o), UNCHANGED <<paymentVars, crashes>>
      PROVE  TypeOK'
  BY <1>1 DEF CreateOrder, OrderStatus, deliveryVars, paymentVars
<1>2. ASSUME NEW w \in Workers, NEW o \in Orders, NEW a \in Actions,
             TransitionRequest(w, o, a), UNCHANGED <<paymentVars, crashes>>
      PROVE  TypeOK'
  <2>1. PICK to \in OrderStatus :
           Request(w, [Idle EXCEPT !.op = IF a = "pay" THEN "manualPay" ELSE "transition",
                                   !.order = o, !.at = "orderUpdate", !.status = to])
    BY <1>2 DEF TransitionRequest
  <2>2. [Idle EXCEPT !.op = IF a = "pay" THEN "manualPay" ELSE "transition",
                     !.order = o, !.at = "orderUpdate", !.status = to] \in ProcState
    BY ZenonT(40), IdleIsState DEF ProcState, Ops, RequestOps, Labels
  <2>3. proc' \in [Workers -> ProcState] /\ requests' \in 0..MaxRequests
    BY <2>1, <2>2, TypeRequest
  <2> QED BY <1>2, <2>1, <2>3 DEF TransitionRequest, Request, orderVars, paymentVars
<1>3. ASSUME NEW w \in Workers, NEW o \in Orders, CreatePaymentIntent(w, o), UNCHANGED crashes
      PROVE  TypeOK'
  <2>1. PICK op \in {"reattempt", "intent"} :
           Request(w, [Idle EXCEPT !.op = op, !.order = o, !.at = "orderCheck"])
    BY <1>3 DEF CreatePaymentIntent
  <2>2. [Idle EXCEPT !.op = op, !.order = o, !.at = "orderCheck"] \in ProcState
    BY IdleIsState DEF ProcState, Ops, RequestOps, Labels
  <2>3. proc' \in [Workers -> ProcState] /\ requests' \in 0..MaxRequests
    BY <2>1, <2>2, TypeRequest
  <2>4. faults' \in 0..MaxFaults
    BY <1>3, TypeFault DEF CreatePaymentIntent
  <2> QED BY <1>3, <2>1, <2>3, <2>4 DEF CreatePaymentIntent, Request, orderVars, paymentVars
<1>4. ASSUME NEW w \in Workers, NEW o \in Orders, ConfirmPayment(w, o), UNCHANGED crashes
      PROVE  TypeOK'
  <2>1. PICK l \in {"confirmCall", "confirmExpire"} :
           Request(w, [Idle EXCEPT !.op = "confirm", !.order = o, !.at = l,
                                   !.intent = pay[o].intent])
    BY <1>4 DEF ConfirmPayment
  <2>2. [Idle EXCEPT !.op = "confirm", !.order = o, !.at = l,
                     !.intent = pay[o].intent] \in ProcState
    BY IdleIsState DEF ProcState, Ops, RequestOps, Labels, PaymentRow
  <2>3. proc' \in [Workers -> ProcState] /\ requests' \in 0..MaxRequests
    BY <2>1, <2>2, TypeRequest
  <2> QED BY <1>4, <2>1, <2>3 DEF ConfirmPayment, Request, orderVars, paymentVars
<1>5. ASSUME NEW w \in Workers, NEW o \in Orders, RefundRequest(w, o), UNCHANGED crashes
      PROVE  TypeOK'
  <2>1. [Idle EXCEPT !.op = "refund", !.order = o, !.at = "start"] \in ProcState
    BY IdleIsState DEF ProcState, Ops, RequestOps, Labels
  <2>2. proc' \in [Workers -> ProcState] /\ requests' \in 0..MaxRequests
    BY <1>5, <2>1, TypeRequest DEF RefundRequest
  <2> QED BY <1>5, <2>2 DEF RefundRequest, Request, orderVars, paymentVars
<1>6. ASSUME NEW w \in Workers, RunHandler(w), UNCHANGED crashes
      PROVE  TypeOK'
  <2>1. PICK t \in Topics, o \in Orders : StartHandler(w, t, o)
    BY <1>6 DEF RunHandler
  <2>2. [Idle EXCEPT !.op = HandlerOf(t), !.order = o, !.at = "start", !.tries = 1] \in ProcState
    BY TypeHandler
  <2> QED BY <1>6, <2>1, <2>2 DEF RunHandler, StartHandler, orderVars, paymentVars
<1>7. ASSUME NEW w \in Workers, HandlePaymentSucceeded(w), UNCHANGED <<paymentVars, crashes>>
      PROVE  TypeOK'
  <2>1. proc[w].order \in Orders /\ proc[w] \in ProcState
    BY <1>7 DEF HandlePaymentSucceeded, OrderLocals
  <2>2. [proc[w] EXCEPT !.at = "orderUpdate", !.status = "paid"] \in ProcState
    BY <2>1 DEF ProcState, Labels, OrderStatus
  <2>3. proc' \in [Workers -> ProcState] /\ dead' \subseteq Topics \X Orders
    BY <1>7, <2>1, <2>2, TypeFail DEF HandlePaymentSucceeded
  <2> QED BY <1>7, <2>3, TypeFault DEF HandlePaymentSucceeded, orderVars, paymentVars
<1>8. ASSUME NEW w \in Workers, UpdateOrder(w), UNCHANGED <<paymentVars, crashes>>
      PROVE  TypeOK'
  <2>1. proc[w].order \in Orders /\ proc[w].status \in OrderStatus
    BY <1>8 DEF UpdateOrder, OrderLocals
  <2>2. proc' \in [Workers -> ProcState] /\ dead' \subseteq Topics \X Orders
    BY <1>8, <2>1, TypeFail, TypeGoto DEF UpdateOrder, Labels
  <2>3. OrdersTypeOK'
    BY <1>8, <2>1 DEF UpdateOrder, WriteStatus, orderVars
  <2> QED BY <1>8, <2>2, <2>3, TypeFault DEF UpdateOrder, paymentVars
<1>9. ASSUME NEW w \in Workers, PublishTransition(w), UNCHANGED <<paymentVars, crashes>>
      PROVE  TypeOK'
  <2>1. proc[w].order \in Orders
    BY <1>9 DEF PublishTransition, OrderLocals
  <2>2. spawned' \in [Topics -> [Orders -> Nat]]
    BY <1>9, <2>1 DEF PublishTransition, Publish, Topics
  <2> QED BY <1>9, <2>2, TypeIdle DEF PublishTransition, orderVars, paymentVars
<1>10. ASSUME NEW w \in Workers, CheckOrder(w), UNCHANGED crashes
      PROVE  TypeOK'
  <2>1. proc' \in [Workers -> ProcState]
    BY <1>10, TypeIdle, TypeGoto DEF CheckOrder, Labels
  <2> QED BY <1>10, <2>1, TypeFault DEF CheckOrder, orderVars, paymentVars
<1>11. ASSUME NEW w \in Workers, CreateIntent(w), UNCHANGED crashes
      PROVE  TypeOK'
  <2>1. proc[w].order \in Orders /\ proc[w] \in ProcState
    BY <1>11 DEF CreateIntent, OrderLocals
  <2>2. ASSUME NEW i \in Intents, NEW s \in IntentStatuses
        PROVE  [proc[w] EXCEPT !.at = "payInsert", !.status = s, !.intent = i] \in ProcState
    BY <2>1 DEF ProcState, Labels, PaymentStatus
  <2>3. proc' \in [Workers -> ProcState]
    <3>1. CASE \E i \in Intents, s \in IntentStatuses :
                 proc' = [proc EXCEPT ![w].at = "payInsert", ![w].status = s, ![w].intent = i]
      <4>1. PICK i \in Intents, s \in IntentStatuses :
               proc' = [proc EXCEPT ![w].at = "payInsert", ![w].status = s, ![w].intent = i]
        BY <3>1
      <4>2. proc' = [proc EXCEPT ![w] = [proc[w] EXCEPT !.at = "payInsert", !.status = s,
                                                        !.intent = i]]
        BY <4>1
      <4> QED BY <2>2, <4>2
    <3>2. CASE Finish(w)
      BY <3>2, TypeIdle
    <3> QED BY <1>11, <3>1, <3>2 DEF CreateIntent
  <2>4. intent' \in [Intents -> ProviderIntent]
    <3>1. ASSUME NEW i \in Intents, NEW s \in IntentStatuses, NewIntent(i, proc[w].order, s)
          PROVE  intent' \in [Intents -> ProviderIntent]
      BY <2>1, <3>1 DEF NewIntent, ProviderIntent
    <3> QED BY <1>11, <3>1 DEF CreateIntent
  <2> QED BY <1>11, <2>3, <2>4, TypeFault DEF CreateIntent, orderVars
<1>12. ASSUME NEW w \in Workers, InsertPayment(w), UNCHANGED crashes
      PROVE  TypeOK'
  <2>1. proc[w].order \in Orders /\ proc[w].status \in PaymentStatus /\ proc[w].intent \in Intents
    BY <1>12 DEF InsertPayment, OrderLocals, PaymentLocals, PaymentStatus
  <2>2. proc' \in [Workers -> ProcState]
    BY <1>12, TypeIdle, TypeGoto DEF InsertPayment, DuplicateRefused, Labels
  <2>3. PaymentsTypeOK'
    <3>1. [status |-> proc[w].status, intent |-> proc[w].intent] \in PaymentRow
      BY <2>1 DEF PaymentRow
    <3>2. pay' \in [Orders -> PaymentRow]
      BY <1>12, <2>1, <3>1 DEF InsertPayment, DuplicateRefused
    <3> QED BY <1>12, <2>1, <3>2 DEF InsertPayment, DuplicateRefused, Unacknowledged
  <2> QED BY <1>12, <2>2, <2>3, TypeFault DEF InsertPayment, orderVars
<1>13. ASSUME NEW w \in Workers, PublishPaymentSuccess(w), UNCHANGED crashes
      PROVE  TypeOK'
  <2>1. proc[w].order \in Orders
    BY <1>13 DEF PublishPaymentSuccess, OrderLocals
  <2>2. spawned' \in [Topics -> [Orders -> Nat]]
    BY <1>13, <2>1 DEF PublishPaymentSuccess, Publish, Topics
  <2> QED BY <1>13, <2>2, TypeIdle DEF PublishPaymentSuccess, orderVars, paymentVars
<1>14. ASSUME NEW w \in Workers, CallConfirm(w), UNCHANGED crashes
      PROVE  TypeOK'
  <2>1. proc' \in [Workers -> ProcState]
    BY <1>14, TypeGoto DEF CallConfirm, Labels
  <2>2. ASSUME NEW i \in Intents
        PROVE  [intent[i] EXCEPT !.captured = TRUE] \in ProviderIntent
    BY DEF ProviderIntent
  <2>3. intent' \in [Intents -> ProviderIntent]
    BY <1>14, <2>2 DEF CallConfirm, Capture
  <2> QED BY <1>14, <2>1, <2>3, TypeFault DEF CallConfirm, orderVars
<1>15. ASSUME NEW w \in Workers, WriteConfirmed(w), UNCHANGED crashes
      PROVE  TypeOK'
  <2>1. proc[w].order \in Orders
    BY <1>15 DEF WriteConfirmed, OrderLocals
  <2>2. proc' \in [Workers -> ProcState]
    BY <1>15, TypeIdle, TypeGoto DEF WriteConfirmed, Labels
  <2>3. PaymentsTypeOK'
    <3>1. pay' \in [Orders -> PaymentRow]
      BY <1>15, <2>1, TypeWritePayment DEF WriteConfirmed, PaymentStatus
    <3> QED BY <1>15, <2>1, <3>1 DEF WriteConfirmed, Unacknowledged
  <2> QED BY <1>15, <2>2, <2>3, TypeFault DEF WriteConfirmed, orderVars
<1>16. ASSUME NEW w \in Workers, WriteFailed(w), UNCHANGED crashes
      PROVE  TypeOK'
  <2>1. proc[w].order \in Orders
    BY <1>16 DEF WriteFailed, OrderLocals
  <2>2. proc' \in [Workers -> ProcState]
    BY <1>16, TypeIdle DEF WriteFailed
  <2>3. PaymentsTypeOK'
    BY <1>16, <2>1, TypeWritePayment DEF WriteFailed, PaymentStatus
  <2> QED BY <1>16, <2>2, <2>3, TypeFault DEF WriteFailed, orderVars
<1>17. ASSUME NEW w \in Workers, ReadPaymentForRefund(w), UNCHANGED crashes
      PROVE  TypeOK'
  <2>1. proc[w].order \in Orders /\ proc[w] \in ProcState
    BY <1>17 DEF ReadPaymentForRefund, OrderLocals
  <2>2. [proc[w] EXCEPT !.at = "refundMark", !.intent = pay[proc[w].order].intent] \in ProcState
    BY <2>1 DEF ProcState, Labels, PaymentRow
  <2>3. proc' \in [Workers -> ProcState] /\ dead' \subseteq Topics \X Orders
    BY ZenonT(30), <1>17, <2>1, <2>2, TypeFail, TypeIdle DEF ReadPaymentForRefund, DismissRefund
  <2> QED BY <1>17, <2>3, TypeFault DEF ReadPaymentForRefund, DismissRefund, orderVars, paymentVars
<1>18. ASSUME NEW w \in Workers, MarkRefunded(w), UNCHANGED crashes
      PROVE  TypeOK'
  <2>1. proc[w].order \in Orders
    BY <1>18 DEF MarkRefunded, OrderLocals
  <2>2. proc' \in [Workers -> ProcState] /\ dead' \subseteq Topics \X Orders
    BY <1>18, <2>1, TypeFail, TypeGoto DEF MarkRefunded, Labels
  <2>3. PaymentsTypeOK'
    BY <1>18, <2>1, TypeWritePayment DEF MarkRefunded, PaymentStatus
  <2> QED BY <1>18, <2>2, <2>3, TypeFault DEF MarkRefunded, orderVars
<1>19. ASSUME NEW w \in Workers, CallRefund(w), UNCHANGED crashes
      PROVE  TypeOK'
  <2>1. proc' \in [Workers -> ProcState]
    BY <1>19, TypeIdle, TypeGoto DEF CallRefund, Labels
  <2>2. ASSUME NEW i \in Intents
        PROVE  [intent[i] EXCEPT !.refunds = @ + 1] \in ProviderIntent
    BY DEF ProviderIntent
  <2>3. intent' \in [Intents -> ProviderIntent]
    BY <1>19, <2>2 DEF CallRefund, PayBack
  <2> QED BY <1>19, <2>1, <2>3, TypeFault DEF CallRefund, orderVars
<1>20. ASSUME NEW w \in Workers, UndoRefund(w), UNCHANGED crashes
      PROVE  TypeOK'
  <2>1. proc[w].order \in Orders
    BY <1>20 DEF UndoRefund, OrderLocals
  <2>2. proc' \in [Workers -> ProcState] /\ dead' \subseteq Topics \X Orders
    BY <1>20, <2>1, TypeFail DEF UndoRefund
  <2>3. PaymentsTypeOK'
    BY <1>20, <2>1, TypeWritePayment DEF UndoRefund, PaymentStatus
  <2> QED BY <1>20, <2>2, <2>3, TypeFault DEF UndoRefund, orderVars
<1>21. CASE Crash
  BY <1>21, IdleIsState DEF Crash, orderVars, paymentVars
<1>22. CASE UNCHANGED vars
  BY <1>22 DEF vars, deliveryVars, orderVars, paymentVars
<1> QED
  BY <1>1, <1>2, <1>3, <1>4, <1>5, <1>6, <1>7, <1>8, <1>9, <1>10, <1>11, <1>12, <1>13, <1>14, <1>15, <1>16, <1>17, <1>18, <1>19, <1>20, <1>21, <1>22
     DEF Next, NewRequest, Continue, OrderStep, PaymentStep

-----------------------------------------------------------------------------
(* Which steps may write which table.                                      *)

\* The orders table: a new order, or the UPDATE of a transition.
LEMMA OrderWriters ==
  ASSUME [Next]_vars
  PROVE  \/ UNCHANGED orderVars
         \/ \E o \in Orders : CreateOrder(o)
         \/ \E w \in Workers : proc[w].at = "orderUpdate" /\ WriteStatus(w)
  BY ZenonT(40) DEF Next, NewRequest, RunHandler, Continue, OrderStep, PaymentStep, Crash, vars,
         CreateOrder, TransitionRequest, CreatePaymentIntent, ConfirmPayment, RefundRequest,
         HandlePaymentSucceeded, UpdateOrder, PublishTransition, CheckOrder, CreateIntent,
         InsertPayment, PublishPaymentSuccess, CallConfirm, WriteConfirmed, WriteFailed,
         ReadPaymentForRefund, MarkRefunded, CallRefund, UndoRefund

\* The status a goroutine at a given point may write into the payment row.
Writes(at, s) ==
    \/ at = "confirmWrite" /\ s = "succeeded"
    \/ at \in {"confirmFail", "confirmExpire"} /\ s = "failed"
    \/ at = "refundMark" /\ s = "refunded"
    \/ at = "refundUndo" /\ s = "refund_failed"

\* The payments table: an INSERT where there was no row, or a new status.
LEMMA PaymentWriters ==
  ASSUME [Next]_vars
  PROVE  \/ UNCHANGED pay
         \/ \E w \in Workers :
               /\ proc[w].at = "payInsert"
               /\ pay[proc[w].order].status = "none"
               /\ pay' = [pay EXCEPT ![proc[w].order] = [status |-> proc[w].status,
                                                         intent |-> proc[w].intent]]
         \/ \E w \in Workers, s \in PaymentStatus :
               Writes(proc[w].at, s) /\ WritePayment(proc[w].order, s)
  BY ZenonT(40) DEF Next, NewRequest, RunHandler, Continue, OrderStep, PaymentStep, Crash, vars,
         CreateOrder, TransitionRequest, CreatePaymentIntent, ConfirmPayment, RefundRequest,
         HandlePaymentSucceeded, UpdateOrder, PublishTransition, CheckOrder, CreateIntent,
         InsertPayment, PublishPaymentSuccess, CallConfirm, WriteConfirmed, WriteFailed,
         ReadPaymentForRefund, MarkRefunded, CallRefund, UndoRefund, DuplicateRefused,
         paymentVars, Writes, PaymentStatus

\* The provider: a new intent, a capture, or money paid back.
LEMMA IntentWriters ==
  ASSUME [Next]_vars
  PROVE  \/ UNCHANGED intent
         \/ \E w \in Workers, i \in Intents, s \in IntentStatuses :
               proc[w].at = "createIntent" /\ NewIntent(i, proc[w].order, s)
         \/ \E w \in Workers : proc[w].at = "confirmCall" /\ Capture(w)
         \/ \E w \in Workers : proc[w].at = "refundCall" /\ PayBack(w)
  BY ZenonT(40) DEF Next, NewRequest, RunHandler, Continue, OrderStep, PaymentStep, Crash, vars,
         CreateOrder, TransitionRequest, CreatePaymentIntent, ConfirmPayment, RefundRequest,
         HandlePaymentSucceeded, UpdateOrder, PublishTransition, CheckOrder, CreateIntent,
         InsertPayment, PublishPaymentSuccess, CallConfirm, WriteConfirmed, WriteFailed,
         ReadPaymentForRefund, MarkRefunded, CallRefund, UndoRefund, paymentVars

-----------------------------------------------------------------------------
(* What no step undoes.                                                    *)

\* The history of an order only grows, and it never becomes pending again.
OrdersGrow ==
    /\ \A o \in Orders : held[o] \subseteq held'[o]
    /\ manual \subseteq manual'
    /\ \A o \in Orders : order[o] # "none" => order'[o] # "none"
    /\ \A o \in Orders : order[o] \notin {"none", "pending"}
                            => order'[o] \notin {"none", "pending"}

\* A payment row stays, with its intent.
RowsStay ==
    \A o \in Orders :
        pay[o].status # "none" => pay'[o].status # "none" /\ pay'[o].intent = pay[o].intent

\* An intent stays with its order, and a captured one captured.
IntentsStay ==
    \A i \in Intents :
        intent[i].order # None =>
            /\ intent'[i].order = intent[i].order
            /\ intent[i].captured => intent'[i].captured

\* What every goroutine relies on the others for.
Grows == OrdersGrow /\ RowsStay /\ IntentsStay

\* No step removes a status from the history of an order.
LEMMA OrdersGrowStep ==
  ASSUME IInv, [Next]_vars
  PROVE  OrdersGrow
<1> USE DEF IInv, TypeOK, OrdersTypeOK, DeliveryTypeOK, OrdersGrow
<1>1. CASE UNCHANGED orderVars
  BY <1>1 DEF orderVars
<1>2. ASSUME NEW o \in Orders, CreateOrder(o)
      PROVE  OrdersGrow
  <2>1. held[o] = {} /\ order[o] = "none"
    BY <1>2 DEF CreateOrder, OrderOK
  <2> QED BY <1>2, <2>1 DEF CreateOrder
<1>3. ASSUME NEW w \in Workers, proc[w].at = "orderUpdate", WriteStatus(w)
      PROVE  OrdersGrow
  <2>1. proc[w].order \in Orders /\ proc[w].status \in OrderStatus \ {"pending"}
    BY <1>3 DEF OrderLocals, Reached, OrderStatus
  <2> QED BY <1>3, <2>1 DEF WriteStatus, OrderStatus
<1> QED BY <1>1, <1>2, <1>3, OrderWriters

\* No step deletes a payment row or lets it name another intent.
LEMMA RowsStayStep ==
  ASSUME IInv, [Next]_vars
  PROVE  RowsStay
<1> USE DEF IInv, TypeOK, PaymentsTypeOK, PaymentRow, RowsStay
<1>1. CASE UNCHANGED pay
  BY <1>1
<1>2. ASSUME NEW w \in Workers, pay[proc[w].order].status = "none",
             pay' = [pay EXCEPT ![proc[w].order] = [status |-> proc[w].status,
                                                    intent |-> proc[w].intent]]
      PROVE  RowsStay
  BY <1>2
<1>3. ASSUME NEW w \in Workers, NEW s \in PaymentStatus, WritePayment(proc[w].order, s)
      PROVE  RowsStay
  BY <1>3 DEF WritePayment, PaymentStatus
<1> QED BY <1>1, <1>2, <1>3, PaymentWriters

\* No step takes back a capture, moves an intent or lowers its refunds.
LEMMA IntentsStayStep ==
  ASSUME IInv, [Next]_vars
  PROVE  IntentsStay
<1> USE DEF IInv, TypeOK, PaymentsTypeOK, ProviderIntent, IntentsStay
<1>1. CASE UNCHANGED intent
  BY <1>1
<1>2. ASSUME NEW w \in Workers, NEW i \in Intents, NEW s \in IntentStatuses,
             NewIntent(i, proc[w].order, s)
      PROVE  IntentsStay
  BY <1>2 DEF NewIntent, Fresh
<1>3. ASSUME NEW w \in Workers, Capture(w)
      PROVE  IntentsStay
  BY <1>3 DEF Capture
<1>4. ASSUME NEW w \in Workers, PayBack(w)
      PROVE  IntentsStay
  BY <1>4 DEF PayBack
<1> QED BY <1>1, <1>2, <1>3, <1>4, IntentWriters

\* A captured intent stays captured.
LEMMA CapturedStays ==
  ASSUME IInv, IntentsStay, NEW o \in Orders, CapturedFor(o)
  PROVE  CapturedFor(o)'
  BY DeliveryAssumption DEF CapturedFor, IntentsStay

\* What an order has reached, it has reached for good.
LEMMA ReachedStays ==
  ASSUME OrdersGrow, NEW o \in Orders, NEW s \in OrderStatus, Reached(o, s)
  PROVE  Reached(o, s)'
  BY DEF OrdersGrow, Reached

-----------------------------------------------------------------------------
(* The tables and the provider.                                            *)

\* Every step keeps what holds of the orders table.
LEMMA OrdersStep ==
  ASSUME IInv, [Next]_vars, OrdersGrow, IntentsStay
  PROVE  (\A o \in Orders : OrderOK(o))' /\ NoStepSkipped'
<1> USE DEF IInv, TypeOK, OrdersTypeOK, DeliveryTypeOK
<1>0. \A o \in Orders : CapturedFor(o) => CapturedFor(o)'
  BY CapturedStays
<1>1. CASE UNCHANGED orderVars
  BY <1>0, <1>1 DEF orderVars, OrderOK, NoStepSkipped
<1>2. ASSUME NEW o \in Orders, CreateOrder(o)
      PROVE  (\A q \in Orders : OrderOK(q))' /\ NoStepSkipped'
  BY <1>0, <1>2 DEF CreateOrder, OrderOK, NoStepSkipped
<1>3. ASSUME NEW w \in Workers, proc[w].at = "orderUpdate", WriteStatus(w)
      PROVE  (\A o \in Orders : OrderOK(o))' /\ NoStepSkipped'
  <2> DEFINE q == proc[w].order
             s == proc[w].status
  <2>1. /\ q \in Orders
        /\ s \in OrderStatus
        /\ order[q] # "none"
        /\ Reached(q, s)
        /\ s = "paid" => proc[w].op \in {"onPaid", "manualPay"}
        /\ proc[w].op = "onPaid" => CapturedFor(q)
    BY <1>3 DEF OrderLocals
  <2>2. \A o \in Orders : order'[o] = IF o = q THEN s ELSE order[o]
    BY <1>3, <2>1 DEF WriteStatus
  <2>3. \A o \in Orders : held'[o] = IF o = q THEN held[o] \cup {s} ELSE held[o]
    BY <1>3, <2>1 DEF WriteStatus
  <2>4. manual \subseteq manual' /\ (proc[w].op = "manualPay" => q \in manual')
    BY <1>3 DEF WriteStatus
  <2>5. \A o \in Orders : \A x \in OrderStatus :
           x \in held'[o] <=> x \in held[o] \/ (o = q /\ x = s)
    BY <2>3
  <2>6. ASSUME NEW o \in Orders
        PROVE  OrderOK(o)'
    <3>1. order'[o] = "none" => held'[o] = {}
      BY <2>1, <2>2, <2>3 DEF OrderOK, OrderStatus
    <3>2. order'[o] # "none" => order'[o] \in held'[o]
      BY <2>2, <2>3 DEF OrderOK
    <3>3. "paid" \in held'[o] => CapturedFor(o)' \/ o \in manual'
      BY <1>0, <2>1, <2>5, <2>4 DEF OrderOK, OrderStatus, OrdersGrow
    <3> QED BY <3>1, <3>2, <3>3 DEF OrderOK
  <2>7. NoStepSkipped'
    BY <2>1, <2>5 DEF NoStepSkipped, Reached, OrderStatus
  <2> QED BY <2>6, <2>7
<1> QED BY <1>1, <1>2, <1>3, OrderWriters

\* Every step keeps what holds of the intents at the provider.
LEMMA IntentsStep ==
  ASSUME IInv, [Next]_vars
  PROVE  (\A i \in Intents : IntentOK(i))'
<1> USE DEF IInv, TypeOK, PaymentsTypeOK, ProviderIntent, IntentOK
<1>1. CASE UNCHANGED intent
  BY <1>1
<1>2. ASSUME NEW w \in Workers, NEW i \in Intents, NEW s \in IntentStatuses,
             proc[w].at = "createIntent", NewIntent(i, proc[w].order, s)
      PROVE  (\A j \in Intents : IntentOK(j))'
  <2>1. proc[w].order # None
    BY <1>2, DeliveryAssumption DEF OrderLocals
  <2> QED BY <1>2, <2>1 DEF NewIntent
<1>3. ASSUME NEW w \in Workers, proc[w].at = "confirmCall", Capture(w)
      PROVE  (\A j \in Intents : IntentOK(j))'
  <2>1. proc[w].intent \in Intents /\ intent[proc[w].intent].order # None
    BY <1>3, DeliveryAssumption DEF OrderLocals, PaymentLocals, HoldsRow, RowOK
  <2> QED BY <1>3, <2>1 DEF Capture
<1>4. ASSUME NEW w \in Workers, proc[w].at = "refundCall", PayBack(w)
      PROVE  (\A j \in Intents : IntentOK(j))'
  <2>1. proc[w].intent \in Intents /\ intent[proc[w].intent].order # None
    BY <1>4, DeliveryAssumption DEF OrderLocals, PaymentLocals, HoldsRow, RowOK
  <2> QED BY <1>4, <2>1 DEF PayBack
<1> QED BY <1>1, <1>2, <1>3, <1>4, IntentWriters

\* Every step keeps what holds of the payment rows.
LEMMA RowsStep ==
  ASSUME IInv, [Next]_vars, Grows
  PROVE  (\A o \in Orders : RowOK(o))'
<1> USE DEF IInv, TypeOK, PaymentsTypeOK, Grows
<1>0. ASSUME NEW o \in Orders, pay[o].status # "none"
      PROVE  /\ pay[o].intent \in Intents /\ intent[pay[o].intent].order = o
             /\ order'[o] # "none"
             /\ intent'[pay[o].intent].order = o
             /\ intent[pay[o].intent].captured => intent'[pay[o].intent].captured
  BY <1>0, DeliveryAssumption DEF RowOK, OrdersGrow, IntentsStay
<1>1. CASE UNCHANGED pay
  BY <1>0, <1>1 DEF RowOK
<1>2. ASSUME NEW w \in Workers, proc[w].at = "payInsert", pay[proc[w].order].status = "none",
             pay' = [pay EXCEPT ![proc[w].order] = [status |-> proc[w].status,
                                                    intent |-> proc[w].intent]]
      PROVE  (\A o \in Orders : RowOK(o))'
  <2>1. /\ proc[w].order \in Orders /\ proc[w].status \in IntentStatuses
        /\ proc[w].intent \in Intents /\ intent[proc[w].intent].order = proc[w].order
        /\ proc[w].status = "succeeded" => intent[proc[w].intent].captured
        /\ order[proc[w].order] # "none"
    BY <1>2 DEF OrderLocals, PaymentLocals
  <2>2. ASSUME NEW o \in Orders
        PROVE  RowOK(o)'
    <3>1. CASE o = proc[w].order
      <4>1. pay'[o].status = proc[w].status /\ pay'[o].intent = proc[w].intent
        BY <1>2, <2>1, <3>1
      <4>2. /\ order'[o] # "none"
            /\ intent'[proc[w].intent].order = o
            /\ intent[proc[w].intent].captured => intent'[proc[w].intent].captured
        BY <2>1, <3>1, DeliveryAssumption DEF OrdersGrow, IntentsStay
      <4> QED BY <2>1, <4>1, <4>2, PaymentAssumption DEF RowOK
    <3>2. CASE o # proc[w].order
      BY <1>0, <1>2, <3>2 DEF RowOK
    <3> QED BY <3>1, <3>2
  <2> QED BY <2>2
<1>3. ASSUME NEW w \in Workers, NEW s \in PaymentStatus,
             Writes(proc[w].at, s), WritePayment(proc[w].order, s)
      PROVE  (\A o \in Orders : RowOK(o))'
  <2>1. /\ proc[w].order \in Orders
        /\ pay[proc[w].order].status # "none"
        /\ s # "failed" => intent[pay[proc[w].order].intent].captured
    BY <1>3 DEF Writes, OrderLocals, PaymentLocals, HoldsRow
  <2>2. \A o \in Orders : /\ pay'[o].intent = pay[o].intent
                          /\ pay'[o].status = IF o = proc[w].order THEN s ELSE pay[o].status
    BY <1>3, <2>1 DEF WritePayment, PaymentRow
  <2>3. s # "none" /\ (s \in {"succeeded", "refunded", "refund_failed"} => s # "failed")
    BY DEF PaymentStatus
  <2> QED BY <1>0, <2>1, <2>2, <2>3 DEF RowOK
<1> QED BY <1>1, <1>2, <1>3, PaymentWriters

\* Every step keeps refunds backed by a captured intent of the row.
LEMMA RefundsStep ==
  ASSUME IInv, [Next]_vars, Grows
  PROVE  RefundsAreBacked'
<1> USE DEF IInv, TypeOK, PaymentsTypeOK, ProviderIntent, Grows
<1>0. ASSUME NEW i \in Intents, intent[i].captured, intent[i].order \in Orders,
             pay[intent[i].order].intent = i
      PROVE  /\ intent'[i].captured /\ intent'[i].order = intent[i].order
             /\ pay'[intent[i].order].intent = i
  <2>1. pay[intent[i].order].status # "none"
    BY <1>0, DeliveryAssumption DEF RowOK, Intents, NoIntent
  <2> QED BY <1>0, <2>1, DeliveryAssumption DEF IntentsStay, RowsStay
<1>1. CASE UNCHANGED intent
  BY <1>0, <1>1 DEF RefundsAreBacked
<1>2. ASSUME NEW w \in Workers, NEW i \in Intents, NEW s \in IntentStatuses,
             NewIntent(i, proc[w].order, s)
      PROVE  RefundsAreBacked'
  <2>1. \A j \in Intents : intent'[j].refunds > 0 => intent[j].refunds > 0
    BY <1>2 DEF NewIntent
  <2> QED BY <1>0, <2>1 DEF RefundsAreBacked
<1>3. ASSUME NEW w \in Workers, Capture(w)
      PROVE  RefundsAreBacked'
  <2>1. \A j \in Intents : intent'[j].refunds > 0 => intent[j].refunds > 0
    BY <1>3 DEF Capture
  <2> QED BY <1>0, <2>1 DEF RefundsAreBacked
<1>4. ASSUME NEW w \in Workers, proc[w].at = "refundCall", PayBack(w)
      PROVE  RefundsAreBacked'
  <2>1. \A j \in Intents : intent'[j].refunds > 0
                             => intent[j].refunds > 0 \/ j = proc[w].intent
    BY <1>4 DEF PayBack
  <2>2. /\ proc[w].intent \in Intents /\ intent[proc[w].intent].captured
        /\ intent[proc[w].intent].order \in Orders
        /\ pay[intent[proc[w].intent].order].intent = proc[w].intent
    BY <1>4 DEF OrderLocals, PaymentLocals, HoldsRow, RowOK
  <2> QED BY <1>0, <2>1, <2>2 DEF RefundsAreBacked
<1> QED BY <1>1, <1>2, <1>3, <1>4, IntentWriters

-----------------------------------------------------------------------------
(* Events.                                                                 *)

\* A handler is spawned only by the goroutine that publishes its event.
LEMMA EventWriters ==
  ASSUME IInv, [Next]_vars, NEW t \in Topics, NEW o \in Orders, spawned'[t][o] > 0
  PROVE  \/ spawned[t][o] > 0
         \/ \E w \in Workers :
               /\ proc[w].order = o
               /\ \/ t = "payment.succeeded" /\ proc[w].at = "payPublish"
                  \/ /\ t = "order.cancelled" /\ proc[w].at = "orderPublish"
                     /\ proc[w].status = "canceled"
<1> DEFINE G == \/ spawned[t][o] > 0
                \/ \E w \in Workers :
                     /\ proc[w].order = o
                     /\ \/ t = "payment.succeeded" /\ proc[w].at = "payPublish"
                        \/ /\ t = "order.cancelled" /\ proc[w].at = "orderPublish"
                           /\ proc[w].status = "canceled"
<1> USE DEF IInv, TypeOK, DeliveryTypeOK
<1>1. CASE UNCHANGED spawned
  BY <1>1
<1>2. CASE Crash
  BY <1>2 DEF Crash
<1>3. ASSUME NEW w \in Workers, NEW u \in Topics, NEW q \in Orders, StartHandler(w, u, q)
      PROVE  G
  BY <1>3 DEF StartHandler
<1>4. ASSUME NEW w \in Workers, PublishTransition(w)
      PROVE  G
  <2>1. proc[w].order \in Orders
    BY <1>4 DEF PublishTransition, OrderLocals
  <2> QED BY <1>4, <2>1 DEF PublishTransition, Publish, Topics
<1>5. ASSUME NEW w \in Workers, PublishPaymentSuccess(w)
      PROVE  G
  <2>1. proc[w].order \in Orders
    BY <1>5 DEF PublishPaymentSuccess, OrderLocals
  <2> QED BY <1>5, <2>1 DEF PublishPaymentSuccess, Publish, Topics
<1>6. \/ UNCHANGED spawned
      \/ Crash
      \/ \E w \in Workers, u \in Topics, q \in Orders : StartHandler(w, u, q)
      \/ \E w \in Workers : PublishTransition(w) \/ PublishPaymentSuccess(w)
  BY ZenonT(40) DEF Next, NewRequest, RunHandler, Continue, OrderStep, PaymentStep, vars, deliveryVars,
         CreateOrder, TransitionRequest, CreatePaymentIntent, ConfirmPayment, RefundRequest,
         Request, HandlePaymentSucceeded, UpdateOrder, CheckOrder, CreateIntent,
         InsertPayment, CallConfirm, WriteConfirmed, WriteFailed,
         ReadPaymentForRefund, MarkRefunded, CallRefund, UndoRefund
<1> QED BY <1>1, <1>2, <1>3, <1>4, <1>5, <1>6

\* Every step keeps what a spawned handler may rely on.
LEMMA EventsStep ==
  ASSUME IInv, [Next]_vars, Grows
  PROVE  (\A o \in Orders : EventsOK(o))'
<1> SUFFICES ASSUME NEW o \in Orders
             PROVE  EventsOK(o)'
  OBVIOUS
<1>1. CapturedFor(o) => CapturedFor(o)'
  BY CapturedStays DEF Grows
<1>2. ASSUME spawned'["payment.succeeded"][o] > 0
      PROVE  CapturedFor(o)
  <2>1. \/ spawned["payment.succeeded"][o] > 0
        \/ \E w \in Workers : proc[w].order = o /\ proc[w].at = "payPublish"
    BY <1>2, EventWriters DEF Topics
  <2> QED BY <2>1 DEF IInv, EventsOK, PaymentLocals
<1>3. ASSUME spawned'["order.cancelled"][o] > 0
      PROVE  "canceled" \in held[o]
  <2>1. \/ spawned["order.cancelled"][o] > 0
        \/ \E w \in Workers : /\ proc[w].order = o /\ proc[w].at = "orderPublish"
                              /\ proc[w].status = "canceled"
    BY <1>3, EventWriters DEF Topics
  <2> QED BY <2>1 DEF IInv, EventsOK, OrderLocals
<1> QED BY <1>1, <1>2, <1>3 DEF EventsOK, Grows, OrdersGrow

-----------------------------------------------------------------------------
(* The goroutines.                                                         *)

\* What goroutine w holds agrees with the tables.
LocalsOK(w) == OrderLocals(proc[w]) /\ PaymentLocals(proc[w])

\* What a goroutine relies on is not undone by the others.
LEMMA OthersKeep ==
  ASSUME IInv, Grows, NEW w \in Workers, proc'[w] = proc[w]
  PROVE  LocalsOK(w)'
<1> DEFINE p == proc[w]
<1> USE DEF IInv, Grows
<1>1. OrderLocals(p) /\ PaymentLocals(p) /\ p \in ProcState
  BY DEF TypeOK, DeliveryTypeOK
<1>2. p.at # "idle" => p.order \in Orders
  BY <1>1 DEF OrderLocals
<1>3. \A o \in Orders : CapturedFor(o) => CapturedFor(o)'
  BY CapturedStays
<1>4. \A o \in Orders, s \in OrderStatus : Reached(o, s) => Reached(o, s)'
  BY ReachedStays
<1>5. OrderLocals(proc[w])'
  BY <1>1, <1>2, <1>3, <1>4 DEF OrderLocals, OrdersGrow
<1>6. p.at \in {"createIntent", "payInsert"} => order'[p.order] # "none"
  BY <1>1, <1>2 DEF PaymentLocals, OrdersGrow
<1>7. p.at = "payInsert" => /\ intent'[p.intent].order = p.order
                            /\ p.status = "succeeded" => intent'[p.intent].captured
  BY <1>1, <1>2, DeliveryAssumption DEF PaymentLocals, IntentsStay
<1>8. p.at \in HoldsRow => /\ pay'[p.order].status # "none"
                           /\ pay'[p.order].intent = p.intent
                           /\ intent[p.intent].captured => intent'[p.intent].captured
  BY <1>1, <1>2, DeliveryAssumption DEF PaymentLocals, RowsStay, IntentsStay, RowOK, HoldsRow
<1>9. p.at = "payPublish" => CapturedFor(p.order)'
  BY <1>1, <1>2, <1>3 DEF PaymentLocals
<1>10. PaymentLocals(proc[w])'
  BY <1>1, <1>6, <1>7, <1>8, <1>9 DEF PaymentLocals, HoldsRow
<1> QED BY <1>5, <1>10 DEF LocalsOK

\* A free goroutine relies on nothing.
LEMMA IdleKeeps ==
  ASSUME NEW w \in Workers, proc'[w] = Idle
  PROVE  LocalsOK(w)'
  BY DEF LocalsOK, OrderLocals, PaymentLocals, HoldsRow, Idle

\* A new attempt of a handler may rely on what its event told the last one.
LEMMA FailKeeps ==
  ASSUME IInv, Grows, NEW w \in Workers, proc[w].order \in Orders, Fail(w)
  PROVE  LocalsOK(w)'
<1> USE DEF IInv, Grows, TypeOK, DeliveryTypeOK
<1>1. CASE Finish(w)
  BY <1>1, IdleKeeps DEF Finish
<1>2. CASE /\ proc[w].op \in HandlerOps
           /\ proc' = [proc EXCEPT ![w] = [Idle EXCEPT !.op = proc[w].op, !.order = proc[w].order,
                                     !.at = "start", !.tries = NextAttempt(proc[w].tries)]]
  <2>1. /\ proc'[w].op = proc[w].op /\ proc'[w].order = proc[w].order
        /\ proc'[w].at = "start"
    BY <1>2 DEF Idle
  <2>2. proc'[w].op = "onPaid" => CapturedFor(proc[w].order)'
    <3>1. PICK o \in Orders : o = proc[w].order
      OBVIOUS
    <3>2. proc[w].op = "onPaid" => CapturedFor(o)'
      BY <3>1, CapturedStays DEF OrderLocals
    <3> QED BY <2>1, <3>1, <3>2 DEF CapturedFor
  <2>3. proc[w].op = "onCancelled" => "canceled" \in held'[proc[w].order]
    BY DEF OrderLocals, OrdersGrow
  <2> QED BY <1>2, <2>1, <2>2, <2>3 DEF LocalsOK, OrderLocals, PaymentLocals, HoldsRow, HandlerOps
<1> QED BY <1>1, <1>2 DEF Fail

\* Only its own steps, and a crash, change a goroutine.
LEMMA Actor ==
  ASSUME IInv, [Next]_vars, NEW w \in Workers, proc'[w] # proc[w]
  PROVE  \/ Crash
         \/ \E o \in Orders :
               \/ \E a \in Actions : TransitionRequest(w, o, a)
               \/ CreatePaymentIntent(w, o)
               \/ ConfirmPayment(w, o)
               \/ RefundRequest(w, o)
         \/ \E t \in Topics, o \in Orders : StartHandler(w, t, o)
         \/ OrderStep(w)
         \/ PaymentStep(w)
<1> USE DEF IInv, TypeOK, DeliveryTypeOK
<1>1. CASE UNCHANGED vars
  BY <1>1 DEF vars, deliveryVars
<1>2. ASSUME NEW o \in Orders, CreateOrder(o)
      PROVE  FALSE
  BY <1>2 DEF CreateOrder, deliveryVars
<1>3. ASSUME NEW v \in Workers, NewRequest(v) \/ RunHandler(v) \/ Continue(v), v # w
      PROVE  FALSE
  <2>1. CASE NewRequest(v) \/ RunHandler(v)
    BY <1>3, <2>1 DEF NewRequest, RunHandler, TransitionRequest, CreatePaymentIntent,
       ConfirmPayment, RefundRequest, Request, StartHandler
  <2>2. CASE OrderStep(v)
    BY <1>3, <2>2 DEF OrderStep, HandlePaymentSucceeded, UpdateOrder, PublishTransition,
       Goto, Finish, Fail
  <2>3. CASE PaymentStep(v)
    BY <1>3, <2>3 DEF PaymentStep, CheckOrder, CreateIntent, InsertPayment, DuplicateRefused,
       PublishPaymentSuccess, CallConfirm, WriteConfirmed, WriteFailed, ReadPaymentForRefund,
       DismissRefund, MarkRefunded, CallRefund, UndoRefund, Goto, Finish, Fail
  <2> QED BY <1>3, <2>1, <2>2, <2>3 DEF Continue
<1> QED BY <1>1, <1>2, <1>3 DEF Next, NewRequest, RunHandler, Continue

\* A goroutine inside the payment service goes from one call to the next.
LEMMA MoveKeeps ==
  ASSUME IInv, OrdersGrow, NEW w \in Workers,
         proc[w].at \notin {"idle", "orderUpdate", "orderPublish"}, proc[w].op # "onPaid",
         proc'[w].op = proc[w].op, proc'[w].order = proc[w].order,
         proc'[w].at \notin {"idle", "orderUpdate", "orderPublish"}
  PROVE  OrderLocals(proc[w])'
<1>1. OrderLocals(proc[w])
  BY DEF IInv
<1> QED BY <1>1 DEF OrderLocals, OrdersGrow

\* Every step keeps what the goroutines rely on between their calls.
LEMMA LocalsStep ==
  ASSUME IInv, [Next]_vars, Grows, NEW w \in Workers
  PROVE  LocalsOK(w)'
<1> DEFINE p == proc[w]
<1> USE DEF IInv, Grows, TypeOK, DeliveryTypeOK
<1>0. OrderLocals(p) /\ PaymentLocals(p)
  OBVIOUS
<1>1. CASE proc'[w] = proc[w]
  BY <1>1, OthersKeep
<1>2. CASE Crash
  BY <1>2, IdleKeeps DEF Crash
<1>3. ASSUME NEW o \in Orders, NEW a \in Actions, TransitionRequest(w, o, a)
      PROVE  LocalsOK(w)'
  <2>1. PICK to \in OrderStatus :
          /\ <<order[o], a, to>> \in Transitions
          /\ Request(w, [Idle EXCEPT !.op = IF a = "pay" THEN "manualPay" ELSE "transition",
                                     !.order = o, !.at = "orderUpdate", !.status = to])
    BY <1>3 DEF TransitionRequest
  <2>2. /\ proc'[w].order = o /\ proc'[w].at = "orderUpdate" /\ proc'[w].status = to
        /\ proc'[w].op = IF a = "pay" THEN "manualPay" ELSE "transition"
    BY <2>1 DEF Request, Idle
  <2>3. order[o] # "none" /\ order[o] \in held[o] /\ Reached(o, to) /\ (to = "paid" => a = "pay")
    BY <2>1 DEF Transitions, Reached, OrderOK
  <2>4. order'[o] # "none" /\ Reached(o, to)'
    BY <2>3, ReachedStays DEF OrdersGrow
  <2> QED BY <2>2, <2>3, <2>4 DEF LocalsOK, OrderLocals, PaymentLocals, HoldsRow, Reached
<1>4. ASSUME NEW o \in Orders, CreatePaymentIntent(w, o)
      PROVE  LocalsOK(w)'
  <2>1. proc'[w].op \in {"reattempt", "intent"} /\ proc'[w].order = o /\ proc'[w].at = "orderCheck"
    BY ZenonT(40), <1>4 DEF CreatePaymentIntent, Request, Idle
  <2> QED BY <2>1 DEF LocalsOK, OrderLocals, PaymentLocals, HoldsRow
<1>5. ASSUME NEW o \in Orders, ConfirmPayment(w, o)
      PROVE  LocalsOK(w)'
  <2>1. /\ proc'[w].op = "confirm" /\ proc'[w].order = o
        /\ proc'[w].at \in {"confirmCall", "confirmExpire"}
        /\ proc'[w].intent = pay[o].intent /\ pay[o].status # "none"
    BY <1>5 DEF ConfirmPayment, Confirmable, Request, Idle
  <2>2. pay'[o].status # "none" /\ pay'[o].intent = pay[o].intent
    BY <2>1 DEF RowsStay
  <2> QED BY <2>1, <2>2 DEF LocalsOK, OrderLocals, PaymentLocals, HoldsRow
<1>6. ASSUME NEW o \in Orders, RefundRequest(w, o)
      PROVE  LocalsOK(w)'
  <2>1. proc'[w].op = "refund" /\ proc'[w].order = o /\ proc'[w].at = "start"
    BY <1>6 DEF RefundRequest, Request, Idle
  <2> QED BY <2>1 DEF LocalsOK, OrderLocals, PaymentLocals, HoldsRow
<1>7. ASSUME NEW t \in Topics, NEW o \in Orders, StartHandler(w, t, o)
      PROVE  LocalsOK(w)'
  <2>1. proc'[w].op = HandlerOf(t) /\ proc'[w].order = o /\ proc'[w].at = "start"
    BY <1>7 DEF StartHandler, Idle
  <2>2. t = "payment.succeeded" => CapturedFor(o)'
    BY <1>7, CapturedStays DEF StartHandler, EventsOK
  <2>3. t = "order.cancelled" => "canceled" \in held'[o]
    BY <1>7 DEF StartHandler, EventsOK, OrdersGrow
  <2>4. t = "payment.succeeded" \/ t = "order.cancelled"
    BY DEF Topics
  <2>5. CapturedFor(proc[w].order)' <=> CapturedFor(o)'
    BY <2>1 DEF CapturedFor
  <2> QED BY <2>1, <2>2, <2>3, <2>4, <2>5 DEF HandlerOf, LocalsOK, OrderLocals, PaymentLocals, HoldsRow
<1>8. CASE HandlePaymentSucceeded(w)
  <2>1. p.op = "onPaid" /\ p.order \in Orders /\ CapturedFor(p.order)
    BY <1>0, <1>8 DEF HandlePaymentSucceeded, OrderLocals
  <2>2. CASE Fail(w)
    BY <2>1, <2>2, FailKeeps
  <2>3. CASE /\ <<order[p.order], "pay", "paid">> \in Transitions
             /\ proc' = [proc EXCEPT ![w].at = "orderUpdate", ![w].status = "paid"]
    <3>1. /\ proc'[w].op = "onPaid" /\ proc'[w].order = p.order
          /\ proc'[w].at = "orderUpdate" /\ proc'[w].status = "paid"
      BY <2>1, <2>3
    <3>2. order[p.order] = "pending" /\ "pending" \in held[p.order]
      BY <2>1, <2>3 DEF Transitions, OrderOK
    <3>3. order'[p.order] # "none" /\ "pending" \in held'[p.order]
      BY <2>1, <3>2 DEF OrdersGrow
    <3>4. CapturedFor(proc[w].order)'
      <4>1. PICK o \in Orders : o = p.order
        BY <2>1
      <4>2. CapturedFor(o)'
        BY <2>1, <4>1, CapturedStays
      <4> QED BY <3>1, <4>1, <4>2 DEF CapturedFor
    <3> QED BY <2>1, <3>1, <3>3, <3>4
            DEF LocalsOK, OrderLocals, PaymentLocals, HoldsRow, Reached, OrderStatus
  <2> QED BY <1>8, <2>2, <2>3 DEF HandlePaymentSucceeded
<1>9. CASE UpdateOrder(w)
  <2>1. /\ p.at = "orderUpdate" /\ p.order \in Orders /\ p.status \in OrderStatus \ {"pending"}
        /\ order[p.order] # "none" /\ Reached(p.order, p.status)
    BY <1>0, <1>9 DEF UpdateOrder, OrderLocals, Reached
  <2>2. CASE Fail(w)
    BY <2>1, <2>2, FailKeeps
  <2>3. CASE WriteStatus(w) /\ Goto(w, "orderPublish")
    <3>1. /\ proc'[w].op = p.op /\ proc'[w].order = p.order
          /\ proc'[w].at = "orderPublish" /\ proc'[w].status = p.status
      BY <2>3 DEF Goto
    <3>2. order'[p.order] = p.status /\ p.status \in held'[p.order]
      BY <2>1, <2>3 DEF WriteStatus, OrdersTypeOK
    <3>3. Reached(p.order, p.status)'
      BY <2>1, <3>1 DEF OrdersGrow, Reached
    <3>4. p.op = "onPaid" => CapturedFor(proc[w].order)'
      <4>1. PICK o \in Orders : o = p.order
        BY <2>1
      <4>2. p.op = "onPaid" => CapturedFor(o)'
        BY <1>0, <4>1, CapturedStays DEF OrderLocals
      <4> QED BY <3>1, <4>1, <4>2 DEF CapturedFor
    <3>5. OrderLocals(proc[w])'
      BY <1>0, <2>1, <3>1, <3>2, <3>3, <3>4 DEF OrderLocals, OrderStatus, OrdersGrow
    <3>6. PaymentLocals(proc[w])'
      BY <3>1 DEF PaymentLocals, HoldsRow
    <3> QED BY <3>5, <3>6 DEF LocalsOK
  <2> QED BY <1>9, <2>2, <2>3 DEF UpdateOrder
<1>10. CASE CheckOrder(w)
  <2>1. p.order \in Orders /\ p.at = "orderCheck" /\ p.op # "onPaid"
    BY <1>0, <1>10 DEF CheckOrder, OrderLocals
  <2>2. CASE Finish(w)
    BY <2>2, IdleKeeps DEF Finish
  <2>3. CASE Payable(order[p.order]) /\ Goto(w, "createIntent")
    <3>1. /\ proc'[w].op = p.op /\ proc'[w].order = p.order /\ proc'[w].at = "createIntent"
      BY <2>3 DEF Goto
    <3>2. order'[p.order] # "none"
      BY <2>1, <2>3 DEF Payable, OrdersGrow
    <3> QED BY <2>1, <3>1, <3>2, MoveKeeps DEF LocalsOK, PaymentLocals, HoldsRow
  <2> QED BY <1>10, <2>2, <2>3 DEF CheckOrder
<1>11. CASE CreateIntent(w)
  <2>1. p.order \in Orders /\ p.at = "createIntent" /\ p.op # "onPaid" /\ order[p.order] # "none"
    BY <1>0, <1>11 DEF CreateIntent, OrderLocals, PaymentLocals
  <2>2. CASE Finish(w)
    BY <2>2, IdleKeeps DEF Finish
  <2>3. ASSUME NEW i \in Intents, NEW s \in IntentStatuses, NewIntent(i, p.order, s),
               proc' = [proc EXCEPT ![w].at = "payInsert", ![w].status = s, ![w].intent = i]
        PROVE  LocalsOK(w)'
    <3>1. /\ proc'[w].op = p.op /\ proc'[w].order = p.order /\ proc'[w].at = "payInsert"
          /\ proc'[w].status = s /\ proc'[w].intent = i
      BY <2>3
    <3>2. intent'[i].order = p.order /\ (s = "succeeded" => intent'[i].captured)
      BY <2>3 DEF NewIntent, PaymentsTypeOK
    <3>3. order'[p.order] # "none"
      BY <2>1 DEF OrdersGrow
    <3> QED BY <2>1, <3>1, <3>2, <3>3, MoveKeeps DEF LocalsOK, PaymentLocals, HoldsRow
  <2> QED BY <1>11, <2>2, <2>3 DEF CreateIntent
<1>12. CASE InsertPayment(w)
  <2>1. /\ p.order \in Orders /\ p.at = "payInsert" /\ p.op # "onPaid"
        /\ p.intent \in Intents /\ intent[p.intent].order = p.order
        /\ p.status = "succeeded" => intent[p.intent].captured
    BY <1>0, <1>12 DEF InsertPayment, OrderLocals, PaymentLocals
  <2>2. CASE Finish(w)
    BY <2>2, IdleKeeps DEF Finish
  <2>3. CASE PaidAtOnce(p.status) /\ Goto(w, "payPublish")
    <3>1. /\ proc'[w].op = p.op /\ proc'[w].order = p.order /\ proc'[w].at = "payPublish"
      BY <2>3 DEF Goto
    <3>2. CapturedFor(proc[w].order)'
      BY <2>1, <2>3, <3>1, DeliveryAssumption DEF PaidAtOnce, CapturedFor, IntentsStay
    <3> QED BY <2>1, <3>1, <3>2, MoveKeeps DEF LocalsOK, PaymentLocals, HoldsRow
  <2> QED BY <1>12, <2>2, <2>3 DEF InsertPayment, DuplicateRefused
<1>13. CASE CallConfirm(w)
  <2>1. /\ p.order \in Orders /\ p.at = "confirmCall" /\ p.op # "onPaid"
        /\ pay[p.order].status # "none" /\ pay[p.order].intent = p.intent /\ p.intent \in Intents
    BY <1>0, <1>13 DEF CallConfirm, OrderLocals, PaymentLocals, HoldsRow, RowOK
  <2>2. pay'[p.order].status # "none" /\ pay'[p.order].intent = p.intent
    BY <2>1 DEF RowsStay
  <2>3. CASE Capture(w) /\ Goto(w, "confirmWrite")
    <3>1. /\ proc'[w].op = p.op /\ proc'[w].order = p.order /\ proc'[w].at = "confirmWrite"
          /\ proc'[w].intent = p.intent
      BY <2>3 DEF Goto
    <3>2. intent'[p.intent].captured
      BY <2>1, <2>3 DEF Capture, PaymentsTypeOK, ProviderIntent
    <3> QED BY <2>1, <2>2, <3>1, <3>2, MoveKeeps DEF LocalsOK, PaymentLocals, HoldsRow
  <2>4. CASE Goto(w, "confirmFail")
    <3>1. /\ proc'[w].op = p.op /\ proc'[w].order = p.order /\ proc'[w].at = "confirmFail"
          /\ proc'[w].intent = p.intent
      BY <2>4 DEF Goto
    <3> QED BY <2>1, <2>2, <3>1, MoveKeeps DEF LocalsOK, PaymentLocals, HoldsRow
  <2> QED BY <1>13, <2>3, <2>4 DEF CallConfirm
<1>14. CASE WriteConfirmed(w)
  <2>1. /\ p.order \in Orders /\ p.at = "confirmWrite" /\ p.op # "onPaid"
        /\ p.intent \in Intents /\ intent[p.intent].order = p.order /\ intent[p.intent].captured
    BY <1>0, <1>14 DEF WriteConfirmed, OrderLocals, PaymentLocals, HoldsRow, RowOK
  <2>2. CASE Finish(w)
    BY <2>2, IdleKeeps DEF Finish
  <2>3. CASE Goto(w, "payPublish")
    <3>1. /\ proc'[w].op = p.op /\ proc'[w].order = p.order /\ proc'[w].at = "payPublish"
      BY <2>3 DEF Goto
    <3>2. CapturedFor(proc[w].order)'
      BY <2>1, <3>1, DeliveryAssumption DEF CapturedFor, IntentsStay
    <3> QED BY <2>1, <3>1, <3>2, MoveKeeps DEF LocalsOK, PaymentLocals, HoldsRow
  <2> QED BY <1>14, <2>2, <2>3 DEF WriteConfirmed
<1>15. CASE ReadPaymentForRefund(w)
  <2>1. /\ p.order \in Orders /\ p.at = "start" /\ p.op # "onPaid"
    BY <1>0, <1>15 DEF ReadPaymentForRefund, OrderLocals
  <2>2. CASE Finish(w)
    BY <2>2, IdleKeeps DEF Finish
  <2>3. CASE Fail(w)
    BY <2>1, <2>3, FailKeeps
  <2>4. CASE /\ Refundable(pay[p.order].status)
             /\ proc' = [proc EXCEPT ![w].at = "refundMark", ![w].intent = pay[p.order].intent]
    <3>1. /\ proc'[w].op = p.op /\ proc'[w].order = p.order /\ proc'[w].at = "refundMark"
          /\ proc'[w].intent = pay[p.order].intent
      BY <2>4
    <3>2. /\ pay[p.order].status # "none" /\ pay[p.order].intent \in Intents
          /\ intent[pay[p.order].intent].order = p.order
          /\ intent[pay[p.order].intent].captured
      BY <2>1, <2>4 DEF Refundable, RowOK
    <3>3. /\ pay'[p.order].status # "none" /\ pay'[p.order].intent = pay[p.order].intent
          /\ intent'[pay[p.order].intent].captured
      BY <2>1, <3>2, DeliveryAssumption DEF RowsStay, IntentsStay
    <3> QED BY <2>1, <3>1, <3>3, MoveKeeps DEF LocalsOK, PaymentLocals, HoldsRow
  <2> QED BY <1>15, <2>2, <2>3, <2>4 DEF ReadPaymentForRefund, DismissRefund
<1>16. ASSUME p.at \in {"refundMark", "refundCall", "refundUndo"}, NEW l \in {"refundCall", "refundUndo"},
             Goto(w, l)
       PROVE  LocalsOK(w)'
  <2>1. /\ p.order \in Orders /\ p.op # "onPaid"
        /\ pay[p.order].status # "none" /\ pay[p.order].intent = p.intent
        /\ p.intent \in Intents /\ intent[p.intent].order = p.order /\ intent[p.intent].captured
    BY <1>0, <1>16 DEF OrderLocals, PaymentLocals, HoldsRow, RowOK
  <2>2. /\ pay'[p.order].status # "none" /\ pay'[p.order].intent = p.intent
        /\ intent'[p.intent].captured
    BY <2>1, DeliveryAssumption DEF RowsStay, IntentsStay
  <2>3. /\ proc'[w].op = p.op /\ proc'[w].order = p.order /\ proc'[w].at = l
        /\ proc'[w].intent = p.intent
    BY <1>16 DEF Goto
  <2> QED BY <1>16, <2>1, <2>2, <2>3, MoveKeeps DEF LocalsOK, PaymentLocals, HoldsRow
<1>17. CASE MarkRefunded(w) \/ CallRefund(w) \/ UndoRefund(w)
  <2>1. /\ p.order \in Orders /\ p.at \in {"refundMark", "refundCall", "refundUndo"}
        /\ Finish(w) \/ Fail(w) \/ \E l \in {"refundCall", "refundUndo"} : Goto(w, l)
    BY <1>0, <1>17 DEF MarkRefunded, CallRefund, UndoRefund, OrderLocals
  <2>2. CASE Finish(w)
    BY <2>2, IdleKeeps DEF Finish
  <2>3. CASE Fail(w)
    BY <2>1, <2>3, FailKeeps
  <2> QED BY <1>16, <2>1, <2>2, <2>3
<1>18. CASE PublishTransition(w) \/ PublishPaymentSuccess(w) \/ WriteFailed(w)
  BY <1>18, IdleKeeps DEF PublishTransition, PublishPaymentSuccess, WriteFailed, Finish
<1> QED
  BY <1>1, <1>2, <1>3, <1>4, <1>5, <1>6, <1>7, <1>8, <1>9, <1>10, <1>11, <1>12, <1>13,
     <1>14, <1>15, <1>16, <1>17, <1>18, Actor DEF OrderStep, PaymentStep

-----------------------------------------------------------------------------
(* Payments on their way to the order.                                     *)

\* The steps of the payment service leave the orders table alone.
LEMMA PaymentSteps ==
  ASSUME [Next]_vars, pay' # pay
  PROVE  \E w \in Workers : \/ InsertPayment(w) \/ WriteConfirmed(w) \/ WriteFailed(w)
                            \/ MarkRefunded(w) \/ UndoRefund(w)
  BY DEF Next, NewRequest, RunHandler, Continue, OrderStep, PaymentStep, Crash, vars,
         CreateOrder, TransitionRequest, CreatePaymentIntent, ConfirmPayment, RefundRequest,
         CheckOrder, CreateIntent, PublishPaymentSuccess, CallConfirm, ReadPaymentForRefund,
         CallRefund, paymentVars

\* Only a crash forgets a dead letter; no step forgets a lost answer.
LEMMA Remembered ==
  ASSUME [Next]_vars, ~Crash
  PROVE  dead \subseteq dead' /\ unacked \subseteq unacked'
<1>0. ASSUME NEW w \in Workers, Fail(w)
      PROVE  dead \subseteq dead'
  BY <1>0 DEF Fail, DeadLetter
<1>1. dead \subseteq dead'
  <2>1. ASSUME NEW w \in Workers, OrderStep(w)
        PROVE  dead \subseteq dead'
    BY <1>0, <2>1 DEF OrderStep, HandlePaymentSucceeded, UpdateOrder, PublishTransition
  <2>2. ASSUME NEW w \in Workers, PaymentStep(w)
        PROVE  dead \subseteq dead'
    BY <1>0, <2>2 DEF PaymentStep, CheckOrder, CreateIntent, InsertPayment,
       PublishPaymentSuccess, CallConfirm, WriteConfirmed, WriteFailed, ReadPaymentForRefund,
       MarkRefunded, CallRefund, UndoRefund
  <2>3. ASSUME NEW w \in Workers, NewRequest(w) \/ RunHandler(w)
        PROVE  dead \subseteq dead'
    BY <2>3 DEF NewRequest, RunHandler, StartHandler, Request, TransitionRequest,
       CreatePaymentIntent, ConfirmPayment, RefundRequest
  <2>4. ASSUME NEW o \in Orders, CreateOrder(o)
        PROVE  dead \subseteq dead'
    BY <2>4 DEF CreateOrder, deliveryVars
  <2>5. CASE UNCHANGED vars
    BY <2>5 DEF vars, deliveryVars
  <2> QED BY <2>1, <2>2, <2>3, <2>4, <2>5 DEF Next, Continue
<1>2. unacked \subseteq unacked'
  BY ZenonT(40) DEF Next, NewRequest, RunHandler, Continue, OrderStep, PaymentStep, vars, paymentVars,
         CreateOrder, TransitionRequest, CreatePaymentIntent, ConfirmPayment, RefundRequest,
         HandlePaymentSucceeded, UpdateOrder, PublishTransition, CheckOrder, CreateIntent,
         InsertPayment, PublishPaymentSuccess, CallConfirm, WriteConfirmed, WriteFailed,
         ReadPaymentForRefund, MarkRefunded, CallRefund, UndoRefund, Unacknowledged
<1> QED BY <1>1, <1>2

\* A goroutine that carries o's success passes it on, one way or another.
Carries(w, o) == proc[w].order = o /\ (proc[w].op = "onPaid" \/ proc[w].at = "payPublish")

\* The step of a carrier publishes, retries, dead-letters or pays the order.
LEMMA CarrierStep ==
  ASSUME IInv, [Next]_vars, ~Crash, NEW w \in Workers, NEW o \in Orders,
         Carries(w, o), order[o] = "pending"
  PROVE  SuccessOnItsWay(o)'
<1> USE DEF IInv, TypeOK, DeliveryTypeOK
<1>1. CASE proc'[w] = proc[w]
  BY <1>1 DEF Carries, SuccessOnItsWay
<1>2. ASSUME Fail(w), proc[w].op = "onPaid"
      PROVE  SuccessOnItsWay(o)'
  <2>1. CASE /\ proc' = [proc EXCEPT ![w] = [Idle EXCEPT !.op = proc[w].op, !.order = proc[w].order,
                                     !.at = "start", !.tries = NextAttempt(proc[w].tries)]]
    <3>1. proc'[w].op = "onPaid" /\ proc'[w].order = o
      BY <1>2, <2>1 DEF Idle, Carries
    <3> QED BY <3>1 DEF SuccessOnItsWay
  <2>2. CASE DeadLetter(TopicOf(proc[w].op), proc[w].order)
    BY <1>2, <2>2 DEF DeadLetter, TopicOf, SuccessOnItsWay, Carries
  <2> QED BY <1>2, <2>1, <2>2 DEF Fail, RequestOps, HandlerOps
<1>3. CASE HandlePaymentSucceeded(w)
  <2>1. CASE proc' = [proc EXCEPT ![w].at = "orderUpdate", ![w].status = "paid"]
    <3>1. proc'[w].op = "onPaid" /\ proc'[w].order = o
      BY <1>3, <2>1 DEF HandlePaymentSucceeded, Carries
    <3> QED BY <3>1 DEF SuccessOnItsWay
  <2> QED BY <1>2, <1>3, <2>1 DEF HandlePaymentSucceeded
<1>4. CASE UpdateOrder(w)
  <2>1. proc[w].op = "onPaid"
    BY <1>4 DEF UpdateOrder, Carries
  <2>2. CASE Goto(w, "orderPublish")
    <3>1. proc'[w].op = "onPaid" /\ proc'[w].order = o
      BY <2>1, <2>2 DEF Goto, Carries
    <3> QED BY <3>1 DEF SuccessOnItsWay
  <2> QED BY <1>2, <1>4, <2>1, <2>2 DEF UpdateOrder
<1>5. CASE PublishPaymentSuccess(w)
  <2>1. spawned'["payment.succeeded"][o] > 0
    BY <1>5 DEF PublishPaymentSuccess, Publish, Topics, Carries
  <2> QED BY <2>1 DEF SuccessOnItsWay
<1>6. CASE PublishTransition(w)
  BY <1>6 DEF PublishTransition, OrderLocals, Carries
<1>7. ~Free(w)
  BY DEF Free, Idle, Carries
<1>8. CASE PaymentStep(w) /\ ~PublishPaymentSuccess(w)
  <2>1. proc[w].at \in {"start", "orderUpdate", "orderPublish", "payPublish"}
    BY DEF OrderLocals, Carries
  <2> QED BY <1>8, <2>1 DEF PaymentStep, CheckOrder, CreateIntent, InsertPayment, CallConfirm,
       WriteConfirmed, WriteFailed, ReadPaymentForRefund, MarkRefunded, CallRefund, UndoRefund,
       Carries
<1> QED
  BY <1>1, <1>3, <1>4, <1>5, <1>6, <1>7, <1>8, Actor
     DEF OrderStep, TransitionRequest, CreatePaymentIntent, ConfirmPayment, RefundRequest,
         Request, StartHandler

\* A spawned handler stays spawned until some goroutine runs it.
LEMMA SpawnedStep ==
  ASSUME IInv, [Next]_vars, ~Crash, NEW o \in Orders, spawned["payment.succeeded"][o] > 0
  PROVE  SuccessOnItsWay(o)'
<1> USE DEF IInv, TypeOK, DeliveryTypeOK
<1>1. CASE spawned'["payment.succeeded"][o] > 0
  BY <1>1 DEF SuccessOnItsWay
<1>2. ASSUME NEW w \in Workers, NEW t \in Topics, NEW q \in Orders, StartHandler(w, t, q)
      PROVE  SuccessOnItsWay(o)'
  <2>1. CASE t = "payment.succeeded" /\ q = o
    <3>1. proc'[w].op = "onPaid" /\ proc'[w].order = o
      BY <1>2, <2>1 DEF StartHandler, Idle, HandlerOf
    <3> QED BY <3>1 DEF SuccessOnItsWay
  <2>2. CASE ~(t = "payment.succeeded" /\ q = o)
    <3>1. spawned'["payment.succeeded"][o] = spawned["payment.succeeded"][o]
      BY <1>2, <2>2 DEF StartHandler, Topics
    <3> QED BY <1>1, <3>1
  <2> QED BY <2>1, <2>2
<1>3. ASSUME NEW w \in Workers, PublishTransition(w) \/ PublishPaymentSuccess(w)
      PROVE  SuccessOnItsWay(o)'
  <2>1. spawned'["payment.succeeded"][o] > 0
    BY <1>3 DEF PublishTransition, PublishPaymentSuccess, Publish, Topics
  <2> QED BY <1>1, <2>1
<1>4. \/ UNCHANGED spawned
      \/ \E w \in Workers, u \in Topics, q \in Orders : StartHandler(w, u, q)
      \/ \E w \in Workers : PublishTransition(w) \/ PublishPaymentSuccess(w)
  BY ZenonT(40) DEF Next, NewRequest, RunHandler, Continue, OrderStep, PaymentStep, vars, deliveryVars,
         CreateOrder, TransitionRequest, CreatePaymentIntent, ConfirmPayment, RefundRequest,
         Request, HandlePaymentSucceeded, UpdateOrder, CheckOrder, CreateIntent,
         InsertPayment, CallConfirm, WriteConfirmed, WriteFailed,
         ReadPaymentForRefund, MarkRefunded, CallRefund, UndoRefund
<1> QED BY <1>1, <1>2, <1>3, <1>4

\* Every step keeps a recorded payment from being forgotten.
LEMMA NotForgottenStep ==
  ASSUME IInv, [Next]_vars, Grows, TypeOK'
  PROVE  PaymentNotForgotten'
<1> USE DEF IInv, TypeOK, DeliveryTypeOK, Grows
<1> SUFFICES ASSUME NEW o \in Orders, pay'[o].status = "succeeded", order'[o] = "pending",
                    crashes' = 0
             PROVE  SuccessOnItsWay(o)' \/ o \in unacked'
  BY DEF PaymentNotForgotten
<1>1. ~Crash
  BY CrashAssumption DEF Crash
<1>2. crashes = 0
  BY <1>1 DEF Next, vars
<1>3. CASE pay[o].status = "succeeded"
  <2>1. order[o] = "pending"
    BY <1>3 DEF RowOK, OrdersGrow
  <2>2. SuccessOnItsWay(o) \/ o \in unacked
    BY <1>2, <1>3, <2>1 DEF PaymentNotForgotten
  <2>3. CASE o \in unacked
    BY <1>1, <2>3, Remembered
  <2>4. CASE spawned["payment.succeeded"][o] > 0
    BY <1>1, <2>4, SpawnedStep
  <2>5. CASE <<"payment.succeeded", o>> \in dead
    BY <1>1, <2>5, Remembered DEF SuccessOnItsWay
  <2>6. ASSUME NEW w \in Workers, Carries(w, o)
        PROVE  SuccessOnItsWay(o)'
    BY <1>1, <2>1, <2>6, CarrierStep
  <2> QED BY <2>2, <2>3, <2>4, <2>5, <2>6 DEF SuccessOnItsWay, Carries
<1>4. CASE pay[o].status # "succeeded"
  <2>1. PICK w \in Workers : \/ InsertPayment(w) \/ WriteConfirmed(w) \/ WriteFailed(w)
                             \/ MarkRefunded(w) \/ UndoRefund(w)
    BY <1>4, PaymentSteps
  <2>2. proc[w].order \in Orders
    BY <2>1 DEF InsertPayment, WriteConfirmed, WriteFailed, MarkRefunded, UndoRefund, OrderLocals
  <2>3. CASE InsertPayment(w)
    <3>1. proc[w].order = o /\ proc[w].status = "succeeded"
      BY <1>4, <2>2, <2>3 DEF InsertPayment, DuplicateRefused, PaymentsTypeOK
    <3>2. \/ Goto(w, "payPublish")
          \/ Unacknowledged(o, "succeeded")
      BY <1>4, <2>3, <3>1 DEF InsertPayment, DuplicateRefused, PaidAtOnce
    <3>3. Goto(w, "payPublish") => proc'[w].order = o /\ proc'[w].at = "payPublish"
      BY <3>1 DEF Goto
    <3> QED BY <3>2, <3>3 DEF Unacknowledged, SuccessOnItsWay
  <2>4. CASE WriteConfirmed(w)
    <3>1. proc[w].order = o
      BY <1>4, <2>2, <2>4 DEF WriteConfirmed, WritePayment, PaymentsTypeOK
    <3>2. \/ Goto(w, "payPublish")
          \/ Unacknowledged(o, "succeeded")
      BY <1>4, <2>4, <3>1 DEF WriteConfirmed
    <3>3. Goto(w, "payPublish") => proc'[w].order = o /\ proc'[w].at = "payPublish"
      BY <3>1 DEF Goto
    <3> QED BY <3>2, <3>3 DEF Unacknowledged, SuccessOnItsWay
  <2>5. CASE WriteFailed(w) \/ MarkRefunded(w) \/ UndoRefund(w)
    BY <1>4, <2>2, <2>5 DEF WriteFailed, MarkRefunded, UndoRefund, WritePayment, PaymentsTypeOK,
       PaymentRow
  <2> QED BY <2>1, <2>3, <2>4, <2>5
<1> QED BY <1>3, <1>4

-----------------------------------------------------------------------------
(* The theorems.                                                           *)

\* The inductive invariant holds in the initial states.
LEMMA InitIInv == Init => IInv
<1> SUFFICES ASSUME Init PROVE IInv
  OBVIOUS
<1> USE DeliveryAssumption, CrashAssumption
<1> USE DEF Init, DeliveryInit, OrdersInit, PaymentsInit
<1>1. TypeOK
  <2>1. NoPayment \in PaymentRow /\ NoSuchIntent \in ProviderIntent
    BY DEF NoPayment, PaymentRow, NoSuchIntent, ProviderIntent
  <2> QED BY <2>1, IdleIsState DEF TypeOK, DeliveryTypeOK, OrdersTypeOK, PaymentsTypeOK
<1>2. ASSUME NEW w \in Workers
      PROVE  OrderLocals(proc[w]) /\ PaymentLocals(proc[w])
  BY DEF OrderLocals, PaymentLocals, HoldsRow, Idle
<1>3. ASSUME NEW o \in Orders
      PROVE  RowOK(o) /\ OrderOK(o) /\ EventsOK(o)
  BY DEF RowOK, OrderOK, EventsOK, NoPayment, Topics
<1>4. ASSUME NEW i \in Intents
      PROVE  IntentOK(i)
  BY DEF IntentOK, NoSuchIntent
<1>5. NoStepSkipped /\ RefundsAreBacked /\ PaymentNotForgotten
  BY DEF NoStepSkipped, RefundsAreBacked, PaymentNotForgotten, NoSuchIntent, NoPayment
<1> QED BY <1>1, <1>2, <1>3, <1>4, <1>5 DEF IInv

\* Every step of the checkout preserves the inductive invariant.
LEMMA NextIInv == IInv /\ [Next]_vars => IInv'
<1> SUFFICES ASSUME IInv, [Next]_vars PROVE IInv'
  OBVIOUS
<1>1. TypeOK'
  BY TypeStep
<1>2. Grows
  BY OrdersGrowStep, RowsStayStep, IntentsStayStep DEF Grows
<1>3. (\A w \in Workers : OrderLocals(proc[w]) /\ PaymentLocals(proc[w]))'
  BY <1>2, LocalsStep DEF LocalsOK
<1>4. (\A o \in Orders : RowOK(o) /\ OrderOK(o) /\ EventsOK(o))'
  BY <1>2, RowsStep, OrdersStep, EventsStep DEF Grows
<1>5. (\A i \in Intents : IntentOK(i))'
  BY IntentsStep
<1>6. NoStepSkipped' /\ RefundsAreBacked' /\ PaymentNotForgotten'
  BY <1>1, <1>2, OrdersStep, RefundsStep, NotForgottenStep DEF Grows
<1> QED BY <1>1, <1>3, <1>4, <1>5, <1>6 DEF IInv

\* The invariant that all the others follow from holds in every behaviour.
THEOREM Inductive == Spec => []IInv
  BY InitIInv, NextIInv, PTL DEF Spec

(***************************************************************************)
(* Every variable always has its type: a handler is never tried more than  *)
(* MaxRetries times, and no row names an intent that was never created.    *)
(***************************************************************************)
THEOREM TypeCorrect == Spec => []TypeOK
<1>1. IInv => TypeOK
  BY DEF IInv
<1> QED BY <1>1, Inductive, PTL

(***************************************************************************)
(* No order is treated as paid unless its money was captured or an admin   *)
(* said so, whatever the races, failures and crashes.                      *)
(***************************************************************************)
THEOREM PaidIsCaptured == Spec => []PaidMeansCaptured
<1>1. IInv => PaidMeansCaptured
  BY DEF IInv, OrderOK, NoStepSkipped, PaidMeansCaptured
<1> QED BY <1>1, Inductive, PTL

(***************************************************************************)
(* Nothing is shipped that was not paid, nor done that was not shipped.    *)
(***************************************************************************)
THEOREM StepsInOrder == Spec => []NoStepSkipped
<1>1. IInv => NoStepSkipped
  BY DEF IInv
<1> QED BY <1>1, Inductive, PTL

(***************************************************************************)
(* Only captured money of the order's own payment row is paid back.        *)
(***************************************************************************)
THEOREM RefundsBacked == Spec => []RefundsAreBacked
<1>1. IInv => RefundsAreBacked
  BY DEF IInv
<1> QED BY <1>1, Inductive, PTL

(***************************************************************************)
(* An automatic refund is only spawned or run for an order whose row has   *)
(* held "canceled".                                                        *)
(***************************************************************************)
THEOREM RefundAfterCancel == Spec => []AutoRefundFollowsCancel
<1>1. IInv => AutoRefundFollowsCancel
  BY DEF IInv, EventsOK, OrderLocals, AutoRefundFollowsCancel
<1> QED BY <1>1, Inductive, PTL

(***************************************************************************)
(* A payment recorded as succeeded is on its way to its pending order, or  *)
(* dead-lettered, unless a crash or a lost answer intervened.              *)
(***************************************************************************)
THEOREM NotForgotten == Spec => []PaymentNotForgotten
<1>1. IInv => PaymentNotForgotten
  BY DEF IInv
<1> QED BY <1>1, Inductive, PTL

(***************************************************************************)
(* No step undoes what another goroutine relies on: statuses once held,    *)
(* rows and their intents, captured money.                                 *)
(***************************************************************************)
THEOREM NothingUndone == Spec => [][Grows]_vars
<1>1. IInv /\ [Next]_vars => [Grows]_vars
  BY OrdersGrowStep, RowsStayStep, IntentsStayStep DEF Grows
<1> QED BY <1>1, Inductive, PTL DEF Spec

-----------------------------------------------------------------------------
(* The money of cancelled orders, while no call fails and nothing crashes. *)

\* A goroutine that will settle, or pass on, what becomes of its order's money.
Settling(p) ==
    \/ p.at \in {"confirmWrite", "payPublish", "refundMark", "refundCall"}
    \/ p.op = "onCancelled" /\ p.at = "start"
    \/ p.op = "onPaid" /\ p.at \in {"start", "orderUpdate"}
    \/ p.at = "orderPublish" /\ p.status = "canceled"

\* An event or a goroutine that concerns the money of o is still in the process.
UnderWay(o) ==
    \/ \E t \in Topics : spawned[t][o] > 0
    \/ \E w \in Workers : proc[w].order = o /\ Settling(proc[w])

\* An event about o is among the dead letters.
GivenUp(o) == \E t \in Topics : <<t, o>> \in dead

\* The intent of the row of o was captured and not paid back.
Owing(o) ==
    \E i \in Intents : pay[o].intent = i /\ intent[i].captured /\ intent[i].refunds = 0

\* No call has failed and the process has not died.
Calm == faults = 0 /\ crashes = 0

\* The money of a cancelled order is never left to nobody.
MoneyMoves ==
    \A o \in Orders :
        Calm /\ order[o] = "canceled" /\ Owing(o) => GivenUp(o) \/ UnderWay(o)

\* A row that says "refunded" too early has a goroutine about to refund.
RefundsCalled ==
    \A o \in Orders :
        Calm /\ pay[o].status = "refunded" /\ Owing(o) =>
            \E w \in Workers : proc[w].order = o /\ proc[w].at = "refundCall"

\* An intent about to be recorded is in no row and known to one goroutine.
NewIntents ==
    \A w \in Workers : proc[w].at = "payInsert" =>
        /\ pay[proc[w].order].intent # proc[w].intent
        /\ intent[proc[w].intent].captured => proc[w].status = "succeeded"
        /\ \A v \in Workers \ {w} : proc[v].at = "payInsert" => proc[v].intent # proc[w].intent

\* The inductive invariant of the money of cancelled orders.
MoneyIInv == IInv /\ NewIntents /\ RefundsCalled /\ MoneyMoves

\* Every step either fails a call or leaves the count alone.
LEMMA FaultOrNot ==
  ASSUME [Next]_vars
  PROVE  /\ Fault \/ NoFault
         /\ Crash \/ UNCHANGED crashes
  BY ZenonT(40) DEF Next, NewRequest, RunHandler, Continue, OrderStep, PaymentStep, Crash, vars,
         deliveryVars, CreateOrder, TransitionRequest, CreatePaymentIntent, ConfirmPayment,
         RefundRequest, StartHandler, HandlePaymentSucceeded, UpdateOrder, PublishTransition,
         CheckOrder, CreateIntent, InsertPayment, PublishPaymentSuccess, CallConfirm,
         WriteConfirmed, WriteFailed, ReadPaymentForRefund, DismissRefund, MarkRefunded,
         CallRefund, UndoRefund, NoFault

\* A calm state is only reached from a calm one, without a failed call.
LEMMA CalmStep ==
  ASSUME IInv, [Next]_vars, Calm'
  PROVE  Calm /\ ~Fault /\ ~Crash
<1> USE DEF IInv, TypeOK, DeliveryTypeOK, Calm
<1>1. faults \in Nat /\ crashes \in Nat
  BY DeliveryAssumption, CrashAssumption
<1>2. ~Fault /\ ~Crash
  BY <1>1 DEF Fault, Crash
<1> QED BY <1>2, FaultOrNot DEF NoFault

\* What is paid back is not taken again.
LEMMA RefundsGrow ==
  ASSUME IInv, [Next]_vars, NEW i \in Intents, intent[i].order # None, intent'[i].refunds = 0
  PROVE  intent[i].refunds = 0
<1> USE DEF IInv, TypeOK, PaymentsTypeOK, ProviderIntent
<1>1. CASE UNCHANGED intent
  BY <1>1
<1>2. ASSUME NEW w \in Workers, NEW j \in Intents, NEW s \in IntentStatuses,
             NewIntent(j, proc[w].order, s)
      PROVE  intent[i].refunds = 0
  BY <1>2 DEF NewIntent, Fresh
<1>3. ASSUME NEW w \in Workers, Capture(w)
      PROVE  intent[i].refunds = 0
  BY <1>3 DEF Capture
<1>4. ASSUME NEW w \in Workers, PayBack(w)
      PROVE  intent[i].refunds = 0
  <2>1. intent[i].refunds \in Nat
    OBVIOUS
  <2>2. proc[w].intent # i => intent'[i] = intent[i]
    BY <1>4 DEF PayBack
  <2>3. proc[w].intent = i => intent'[i].refunds = intent[i].refunds + 1
    BY <1>4 DEF PayBack
  <2> QED BY <2>1, <2>2, <2>3
<1> QED BY <1>1, <1>2, <1>3, <1>4, IntentWriters

\* A goroutine that is done is free, and one that failed starts again or is free.
LEMMA EndsAt ==
  ASSUME IInv, NEW w \in Workers
  PROVE  /\ Finish(w) => proc'[w] = Idle
         /\ Fail(w) => proc'[w] = Idle \/ proc'[w].at = "start"
         /\ \A l \in Labels : Goto(w, l) => proc'[w] = [proc[w] EXCEPT !.at = l]
<1> USE DEF IInv, TypeOK, DeliveryTypeOK
<1>1. Finish(w) => proc'[w] = Idle
  BY DEF Finish
<1>2. ASSUME NEW t, proc' = [proc EXCEPT ![w] = [Idle EXCEPT !.op = proc[w].op,
                                !.order = proc[w].order, !.at = "start", !.tries = t]]
      PROVE  proc'[w].at = "start"
  BY <1>2 DEF Idle
<1>3. Fail(w) => proc'[w] = Idle \/ proc'[w].at = "start"
  BY <1>1, <1>2 DEF Fail
<1>4. \A l \in Labels : Goto(w, l) => proc'[w] = [proc[w] EXCEPT !.at = l]
  BY DEF Goto
<1> QED BY <1>1, <1>3, <1>4

\* The row of an order names an intent of its own, or none.
LEMMA RowOfOrder ==
  ASSUME IInv, NEW o \in Orders, NEW i \in Intents, pay[o].intent = i
  PROVE  intent[i].order = o /\ pay[o].status # "none"
<1>1. pay[o].status # "none"
  BY DEF IInv, RowOK, NoIntent, Intents
<1> QED BY <1>1 DEF IInv, RowOK

\* Only the creation of an intent leads to the INSERT.
LEMMA InsertsFollow ==
  ASSUME IInv, [Next]_vars, NEW w \in Workers, proc'[w] # proc[w], proc'[w].at = "payInsert"
  PROVE  CreateIntent(w)
<1> USE DEF IInv, TypeOK, DeliveryTypeOK
<1>1. ~Crash
  BY DEF Crash, Idle
<1>2. ASSUME Finish(w) \/ Fail(w)
      PROVE  FALSE
  BY <1>2, EndsAt DEF Idle
<1>3. ASSUME NEW o \in Orders,
             \/ \E a \in Actions : TransitionRequest(w, o, a)
             \/ CreatePaymentIntent(w, o)
             \/ ConfirmPayment(w, o)
             \/ RefundRequest(w, o)
      PROVE  FALSE
  BY <1>3 DEF TransitionRequest, CreatePaymentIntent, ConfirmPayment, RefundRequest, Request, Idle
<1>4. ASSUME NEW t \in Topics, NEW o \in Orders, StartHandler(w, t, o)
      PROVE  FALSE
  BY <1>4 DEF StartHandler, Idle
<1>5. ASSUME OrderStep(w)
      PROVE  FALSE
  <2>1. \/ Finish(w) \/ Fail(w)
        \/ Goto(w, "orderPublish")
        \/ proc' = [proc EXCEPT ![w].at = "orderUpdate", ![w].status = "paid"]
    BY <1>5 DEF OrderStep, HandlePaymentSucceeded, UpdateOrder, PublishTransition
  <2>2. CASE proc' = [proc EXCEPT ![w].at = "orderUpdate", ![w].status = "paid"]
    BY <2>2 DEF ProcState
  <2> QED BY <1>2, <2>1, <2>2 DEF Goto, ProcState
<1>6. ASSUME PaymentStep(w), ~CreateIntent(w)
      PROVE  FALSE
  <2>1. \/ Finish(w) \/ Fail(w)
        \/ \E l \in Labels \ {"payInsert"} : Goto(w, l)
        \/ proc' = [proc EXCEPT ![w].at = "refundMark",
                               ![w].intent = pay[proc[w].order].intent]
    BY <1>6 DEF PaymentStep, CheckOrder, InsertPayment, DuplicateRefused,
       PublishPaymentSuccess, CallConfirm, WriteConfirmed, WriteFailed, ReadPaymentForRefund,
       DismissRefund, MarkRefunded, CallRefund, UndoRefund, Labels
  <2>2. CASE proc' = [proc EXCEPT ![w].at = "refundMark",
                               ![w].intent = pay[proc[w].order].intent]
    BY <2>2 DEF ProcState
  <2>3. ASSUME NEW l \in Labels \ {"payInsert"}, Goto(w, l)
        PROVE  FALSE
    BY <2>3 DEF Goto, ProcState
  <2> QED BY <1>2, <2>1, <2>2, <2>3
<1> QED BY <1>1, <1>3, <1>4, <1>5, <1>6, Actor

\* A goroutine that waits to insert keeps its intent to itself.
LEMMA WaitingKeeps ==
  ASSUME IInv, NewIntents, [Next]_vars, NEW w \in Workers, proc'[w] = proc[w],
         proc[w].at = "payInsert"
  PROVE  /\ pay'[proc[w].order].intent # proc[w].intent
         /\ intent'[proc[w].intent].captured => proc[w].status = "succeeded"
<1> USE DEF IInv, TypeOK, PaymentsTypeOK, PaymentRow, ProviderIntent
<1> DEFINE o == proc[w].order
           i == proc[w].intent
<1>1. o \in Orders /\ i \in Intents /\ intent[i].order = o
  BY DEF OrderLocals, PaymentLocals
<1>2. /\ pay[o].intent # i
      /\ intent[i].captured => proc[w].status = "succeeded"
      /\ \A v \in Workers \ {w} : proc[v].at = "payInsert" => proc[v].intent # i
  BY DEF NewIntents
<1>3. pay'[o].intent # i
  <2>1. CASE pay' = pay
    BY <1>2, <2>1
  <2>2. ASSUME NEW v \in Workers, InsertPayment(v), pay' # pay
        PROVE  pay'[o].intent # i
    <3>1. /\ proc[v].at = "payInsert"
          /\ pay' = [pay EXCEPT ![proc[v].order] = [status |-> proc[v].status,
                                                    intent |-> proc[v].intent]]
          /\ Goto(v, "payPublish") \/ Finish(v)
      BY <2>2 DEF InsertPayment, DuplicateRefused
    <3>2. proc'[v].at # "payInsert"
      <4>1. proc[v] \in ProcState
        BY DEF DeliveryTypeOK
      <4>2. CASE Goto(v, "payPublish")
        BY <4>2 DEF Goto, DeliveryTypeOK, ProcState
      <4>3. CASE Finish(v)
        BY <4>3, EndsAt DEF Idle
      <4> QED BY <3>1, <4>2, <4>3
    <3>3. v # w
      BY <3>2
    <3>4. proc[v].intent # i
      BY <1>2, <3>1, <3>3
    <3> QED BY <1>1, <1>2, <3>1, <3>4
  <2>3. ASSUME NEW v \in Workers, WriteConfirmed(v) \/ WriteFailed(v) \/ MarkRefunded(v)
                                    \/ UndoRefund(v),
               pay' # pay
        PROVE  pay'[o].intent # i
    <3>1. PICK s \in PaymentStatus : WritePayment(proc[v].order, s)
      BY <2>3 DEF WriteConfirmed, WriteFailed, MarkRefunded, UndoRefund, PaymentStatus
    <3> QED BY <1>1, <1>2, <3>1 DEF WritePayment
  <2> QED BY <2>1, <2>2, <2>3, PaymentSteps
<1>4. intent'[i].captured => proc[w].status = "succeeded"
  <2>1. CASE UNCHANGED intent
    BY <1>2, <2>1
  <2>2. ASSUME NEW v \in Workers, NEW j \in Intents, NEW s \in IntentStatuses,
               NewIntent(j, proc[v].order, s)
        PROVE  intent'[i] = intent[i]
    BY <1>1, <2>2, DeliveryAssumption DEF NewIntent, Fresh
  <2>3. ASSUME NEW v \in Workers, proc[v].at = "confirmCall", Capture(v)
        PROVE  intent'[i] = intent[i]
    <3>1. proc[v].order \in Orders /\ pay[proc[v].order].intent = proc[v].intent
      BY <2>3 DEF OrderLocals, PaymentLocals, HoldsRow
    <3>2. proc[v].intent # i
      BY <1>1, <1>2, <3>1, RowOfOrder
    <3> QED BY <1>1, <2>3, <3>2 DEF Capture
  <2>4. ASSUME NEW v \in Workers, PayBack(v)
        PROVE  intent'[i].captured = intent[i].captured
    BY <1>1, <2>4 DEF PayBack
  <2> QED BY <1>2, <2>1, <2>2, <2>3, <2>4, IntentWriters
<1> QED BY <1>3, <1>4

\* A new intent is in no row, and its status says whether it was captured.
LEMMA CreatedIntent ==
  ASSUME IInv, [Next]_vars, NEW w \in Workers, CreateIntent(w), proc'[w].at = "payInsert"
  PROVE  /\ proc'[w].intent \in Intents
         /\ intent[proc'[w].intent].order = None
         /\ pay'[proc'[w].order].intent # proc'[w].intent
         /\ intent'[proc'[w].intent].captured => proc'[w].status = "succeeded"
         /\ \A v \in Workers \ {w} : proc'[v] = proc[v]
<1> USE DEF IInv, TypeOK, DeliveryTypeOK, PaymentsTypeOK, ProviderIntent
<1>1. PICK i \in Intents, s \in IntentStatuses :
         /\ NewIntent(i, proc[w].order, s)
         /\ proc' = [proc EXCEPT ![w].at = "payInsert", ![w].status = s, ![w].intent = i]
  <2>1. ~Finish(w)
    BY EndsAt DEF Idle
  <2> QED BY <2>1 DEF CreateIntent
<1>2. /\ proc'[w].intent = i /\ proc'[w].status = s /\ proc'[w].order = proc[w].order
      /\ \A v \in Workers \ {w} : proc'[v] = proc[v]
  BY <1>1
<1>3. intent[i].order = None /\ intent'[i].captured = (s = "succeeded")
  BY <1>1 DEF NewIntent, Fresh
<1>4. proc[w].order \in Orders /\ pay' = pay
  BY DEF CreateIntent, OrderLocals
<1>5. pay[proc[w].order].intent # i
  BY <1>3, <1>4, RowOfOrder, DeliveryAssumption
<1> QED BY <1>2, <1>3, <1>4, <1>5

\* Every step keeps new intents apart.
LEMMA NewIntentsStep ==
  ASSUME IInv, NewIntents, [Next]_vars
  PROVE  NewIntents'
<1>1. ASSUME NEW w \in Workers, proc'[w].at = "payInsert"
      PROVE  /\ pay'[proc'[w].order].intent # proc'[w].intent
             /\ intent'[proc'[w].intent].captured => proc'[w].status = "succeeded"
  BY <1>1, WaitingKeeps, InsertsFollow, CreatedIntent
<1>2. ASSUME NEW w \in Workers, proc[w].at = "payInsert"
      PROVE  proc[w].intent \in Intents /\ intent[proc[w].intent].order \in Orders
  BY <1>2 DEF IInv, OrderLocals, PaymentLocals
<1>3. ASSUME NEW w \in Workers, NEW v \in Workers, v # w, proc'[v].at = "payInsert",
             CreateIntent(w), proc'[w].at = "payInsert"
      PROVE  proc'[v].intent # proc'[w].intent
  <2>1. proc'[v] = proc[v] /\ intent[proc'[w].intent].order = None
    BY <1>3, CreatedIntent
  <2> QED BY <1>2, <1>3, <2>1, DeliveryAssumption
<1>4. ASSUME NEW w \in Workers, NEW v \in Workers, v # w, proc'[v].at = "payInsert",
             proc'[w].at = "payInsert"
      PROVE  proc'[v].intent # proc'[w].intent
  <2>1. CASE proc'[w] # proc[w]
    BY <1>3, <1>4, <2>1, InsertsFollow
  <2>2. CASE proc'[v] # proc[v]
    BY <1>3, <1>4, <2>2, InsertsFollow
  <2>3. CASE proc'[w] = proc[w] /\ proc'[v] = proc[v]
    BY <1>4, <2>3 DEF NewIntents
  <2> QED BY <2>1, <2>2, <2>3
<1> QED BY <1>1, <1>4 DEF NewIntents

-----------------------------------------------------------------------------

\* Only calls of the provider change what it knows.
LEMMA IntentSteps ==
  ASSUME [Next]_vars, intent' # intent
  PROVE  \/ \E w \in Workers, j \in Intents, s \in IntentStatuses :
               NewIntent(j, proc[w].order, s)
         \/ \E w \in Workers : CallConfirm(w) /\ Capture(w)
         \/ \E w \in Workers : PayBack(w)
  BY ZenonT(40) DEF Next, NewRequest, RunHandler, Continue, OrderStep, PaymentStep, Crash, vars,
         CreateOrder, TransitionRequest, CreatePaymentIntent, ConfirmPayment, RefundRequest,
         HandlePaymentSucceeded, UpdateOrder, PublishTransition, CheckOrder, CreateIntent,
         InsertPayment, PublishPaymentSuccess, CallConfirm, WriteConfirmed, WriteFailed,
         ReadPaymentForRefund, MarkRefunded, CallRefund, UndoRefund, paymentVars

\* Only a refund writes "refunded", and goes on to call the provider.
LEMMA RefundedStep ==
  ASSUME IInv, [Next]_vars, ~Fault, NEW o \in Orders,
         pay[o].status # "refunded", pay'[o].status = "refunded"
  PROVE  \E w \in Workers : proc'[w].order = o /\ proc'[w].at = "refundCall"
<1> USE DEF IInv, TypeOK, DeliveryTypeOK, PaymentsTypeOK, PaymentRow
<1>1. PICK w \in Workers : \/ InsertPayment(w) \/ WriteConfirmed(w) \/ WriteFailed(w)
                           \/ MarkRefunded(w) \/ UndoRefund(w)
  BY PaymentSteps
<1>2. proc[w].order \in Orders
  BY <1>1 DEF InsertPayment, WriteConfirmed, WriteFailed, MarkRefunded, UndoRefund, OrderLocals
<1>3. CASE InsertPayment(w)
  <2>1. proc[w].status \in IntentStatuses
    BY <1>3 DEF InsertPayment, PaymentLocals
  <2> QED BY <1>2, <1>3, <2>1, PaymentAssumption DEF InsertPayment, DuplicateRefused
<1>4. CASE WriteConfirmed(w) \/ WriteFailed(w) \/ UndoRefund(w)
  BY <1>2, <1>4 DEF WriteConfirmed, WriteFailed, UndoRefund, WritePayment
<1>5. CASE MarkRefunded(w)
  <2>1. WritePayment(proc[w].order, "refunded") /\ Goto(w, "refundCall")
    BY <1>5 DEF MarkRefunded
  <2>2. proc[w].order = o
    BY <1>2, <2>1 DEF WritePayment
  <2>3. proc'[w].order = proc[w].order /\ proc'[w].at = "refundCall"
    BY <2>1 DEF Goto, ProcState
  <2> QED BY <2>2, <2>3
<1> QED BY <1>1, <1>3, <1>4, <1>5

\* Money that has become owing is being recorded, or was owing before.
LEMMA OwingStep ==
  ASSUME IInv, NewIntents, [Next]_vars, ~Fault, NEW o \in Orders, Owing(o)'
  PROVE  \/ Owing(o)
         \/ /\ pay[o].status \notin {"succeeded", "refunded", "refund_failed"}
            /\ \E w \in Workers : /\ proc'[w].order = o
                                  /\ proc'[w].at \in {"payPublish", "confirmWrite"}
<1> USE DEF IInv, TypeOK, DeliveryTypeOK, PaymentsTypeOK, PaymentRow, ProviderIntent
<1> DEFINE G == \E w \in Workers : /\ proc'[w].order = o
                                   /\ proc'[w].at \in {"payPublish", "confirmWrite"}
<1>1. PICK i \in Intents : pay'[o].intent = i /\ intent'[i].captured /\ intent'[i].refunds = 0
  BY DEF Owing
<1>2. CASE pay[o].status = "none"
  <2>1. pay[o].intent # i
    BY <1>2, RowOfOrder
  <2>2. PICK w \in Workers : InsertPayment(w)
    <3>1. pay' # pay
      BY <1>1, <2>1
    <3>2. ASSUME NEW w \in Workers, WriteConfirmed(w) \/ WriteFailed(w) \/ MarkRefunded(w)
                                      \/ UndoRefund(w)
          PROVE  FALSE
      <4>1. PICK s \in PaymentStatus : WritePayment(proc[w].order, s)
        BY <3>1, <3>2 DEF WriteConfirmed, WriteFailed, MarkRefunded, UndoRefund, PaymentStatus
      <4> QED BY <1>1, <2>1, <4>1 DEF WritePayment
    <3> QED BY <3>1, <3>2, PaymentSteps
  <2>3. /\ proc[w].at = "payInsert" /\ proc[w].order = o /\ proc[w].intent = i
        /\ intent' = intent
    BY <1>1, <2>1, <2>2 DEF InsertPayment, DuplicateRefused, OrderLocals
  <2>4. proc[w].status = "succeeded"
    BY <1>1, <2>3 DEF NewIntents
  <2>5. Goto(w, "payPublish")
    BY <1>1, <1>2, <2>1, <2>2, <2>3, <2>4 DEF InsertPayment, DuplicateRefused, PaidAtOnce
  <2>6. proc'[w].order = o /\ proc'[w].at = "payPublish"
    BY <2>3, <2>5 DEF Goto, ProcState
  <2> QED BY <1>2, <2>6
<1>3. CASE pay[o].status # "none"
  <2>1. pay[o].intent = i /\ intent[i].order = o
    BY <1>1, <1>3, RowsStayStep, RowOfOrder DEF RowsStay
  <2>2. intent[i].refunds = 0
    BY <1>1, <2>1, RefundsGrow, DeliveryAssumption
  <2>3. CASE intent[i].captured
    BY <2>1, <2>2, <2>3 DEF Owing
  <2>4. CASE ~intent[i].captured
    <3>1. pay[o].status \notin {"succeeded", "refunded", "refund_failed"}
      BY <2>1, <2>4 DEF RowOK
    <3>2. PICK w \in Workers : CallConfirm(w) /\ Capture(w) /\ proc[w].intent = i
      <4>1. intent' # intent
        BY <1>1, <2>4
      <4>2. ASSUME NEW w \in Workers, NEW j \in Intents, NEW s \in IntentStatuses,
                   NewIntent(j, proc[w].order, s)
            PROVE  intent'[i] = intent[i]
        BY <2>1, <4>2, DeliveryAssumption DEF NewIntent, Fresh
      <4>3. ASSUME NEW w \in Workers, PayBack(w)
            PROVE  intent'[i].captured = intent[i].captured
        BY <4>3 DEF PayBack
      <4>4. \/ \E w \in Workers, j \in Intents, s \in IntentStatuses :
                  NewIntent(j, proc[w].order, s)
            \/ \E w \in Workers : CallConfirm(w) /\ Capture(w)
            \/ \E w \in Workers : PayBack(w)
        BY <4>1, IntentSteps
      <4>5. PICK w \in Workers : CallConfirm(w) /\ Capture(w)
        BY <1>1, <2>4, <4>2, <4>3, <4>4
      <4>6. proc[w].intent = i
        BY <1>1, <2>4, <4>5 DEF Capture
      <4> QED BY <4>5, <4>6
    <3>3. proc[w].order \in Orders /\ pay[proc[w].order].intent = i
      BY <3>2 DEF CallConfirm, OrderLocals, PaymentLocals, HoldsRow
    <3>4. proc[w].order = o
      BY <2>1, <3>3, RowOfOrder
    <3>5. Goto(w, "confirmWrite")
      BY <3>2 DEF CallConfirm
    <3>6. proc'[w].order = o /\ proc'[w].at = "confirmWrite"
      BY <3>4, <3>5 DEF Goto, ProcState
    <3> QED BY <3>1, <3>6
  <2> QED BY <2>3, <2>4
<1> QED BY <1>2, <1>3

\* The refund of a row's intent pays what is owing.
LEMMA RefundPays ==
  ASSUME IInv, [Next]_vars, ~Fault, NEW w \in Workers, CallRefund(w),
         NEW o \in Orders, proc[w].order = o
  PROVE  ~Owing(o)'
<1> USE DEF IInv, TypeOK, PaymentsTypeOK, ProviderIntent
<1>1. pay' = pay /\ pay[o].intent = proc[w].intent
  BY DEF CallRefund, OrderLocals, PaymentLocals, HoldsRow
<1>2. PayBack(w)
  BY DEF CallRefund
<1>3. ASSUME NEW i \in Intents, i = proc[w].intent
      PROVE  intent'[i].refunds # 0
  <2>1. intent'[i].refunds = intent[i].refunds + 1 /\ intent[i].refunds \in Nat
    BY <1>2, <1>3 DEF PayBack
  <2> QED BY <2>1
<1> QED BY <1>1, <1>3 DEF Owing

\* A goroutine at a label only leaves it by the step of that label.
LEMMA LeavesRefund ==
  ASSUME IInv, [Next]_vars, ~Crash, NEW w \in Workers, proc'[w] # proc[w],
         proc[w].at = "refundCall"
  PROVE  CallRefund(w)
<1>1. ~Free(w)
  BY DEF Free, Idle
<1> QED
  BY <1>1, Actor DEF OrderStep, PaymentStep, TransitionRequest, CreatePaymentIntent,
     ConfirmPayment, RefundRequest, Request, StartHandler, HandlePaymentSucceeded, UpdateOrder,
     PublishTransition, CheckOrder, CreateIntent, InsertPayment, PublishPaymentSuccess,
     CallConfirm, WriteConfirmed, WriteFailed, ReadPaymentForRefund, MarkRefunded, UndoRefund

\* Every step keeps a goroutine at the refund of a row that says "refunded".
LEMMA RefundsCalledStep ==
  ASSUME MoneyIInv, [Next]_vars
  PROVE  RefundsCalled'
<1> SUFFICES ASSUME Calm', NEW o \in Orders, pay'[o].status = "refunded", Owing(o)'
             PROVE  \E w \in Workers : proc'[w].order = o /\ proc'[w].at = "refundCall"
  BY DEF RefundsCalled
<1>0. IInv /\ NewIntents /\ RefundsCalled
  BY DEF MoneyIInv
<1>1. Calm /\ ~Fault /\ ~Crash
  BY <1>0, CalmStep
<1>2. CASE pay[o].status # "refunded"
  BY <1>0, <1>1, <1>2, RefundedStep
<1>3. CASE pay[o].status = "refunded"
  <2>1. Owing(o)
    BY <1>0, <1>1, <1>3, OwingStep
  <2>2. PICK w \in Workers : proc[w].order = o /\ proc[w].at = "refundCall"
    BY <1>0, <1>1, <1>3, <2>1 DEF RefundsCalled
  <2>3. CASE proc'[w] = proc[w]
    BY <2>2, <2>3
  <2>4. CASE proc'[w] # proc[w]
    <3>1. CallRefund(w)
      BY <1>0, <1>1, <2>2, <2>4, LeavesRefund
    <3> QED BY <1>0, <1>1, <2>2, <3>1, RefundPays
  <2> QED BY <2>3, <2>4
<1> QED BY <1>2, <1>3

\* The write of a cancellation is followed by the publication of its event.
LEMMA CancelStep ==
  ASSUME IInv, [Next]_vars, ~Fault, NEW o \in Orders,
         order[o] # "canceled", order'[o] = "canceled"
  PROVE  UnderWay(o)'
<1> USE DEF IInv, TypeOK, DeliveryTypeOK, OrdersTypeOK
<1>1. PICK w \in Workers : UpdateOrder(w) /\ WriteStatus(w)
  <2>1. ASSUME NEW q \in Orders, CreateOrder(q)
        PROVE  FALSE
    BY <2>1 DEF CreateOrder
  <2>2. order' # order
    OBVIOUS
  <2> QED BY ZenonT(40), <2>1, <2>2 DEF Next, NewRequest, RunHandler, Continue, OrderStep,
         PaymentStep, Crash, vars, TransitionRequest, CreatePaymentIntent, ConfirmPayment,
         RefundRequest, HandlePaymentSucceeded, UpdateOrder, PublishTransition, CheckOrder,
         CreateIntent, InsertPayment, PublishPaymentSuccess, CallConfirm, WriteConfirmed,
         WriteFailed, ReadPaymentForRefund, MarkRefunded, CallRefund, UndoRefund, orderVars
<1>2. proc[w].order = o /\ proc[w].status = "canceled"
  BY <1>1 DEF UpdateOrder, WriteStatus, OrderLocals
<1>3. Goto(w, "orderPublish")
  BY <1>1 DEF UpdateOrder
<1>4. /\ proc'[w].order = o /\ proc'[w].status = "canceled" /\ proc'[w].at = "orderPublish"
  BY <1>2, <1>3 DEF Goto, ProcState
<1> QED BY <1>4 DEF UnderWay, Settling

\* An error of a handler is followed by its next attempt or a dead letter.
LEMMA FailPassesOn ==
  ASSUME IInv, NEW w \in Workers, Fail(w), proc[w].op \in HandlerOps,
         NEW o \in Orders, proc[w].order = o
  PROVE  GivenUp(o)' \/ UnderWay(o)'
<1> USE DEF IInv, TypeOK, DeliveryTypeOK
<1>1. CASE proc' = [proc EXCEPT ![w] = [Idle EXCEPT !.op = proc[w].op, !.order = proc[w].order,
                                     !.at = "start", !.tries = NextAttempt(proc[w].tries)]]
  <2>1. proc'[w].op = proc[w].op /\ proc'[w].order = o /\ proc'[w].at = "start"
    BY <1>1 DEF Idle
  <2> QED BY <2>1 DEF UnderWay, Settling, HandlerOps
<1>2. CASE DeadLetter(TopicOf(proc[w].op), proc[w].order)
  BY <1>2 DEF DeadLetter, TopicOf, Topics, GivenUp
<1> QED BY <1>1, <1>2 DEF Fail, RequestOps, HandlerOps

\* Reading the row for the automatic refund of a cancelled order whose money
\* is owing goes on with the refund, unless another goroutine is about to.
LEMMA ReadPassesOn ==
  ASSUME MoneyIInv, [Next]_vars, Calm, ~Fault, NEW w \in Workers, ReadPaymentForRefund(w),
         proc[w].op = "onCancelled", NEW o \in Orders, proc[w].order = o, Owing(o)
  PROVE  GivenUp(o)' \/ UnderWay(o)'
<1> USE DEF MoneyIInv, IInv, TypeOK, DeliveryTypeOK, PaymentsTypeOK, PaymentRow
<1>1. pay[o].status # "none"
  BY RowOfOrder DEF Owing
<1>2. CASE pay[o].status = "refunded" /\ Finish(w)
  <2>1. PICK v \in Workers : proc[v].order = o /\ proc[v].at = "refundCall"
    BY <1>2 DEF RefundsCalled
  <2>2. v # w
    BY <2>1 DEF ReadPaymentForRefund
  <2>3. proc'[v] = proc[v]
    BY <1>2, <2>2 DEF Finish
  <2> QED BY <2>1, <2>3 DEF UnderWay, Settling
<1>3. CASE proc' = [proc EXCEPT ![w].at = "refundMark", ![w].intent = pay[o].intent]
  <2>1. proc'[w].order = o /\ proc'[w].at = "refundMark"
    BY <1>3 DEF ProcState
  <2> QED BY <2>1 DEF UnderWay, Settling
<1>4. CASE Fail(w)
  BY <1>4, FailPassesOn DEF HandlerOps
<1> QED BY <1>1, <1>2, <1>3, <1>4 DEF ReadPaymentForRefund, DismissRefund

\* A spawned handler stays spawned until some goroutine runs it.
LEMMA SpawnedPassesOn ==
  ASSUME IInv, [Next]_vars, ~Crash, NEW o \in Orders, NEW t \in Topics, spawned[t][o] > 0
  PROVE  UnderWay(o)'
<1> USE DEF IInv, TypeOK, DeliveryTypeOK
<1>1. CASE spawned'[t][o] > 0
  BY <1>1 DEF UnderWay
<1>2. ASSUME NEW w \in Workers, NEW u \in Topics, NEW q \in Orders, StartHandler(w, u, q)
      PROVE  UnderWay(o)'
  <2>1. CASE u = t /\ q = o
    <3>1. proc'[w].op = HandlerOf(t) /\ proc'[w].order = o /\ proc'[w].at = "start"
      BY <1>2, <2>1 DEF StartHandler, Idle
    <3>2. HandlerOf(t) \in {"onPaid", "onCancelled"}
      BY DEF HandlerOf
    <3> QED BY <3>1, <3>2 DEF UnderWay, Settling
  <2>2. CASE ~(u = t /\ q = o)
    <3>1. spawned'[t][o] = spawned[t][o]
      BY <1>2, <2>2 DEF StartHandler
    <3> QED BY <1>1, <3>1
  <2> QED BY <2>1, <2>2
<1>3. ASSUME NEW w \in Workers, PublishTransition(w) \/ PublishPaymentSuccess(w)
      PROVE  UnderWay(o)'
  <2>1. \/ spawned' = spawned
        \/ \E u \in Topics, q \in Orders : Publish(u, q)
    BY <1>3 DEF PublishTransition, PublishPaymentSuccess, Topics, OrderLocals
  <2>2. ASSUME NEW u \in Topics, NEW q \in Orders, Publish(u, q)
        PROVE  spawned'[t][o] > 0
    BY <2>2 DEF Publish
  <2> QED BY <1>1, <2>1, <2>2
<1>4. \/ UNCHANGED spawned
      \/ \E w \in Workers, u \in Topics, q \in Orders : StartHandler(w, u, q)
      \/ \E w \in Workers : PublishTransition(w) \/ PublishPaymentSuccess(w)
  BY ZenonT(40) DEF Next, NewRequest, RunHandler, Continue, OrderStep, PaymentStep, vars, deliveryVars,
         CreateOrder, TransitionRequest, CreatePaymentIntent, ConfirmPayment, RefundRequest,
         Request, HandlePaymentSucceeded, UpdateOrder, CheckOrder, CreateIntent,
         InsertPayment, CallConfirm, WriteConfirmed, WriteFailed,
         ReadPaymentForRefund, MarkRefunded, CallRefund, UndoRefund
<1> QED BY <1>1, <1>2, <1>3, <1>4

\* The goroutine that settles the money of a cancelled order does so, or
\* passes it on to its next step, an event, or the dead letters.
LEMMA SettlerStep ==
  ASSUME MoneyIInv, [Next]_vars, Calm, ~Fault, ~Crash, NEW o \in Orders,
         order'[o] = "canceled", order[o] = "canceled", Owing(o), Owing(o)',
         NEW w \in Workers, proc[w].order = o, Settling(proc[w])
  PROVE  GivenUp(o)' \/ UnderWay(o)'
<1> USE DEF MoneyIInv, IInv, TypeOK, DeliveryTypeOK
<1>1. CASE proc'[w] = proc[w]
  BY <1>1 DEF UnderWay
<1>2. OrderLocals(proc[w]) /\ proc[w] \in ProcState
  OBVIOUS
<1>3. CASE HandlePaymentSucceeded(w)
  <2>1. Fail(w) /\ proc[w].op \in HandlerOps
    BY <1>3 DEF HandlePaymentSucceeded, Transitions, HandlerOps
  <2> QED BY <2>1, FailPassesOn
<1>4. CASE UpdateOrder(w)
  <2>1. proc[w].status = "paid"
    BY <1>2, <1>4 DEF UpdateOrder, Settling, OrderLocals
  <2>2. WriteStatus(w)
    BY <1>4 DEF UpdateOrder
  <2>3. order'[o] = "paid"
    BY <2>1, <2>2 DEF WriteStatus, OrdersTypeOK
  <2> QED BY <2>3
<1>5. CASE PublishTransition(w)
  <2>1. proc[w].status = "canceled"
    BY <1>2, <1>5 DEF PublishTransition, Settling, OrderLocals
  <2>2. spawned'["order.cancelled"][o] > 0
    BY <1>5, <2>1 DEF PublishTransition, Publish, Topics
  <2> QED BY <2>2 DEF UnderWay, Topics
<1>6. CASE PublishPaymentSuccess(w)
  <2>1. spawned'["payment.succeeded"][o] > 0
    BY <1>6 DEF PublishPaymentSuccess, Publish, Topics
  <2> QED BY <2>1 DEF UnderWay, Topics
<1>7. CASE WriteConfirmed(w)
  <2>1. Goto(w, "payPublish")
    BY <1>7 DEF WriteConfirmed
  <2>2. proc'[w].order = o /\ proc'[w].at = "payPublish"
    BY <2>1 DEF Goto, ProcState
  <2> QED BY <2>2 DEF UnderWay, Settling
<1>8. CASE ReadPaymentForRefund(w)
  <2>1. proc[w].op = "onCancelled"
    BY <1>8 DEF ReadPaymentForRefund, Settling
  <2> QED BY <1>8, <2>1, ReadPassesOn
<1>9. CASE MarkRefunded(w)
  <2>1. Goto(w, "refundCall")
    BY <1>9 DEF MarkRefunded
  <2>2. proc'[w].order = o /\ proc'[w].at = "refundCall"
    BY <2>1 DEF Goto, ProcState
  <2> QED BY <2>2 DEF UnderWay, Settling
<1>10. CASE CallRefund(w)
  BY <1>10, RefundPays
<1>11. CASE CheckOrder(w) \/ CreateIntent(w) \/ InsertPayment(w) \/ CallConfirm(w)
              \/ WriteFailed(w) \/ UndoRefund(w)
  BY <1>2, <1>11 DEF CheckOrder, CreateIntent, InsertPayment, CallConfirm, WriteFailed,
     UndoRefund, Settling
<1>12. ~Free(w)
  BY DEF Free, Idle, Settling
<1> QED
  BY <1>1, <1>3, <1>4, <1>5, <1>6, <1>7, <1>8, <1>9, <1>10, <1>11, <1>12, Actor
     DEF OrderStep, PaymentStep, TransitionRequest, CreatePaymentIntent, ConfirmPayment,
         RefundRequest, Request, StartHandler

\* Every step keeps the money of a cancelled order in someone's hands.
LEMMA MoneyMovesStep ==
  ASSUME MoneyIInv, [Next]_vars
  PROVE  MoneyMoves'
<1> SUFFICES ASSUME Calm', NEW o \in Orders, order'[o] = "canceled", Owing(o)'
             PROVE  GivenUp(o)' \/ UnderWay(o)'
  BY DEF MoneyMoves
<1>0. IInv /\ NewIntents /\ MoneyMoves
  BY DEF MoneyIInv
<1>1. Calm /\ ~Fault /\ ~Crash
  BY <1>0, CalmStep
<1>2. CASE ~Owing(o)
  <2>1. PICK w \in Workers : /\ proc'[w].order = o
                             /\ proc'[w].at \in {"payPublish", "confirmWrite"}
    BY <1>0, <1>1, <1>2, OwingStep
  <2> QED BY <2>1 DEF UnderWay, Settling
<1>3. CASE order[o] # "canceled"
  BY <1>0, <1>1, <1>3, CancelStep
<1>4. CASE Owing(o) /\ order[o] = "canceled"
  <2>1. GivenUp(o) \/ UnderWay(o)
    BY <1>0, <1>1, <1>4 DEF MoneyMoves
  <2>2. CASE GivenUp(o)
    BY <1>1, <2>2, Remembered DEF GivenUp
  <2>3. ASSUME NEW t \in Topics, spawned[t][o] > 0
        PROVE  UnderWay(o)'
    BY <1>0, <1>1, <2>3, SpawnedPassesOn
  <2>4. ASSUME NEW w \in Workers, proc[w].order = o, Settling(proc[w])
        PROVE  GivenUp(o)' \/ UnderWay(o)'
    BY <1>1, <1>4, <2>4, SettlerStep
  <2> QED BY <2>1, <2>2, <2>3, <2>4 DEF UnderWay
<1> QED BY <1>2, <1>3, <1>4

\* The invariant of the money of cancelled orders holds in every behaviour.
LEMMA MoneyInductive == Spec => []MoneyIInv
<1>1. Init => MoneyIInv
  <2> SUFFICES ASSUME Init PROVE MoneyIInv
    OBVIOUS
  <2>1. IInv
    BY InitIInv
  <2>2. ASSUME NEW w \in Workers
        PROVE  proc[w].at # "payInsert"
    BY DEF Init, DeliveryInit, Idle
  <2>3. ASSUME NEW o \in Orders
        PROVE  order[o] # "canceled" /\ pay[o].status # "refunded"
    BY DEF Init, OrdersInit, PaymentsInit, NoPayment
  <2> QED BY <2>1, <2>2, <2>3 DEF MoneyIInv, NewIntents, RefundsCalled, MoneyMoves
<1>2. MoneyIInv /\ [Next]_vars => MoneyIInv'
  <2> SUFFICES ASSUME MoneyIInv, [Next]_vars PROVE MoneyIInv'
    OBVIOUS
  <2>1. IInv' /\ NewIntents'
    BY NextIInv, NewIntentsStep DEF MoneyIInv
  <2> QED BY <2>1, RefundsCalledStep, MoneyMovesStep DEF MoneyIInv
<1> QED BY <1>1, <1>2, PTL DEF Spec

(***************************************************************************)
(* Races alone never keep a cancelled order's money silently: at rest it   *)
(* is paid back, or an event about it is dead-lettered.                    *)
(***************************************************************************)
THEOREM MoneyAccounted == Spec => []CancelledMoneyAccounted
<1>1. MoneyIInv => CancelledMoneyAccounted
  <2> SUFFICES ASSUME MoneyIInv, NEW o \in Orders, order[o] = "canceled", Quiet(o), Calm,
                      ~GivenUp(o), NEW i \in Intents, pay[o].intent = i, intent[i].captured
               PROVE  intent[i].refunds > 0
    BY DEF CancelledMoneyAccounted, Calm, GivenUp
  <2>1. ~UnderWay(o)
    BY DEF UnderWay, Quiet, MoneyIInv, IInv, TypeOK, DeliveryTypeOK
  <2>2. ~Owing(o)
    BY <2>1 DEF MoneyIInv, MoneyMoves
  <2>3. intent[i].refunds \in Nat
    BY DEF MoneyIInv, IInv, TypeOK, PaymentsTypeOK, ProviderIntent
  <2> QED BY <2>2, <2>3 DEF Owing
<1> QED BY <1>1, MoneyInductive, PTL

-----------------------------------------------------------------------------
(* The checkout implements SalePromise.                                    *)

\* Who writes a status by hand writes "paid".
HandPays ==
    \A w \in Workers :
        proc[w].at = "orderUpdate" /\ proc[w].op = "manualPay" => proc[w].status = "paid"

\* Every order has been pending.
BornPending == \A o \in Orders : order[o] # "none" => "pending" \in held[o]

\* One statement, or one call of the provider, changes one of the three.
LEMMA OneTable ==
  ASSUME [Next]_vars
  PROVE  \/ UNCHANGED <<pay, intent>>
         \/ UNCHANGED <<orderVars, intent>>
         \/ UNCHANGED <<orderVars, pay>>
  BY ZenonT(40) DEF Next, NewRequest, RunHandler, Continue, OrderStep, PaymentStep, Crash, vars,
         CreateOrder, TransitionRequest, CreatePaymentIntent, ConfirmPayment, RefundRequest,
         HandlePaymentSucceeded, UpdateOrder, PublishTransition, CheckOrder, CreateIntent,
         InsertPayment, PublishPaymentSuccess, CallConfirm, WriteConfirmed, WriteFailed,
         ReadPaymentForRefund, MarkRefunded, CallRefund, UndoRefund, paymentVars

\* Only an admin's "pay" starts a write by hand.
LEMMA HandPaysStep ==
  ASSUME IInv, HandPays, [Next]_vars
  PROVE  HandPays'
<1> USE DEF IInv, TypeOK, DeliveryTypeOK
<1> SUFFICES ASSUME NEW w \in Workers, proc'[w].at = "orderUpdate", proc'[w].op = "manualPay"
             PROVE  proc'[w].status = "paid"
  BY DEF HandPays
<1>1. CASE proc'[w] = proc[w]
  BY <1>1 DEF HandPays
<1>2. ASSUME NEW o \in Orders, NEW a \in Actions, TransitionRequest(w, o, a)
      PROVE  proc'[w].status = "paid"
  <2>1. PICK to \in OrderStatus :
           /\ <<order[o], a, to>> \in Transitions
           /\ proc' = [proc EXCEPT ![w] =
                         [Idle EXCEPT !.op = IF a = "pay" THEN "manualPay" ELSE "transition",
                                      !.order = o, !.at = "orderUpdate", !.status = to]]
    BY <1>2 DEF TransitionRequest, Request
  <2>2. /\ proc'[w].op = IF a = "pay" THEN "manualPay" ELSE "transition"
        /\ proc'[w].status = to
    BY <2>1 DEF Idle
  <2>3. a = "pay"
    BY <2>2
  <2> QED BY <2>1, <2>2, <2>3 DEF Transitions
<1>3. ASSUME NEW o \in Orders,
             CreatePaymentIntent(w, o) \/ ConfirmPayment(w, o) \/ RefundRequest(w, o)
      PROVE  FALSE
  BY <1>3 DEF CreatePaymentIntent, ConfirmPayment, RefundRequest, Request, Idle
<1>4. ASSUME NEW t \in Topics, NEW o \in Orders, StartHandler(w, t, o)
      PROVE  FALSE
  BY <1>4 DEF StartHandler, Idle
<1>5. CASE Fail(w) \/ Finish(w)
  <2>1. CASE Finish(w)
    BY <2>1 DEF Finish, Idle
  <2>2. CASE proc' = [proc EXCEPT ![w] = [Idle EXCEPT !.op = proc[w].op,
                                !.order = proc[w].order, !.at = "start",
                                !.tries = NextAttempt(proc[w].tries)]]
    BY <2>2 DEF Idle
  <2> QED BY <1>5, <2>1, <2>2 DEF Fail
<1>6. ASSUME NEW l \in Labels \ {"orderUpdate"}, Goto(w, l)
      PROVE  FALSE
  BY <1>6 DEF Goto, ProcState
<1>7. CASE OrderStep(w)
  <2>1. CASE HandlePaymentSucceeded(w)
    <3>1. CASE proc' = [proc EXCEPT ![w].at = "orderUpdate", ![w].status = "paid"]
      BY <3>1 DEF ProcState
    <3> QED BY <1>5, <2>1, <3>1 DEF HandlePaymentSucceeded
  <2>2. CASE UpdateOrder(w) \/ PublishTransition(w)
    BY <1>5, <1>6, <2>2 DEF UpdateOrder, PublishTransition, Labels
  <2> QED BY <1>7, <2>1, <2>2 DEF OrderStep
<1>8. CASE PaymentStep(w)
  <2>1. CASE CreateIntent(w) \/ ReadPaymentForRefund(w)
    <3>1. ASSUME NEW l \in {"payInsert", "refundMark"}, proc'[w].at = l
          PROVE  FALSE
      BY <3>1
    <3>2. ASSUME NEW i, NEW s, proc' = [proc EXCEPT ![w].at = "payInsert", ![w].status = s,
                                                    ![w].intent = i]
          PROVE  FALSE
      BY <3>1, <3>2 DEF ProcState
    <3>3. ASSUME NEW i, proc' = [proc EXCEPT ![w].at = "refundMark", ![w].intent = i]
          PROVE  FALSE
      BY <3>1, <3>3 DEF ProcState
    <3> QED BY <1>5, <2>1, <3>2, <3>3 DEF CreateIntent, ReadPaymentForRefund, DismissRefund
  <2>2. CASE ~(CreateIntent(w) \/ ReadPaymentForRefund(w))
    BY <1>5, <1>6, <1>8, <2>2 DEF PaymentStep, CheckOrder, InsertPayment, DuplicateRefused,
       PublishPaymentSuccess, CallConfirm, WriteConfirmed, WriteFailed, MarkRefunded, CallRefund,
       UndoRefund, Labels
  <2> QED BY <2>1, <2>2
<1>9. CASE Crash
  BY <1>9 DEF Crash, Idle
<1> QED BY <1>1, <1>2, <1>3, <1>4, <1>7, <1>8, <1>9, Actor

\* No other step makes an order.
LEMMA BornPendingStep ==
  ASSUME IInv, BornPending, [Next]_vars
  PROVE  BornPending'
<1> USE DEF IInv, TypeOK, OrdersTypeOK, BornPending
<1>1. CASE UNCHANGED orderVars
  BY <1>1 DEF orderVars
<1>2. ASSUME NEW o \in Orders, CreateOrder(o)
      PROVE  BornPending'
  BY <1>2 DEF CreateOrder
<1>3. ASSUME NEW w \in Workers, proc[w].at = "orderUpdate", WriteStatus(w)
      PROVE  BornPending'
  <2>1. proc[w].order \in Orders /\ order[proc[w].order] # "none"
    BY <1>3 DEF OrderLocals
  <2> QED BY <1>3, <2>1 DEF WriteStatus
<1> QED BY <1>1, <1>2, <1>3, OrderWriters

\* The orders table takes the steps of an order.
LEMMA OrderSale ==
  ASSUME IInv, HandPays, BornPending, [Next]_vars, UNCHANGED <<pay, intent>>
  PROVE  [Sale!Next]_(Sale!vars)
<1> USE DEF IInv, TypeOK, OrdersTypeOK
<1>1. CASE UNCHANGED orderVars
  BY <1>1 DEF orderVars, Sale!vars
<1>2. ASSUME NEW o \in Orders, CreateOrder(o)
      PROVE  Sale!Next
  <2>1. held[o] = {}
    BY <1>2 DEF CreateOrder, OrderOK
  <2>2. Sale!Place(o)
    BY <1>2, <2>1 DEF CreateOrder, Sale!Place
  <2> QED BY <2>2 DEF Sale!Next
<1>3. ASSUME NEW w \in Workers, proc[w].at = "orderUpdate", WriteStatus(w)
      PROVE  Sale!Next
  <2> DEFINE o == proc[w].order
             s == proc[w].status
  <2>1. /\ o \in Orders /\ order[o] # "none" /\ Reached(o, s) /\ s \in OrderStatus
        /\ s = "paid" => proc[w].op \in {"onPaid", "manualPay"}
        /\ proc[w].op = "onPaid" => CapturedFor(o)
        /\ proc[w].op = "manualPay" => s = "paid"
    BY <1>3 DEF OrderLocals, HandPays
  <2>2. /\ held' = [held EXCEPT ![o] = @ \cup {s}]
        /\ manual' = IF proc[w].op = "manualPay" THEN manual \cup {o} ELSE manual
    BY <1>3 DEF WriteStatus
  <2>3. "pending" \in held[o]
    BY <2>1 DEF BornPending
  <2>4. CASE s = "paid"
    <3>1. CapturedFor(o) => Sale!Captured(o)
      BY DEF CapturedFor, Sale!Captured
    <3>2. Sale!Pay(o)
      BY <2>1, <2>2, <2>3, <2>4, <3>1 DEF Sale!Pay
    <3> QED BY <2>1, <3>2 DEF Sale!Next
  <2>5. CASE s # "paid"
    <3>1. PICK f \in Sale!Follows : f[2] = s /\ f[1] \in held[o]
      <4>1. \/ s = "shipped" /\ "paid" \in held[o]
            \/ s = "done" /\ "shipped" \in held[o]
            \/ s = "canceled"
        BY <2>1, <2>5 DEF Reached
      <4> QED BY <2>3, <4>1 DEF Sale!Follows
    <3>2. f = <<f[1], f[2]>>
      BY DEF Sale!Follows
    <3>3. Sale!Advance(o, f[1], f[2])
      BY <2>1, <2>2, <2>5, <3>1, <3>2 DEF Sale!Advance
    <3> QED BY <2>1, <3>3 DEF Sale!Next
  <2> QED BY <2>4, <2>5
<1> QED BY <1>1, <1>2, <1>3, OrderWriters

\* The payments table names a charge once; its statuses are nothing to the promise.
LEMMA PaymentSale ==
  ASSUME IInv, [Next]_vars, UNCHANGED <<orderVars, intent>>
  PROVE  [Sale!Next]_(Sale!vars)
<1> USE DEF IInv, TypeOK, PaymentsTypeOK, PaymentRow, orderVars
<1> DEFINE rowIntent == [o \in Orders |-> pay[o].intent]
<1>1. CASE UNCHANGED pay
  BY <1>1 DEF Sale!vars
<1>2. ASSUME NEW w \in Workers, proc[w].at = "payInsert", pay[proc[w].order].status = "none",
             pay' = [pay EXCEPT ![proc[w].order] = [status |-> proc[w].status,
                                                    intent |-> proc[w].intent]]
      PROVE  Sale!Next
  <2>1. PICK o \in Orders, i \in Intents :
           o = proc[w].order /\ i = proc[w].intent /\ intent[i].order = o
    BY <1>2 DEF OrderLocals, PaymentLocals
  <2>2. pay[o].intent = NoIntent
    BY <1>2, <2>1 DEF RowOK
  <2>3. rowIntent' = [rowIntent EXCEPT ![o] = i]
    BY <1>2, <2>1
  <2>4. Sale!Name(o, i)
    BY <2>1, <2>2, <2>3 DEF Sale!Name
  <2> QED BY <2>4 DEF Sale!Next
<1>3. ASSUME NEW w \in Workers, NEW s \in PaymentStatus, Writes(proc[w].at, s),
             WritePayment(proc[w].order, s)
      PROVE  UNCHANGED Sale!vars
  <2>1. \A o \in Orders : pay'[o].intent = pay[o].intent
    BY <1>3 DEF WritePayment
  <2>2. rowIntent' = rowIntent
    BY <2>1
  <2> QED BY <2>2 DEF Sale!vars
<1> QED BY <1>1, <1>2, <1>3, PaymentWriters

\* The provider opens charges, and captures and pays back the one that is named.
LEMMA ProviderSale ==
  ASSUME IInv, BornPending, [Next]_vars, UNCHANGED <<orderVars, pay>>
  PROVE  [Sale!Next]_(Sale!vars)
<1> USE DEF IInv, TypeOK, PaymentsTypeOK, ProviderIntent, orderVars
<1>1. CASE UNCHANGED intent
  BY <1>1 DEF Sale!vars
<1>2. ASSUME NEW w \in Workers, NEW i \in Intents, NEW s \in IntentStatuses,
             proc[w].at = "createIntent", NewIntent(i, proc[w].order, s)
      PROVE  Sale!Next
  <2> DEFINE o == proc[w].order
  <2>1. o \in Orders /\ "pending" \in held[o]
    BY <1>2 DEF OrderLocals, PaymentLocals, BornPending
  <2>2. PICK atOnce \in BOOLEAN : atOnce = (s = "succeeded")
    OBVIOUS
  <2>3. Sale!Charge(i, o, atOnce)
    BY <1>2, <2>1, <2>2 DEF NewIntent, Fresh, Sale!Charge
  <2> QED BY <2>1, <2>3 DEF Sale!Next
<1>3. ASSUME NEW w \in Workers, proc[w].at \in {"confirmCall", "refundCall"}
      PROVE  /\ proc[w].order \in Orders /\ proc[w].intent \in Intents
             /\ Sale!NamedBy(proc[w].intent, proc[w].order)
  <2>1. proc[w].order \in Orders
    BY <1>3 DEF OrderLocals
  <2>2. /\ pay[proc[w].order].status # "none"
        /\ pay[proc[w].order].intent = proc[w].intent
    BY <1>3 DEF PaymentLocals, HoldsRow
  <2>3. proc[w].intent \in Intents /\ intent[proc[w].intent].order = proc[w].order
    BY <2>1, <2>2 DEF RowOK
  <2> QED BY <2>1, <2>2, <2>3 DEF Sale!NamedBy
<1>4. ASSUME NEW w \in Workers, proc[w].at = "confirmCall", Capture(w)
      PROVE  Sale!Next
  <2>1. Sale!Capture(proc[w].intent, proc[w].order)
    BY <1>3, <1>4 DEF Capture, Sale!Capture
  <2> QED BY <1>3, <1>4, <2>1 DEF Sale!Next
<1>5. ASSUME NEW w \in Workers, proc[w].at = "refundCall", PayBack(w)
      PROVE  Sale!Next
  <2>1. intent[proc[w].intent].captured
    BY <1>5 DEF PaymentLocals
  <2>2. Sale!PayBack(proc[w].intent, proc[w].order)
    BY <1>3, <1>5, <2>1 DEF PayBack, Sale!PayBack
  <2> QED BY <1>3, <1>5, <2>2 DEF Sale!Next
<1> QED BY <1>1, <1>2, <1>4, <1>5, IntentWriters

\* At first nothing is ordered and nothing charged.
LEMMA InitSale == Init => Sale!Init /\ HandPays /\ BornPending
  BY DEF Init, DeliveryInit, OrdersInit, PaymentsInit, NoPayment, NoSuchIntent, Idle, Sale!Init,
     HandPays, BornPending

(***************************************************************************)
(* The checkout implements the promise, for any orders and goroutines and  *)
(* any number of requests, retries, failing calls and crashes: an order is *)
(* paid with captured money or by hand, moves on in order, and only the    *)
(* charge its payment names is captured later or paid back.                *)
(***************************************************************************)
THEOREM SaleKept == Spec => KeepsSale
<1>1. HandPays /\ BornPending /\ IInv /\ [Next]_vars => HandPays' /\ BornPending'
  BY HandPaysStep, BornPendingStep
<1>2. HandPays /\ BornPending /\ IInv /\ [Next]_vars => [Sale!Next]_(Sale!vars)
  BY OrderSale, PaymentSale, ProviderSale, OneTable
<1>3. Init => HandPays /\ BornPending /\ Sale!Init
  BY InitSale
<1> QED BY <1>1, <1>2, <1>3, Inductive, PTL DEF Spec, KeepsSale, Sale!Spec
=============================================================================
