------------------------------ MODULE Checkout ------------------------------
(***************************************************************************)
(* Orders and payments running together in one process: concurrent API     *)
(* requests, the event handlers they cause, failing calls and crashes.     *)
(***************************************************************************)
EXTENDS Payments

CONSTANT MaxCrashes   \* bound: process crashes in one behaviour

ASSUME CrashAssumption == MaxCrashes \in Nat

VARIABLE crashes      \* crashes so far

vars == <<deliveryVars, orderVars, paymentVars, crashes>>

OrderStep(w) ==
    \/ HandlePaymentSucceeded(w)
    \/ UpdateOrder(w)
    \/ PublishTransition(w)

PaymentStep(w) ==
    \/ CheckOrder(w)
    \/ CreateIntent(w)
    \/ InsertPayment(w)
    \/ PublishPaymentSuccess(w)
    \/ CallConfirm(w)
    \/ WriteConfirmed(w)
    \/ WriteFailed(w)
    \/ ReadPaymentForRefund(w)
    \/ MarkRefunded(w)
    \/ CallRefund(w)
    \/ UndoRefund(w)

\* An API request arrives.
NewRequest(w) ==
    \E o \in Orders :
        \/ \E a \in Actions : TransitionRequest(w, o, a) /\ UNCHANGED paymentVars
        \/ CreatePaymentIntent(w, o)
        \/ ConfirmPayment(w, o)
        \/ RefundRequest(w, o)

RunHandler(w) ==
    /\ \E t \in Topics, o \in Orders : StartHandler(w, t, o)
    /\ UNCHANGED <<orderVars, paymentVars>>

\* A goroutine goes on with what it is doing.
Continue(w) == (OrderStep(w) /\ UNCHANGED paymentVars) \/ PaymentStep(w)

(***************************************************************************)
(* The process dies and is restarted: the goroutines, the spawned handlers *)
(* and the dead letters are gone, the tables and the provider stay.        *)
(***************************************************************************)
Crash ==
    /\ crashes < MaxCrashes
    /\ crashes' = crashes + 1
    /\ proc' = [w \in Workers |-> Idle]
    /\ spawned' = [t \in Topics |-> [o \in Orders |-> 0]]
    /\ dead' = {}
    /\ UNCHANGED <<requests, faults, orderVars, paymentVars>>

Init ==
    /\ DeliveryInit
    /\ OrdersInit
    /\ PaymentsInit
    /\ crashes = 0

Next ==
    \/ /\ \/ \E o \in Orders : CreateOrder(o) /\ UNCHANGED paymentVars
          \/ \E w \in Workers : NewRequest(w) \/ RunHandler(w) \/ Continue(w)
       /\ UNCHANGED crashes
    \/ Crash

Spec == Init /\ [][Next]_vars

(***************************************************************************)
(* The Go scheduler runs every runnable goroutine, and a call either       *)
(* returns or fails.  Nothing makes a request, or a crash, happen.         *)
(***************************************************************************)
Fairness ==
    \A w \in Workers :
        /\ WF_vars(RunHandler(w) /\ UNCHANGED crashes)
        /\ WF_vars(Continue(w) /\ UNCHANGED crashes)

FairSpec == Spec /\ Fairness

-----------------------------------------------------------------------------
(***************************************************************************)
(* Types of every variable.                                                *)
(***************************************************************************)
TypeOK ==
    /\ DeliveryTypeOK
    /\ OrdersTypeOK
    /\ PaymentsTypeOK
    /\ crashes \in 0..MaxCrashes

CapturedFor(o) == \E i \in Intents : intent[i].order = o /\ intent[i].captured

(***************************************************************************)
(* An order is never treated as paid, and so never shipped or completed,   *)
(* unless the provider has captured money for it or an admin has marked it *)
(* paid by hand: however requests, retries, stale writes of the row and    *)
(* crashes interleave, no shipment goes out for nothing.                   *)
(***************************************************************************)
PaidMeansCaptured ==
    \A o \in Orders :
        order[o] \in {"paid", "shipped", "done"} => CapturedFor(o) \/ o \in manual

(***************************************************************************)
(* Stale, unconditional writes can move the row along edges the state      *)
(* machine does not have, but the row never holds a status without having  *)
(* held the one that leads to it: nothing is shipped that was not paid     *)
(* first, nothing done that was not shipped first.                         *)
(***************************************************************************)
NoStepSkipped ==
    \A o \in Orders :
        /\ "done" \in held[o] => "shipped" \in held[o]
        /\ "shipped" \in held[o] => "paid" \in held[o]

(***************************************************************************)
(* Money is paid back only for an intent that was captured, and only for   *)
(* the intent the order's payment row names: an orphaned intent that lost  *)
(* the race for the unique index is never refunded in its place.           *)
(***************************************************************************)
RefundsAreBacked ==
    \A i \in Intents :
        intent[i].refunds > 0 => /\ intent[i].captured
                                 /\ intent[i].order \in Orders
                                 /\ pay[intent[i].order].intent = i

(***************************************************************************)
(* An automatic refund follows a cancellation that really was committed:   *)
(* order.cancelled is never published, or handled, for an order whose row  *)
(* has not held "canceled".                                                *)
(***************************************************************************)
AutoRefundFollowsCancel ==
    \A o \in Orders :
        (\/ spawned["order.cancelled"][o] > 0
         \/ \E w \in Workers : proc[w].op = "onCancelled" /\ proc[w].order = o)
            => "canceled" \in held[o]

\* payment.succeeded for o is about to be published, spawned, being
\* handled, or given up.
SuccessOnItsWay(o) ==
    \/ spawned["payment.succeeded"][o] > 0
    \/ <<"payment.succeeded", o>> \in dead
    \/ \E w \in Workers : /\ proc[w].order = o
                          /\ proc[w].op = "onPaid" \/ proc[w].at = "payPublish"

(***************************************************************************)
(* A payment recorded as succeeded is not forgotten: until the order has   *)
(* left "pending", the event that will move it is somewhere in the         *)
(* process, or dead-lettered.  A crash between the write of the row and    *)
(* the end of the handler, or a write whose answer was lost, are the only  *)
(* ways to lose it.                                                        *)
(***************************************************************************)
PaymentNotForgotten ==
    \A o \in Orders :
        pay[o].status = "succeeded" /\ order[o] = "pending" /\ crashes = 0
            => SuccessOnItsWay(o) \/ o \in unacked

\* Nothing is running or spawned for o.
Quiet(o) ==
    /\ \A t \in Topics : spawned[t][o] = 0
    /\ \A w \in Workers : proc[w].order # o

(***************************************************************************)
(* Races alone never keep a cancelled order's money silently.  As long as  *)
(* no call fails and the process stays up, whichever of the cancellation,  *)
(* the confirmation and the capture comes first, a cancelled order at rest *)
(* has the money of its payment row paid back, or one of its two events    *)
(* is dead-lettered for an operator to see.                                *)
(***************************************************************************)
CancelledMoneyAccounted ==
    \A o \in Orders :
        /\ order[o] = "canceled" /\ Quiet(o)
        /\ faults = 0 /\ crashes = 0
        => \/ \A i \in Intents : pay[o].intent = i /\ intent[i].captured
                                    => intent[i].refunds > 0
           \/ \E t \in Topics : <<t, o>> \in dead

(***************************************************************************)
(* Orders, payments, their goroutines and their events implement           *)
(* SalePromise, however requests, stale writes, failures and crashes       *)
(* interleave: every step is one the shop may rely on, or none of its.     *)
(***************************************************************************)
Sale == INSTANCE SalePromise WITH
            reached <- held, byHand <- manual,
            named <- [o \in Orders |-> pay[o].intent], charge <- intent

KeepsSale == Sale!Spec

(***************************************************************************)
(* Every handler terminates: once requests stop arriving, retries and      *)
(* events caused by events die out and all goroutines become free.         *)
(***************************************************************************)
Quiesces ==
    <>[](/\ \A w \in Workers : Free(w)
         /\ \A t \in Topics, o \in Orders : spawned[t][o] = 0)

(***************************************************************************)
(* A payment recorded as succeeded reaches its order: the order leaves     *)
(* "pending" or the event is dead-lettered, when the process stays up and  *)
(* no answer of a write is lost.                                           *)
(***************************************************************************)
PaymentReachesOrder ==
    \A o \in Orders :
        (pay[o].status = "succeeded")
            ~> (order[o] # "pending" \/ <<"payment.succeeded", o>> \in dead
                 \/ crashes > 0 \/ o \in unacked)

-----------------------------------------------------------------------------
(* What a comment says and the code does not do.                           *)

(***************************************************************************)
(* payments/service.go:324: the row says "refunded" before the provider is *)
(* called "to prevent double-refund on retry".  So no intent is paid back  *)
(* twice; in the code a refund that took effect but was reported as failed *)
(* is retried, and two refunds can both read "succeeded".                  *)
(***************************************************************************)
NoDoubleRefund == \A i \in Intents : intent[i].refunds <= 1
=============================================================================
