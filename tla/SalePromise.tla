----------------------------- MODULE SalePromise -----------------------------
(***************************************************************************)
(* What the shop may rely on when it sells, without goroutines, events,    *)
(* retries or rows: how far an order has got, and what the provider has    *)
(* taken and paid back for it.  An order is paid by money captured for it, *)
(* or by hand; it is shipped after it was paid and done after it was       *)
(* shipped; an order names one charge for good, and only that one is       *)
(* captured later or paid back.  Nothing that was reached is taken back.   *)
(***************************************************************************)
EXTENDS Naturals

CONSTANTS Orders, Intents, None, NoIntent

VARIABLES
    reached,   \* reached[o]: statuses the order has had
    byHand,    \* orders an admin has marked as paid
    named,     \* named[o]: the charge of the order's payment
    charge     \* charge[i]: its order, whether it is captured, how often it was paid back

vars == <<reached, byHand, named, charge>>

Captured(o) == \E i \in Intents : charge[i].order = o /\ charge[i].captured

Place(o) ==
    /\ reached[o] = {}
    /\ reached' = [reached EXCEPT ![o] = {"pending"}]
    /\ UNCHANGED <<byHand, named, charge>>

\* With money that has been captured, or by hand.
Pay(o) ==
    /\ "pending" \in reached[o]
    /\ reached' = [reached EXCEPT ![o] = @ \cup {"paid"}]
    /\ \/ Captured(o) /\ UNCHANGED byHand
       \/ byHand' = byHand \cup {o}
    /\ UNCHANGED <<named, charge>>

Follows == {<<"paid", "shipped">>, <<"shipped", "done">>, <<"pending", "canceled">>}

Advance(o, s, t) ==
    /\ <<s, t>> \in Follows
    /\ s \in reached[o]
    /\ reached' = [reached EXCEPT ![o] = @ \cup {t}]
    /\ UNCHANGED <<byHand, named, charge>>

\* The provider opens a charge, which some capture at once.
Charge(i, o, atOnce) ==
    /\ charge[i].order = None
    /\ "pending" \in reached[o]
    /\ charge' = [charge EXCEPT ![i] = [order |-> o, captured |-> atOnce, refunds |-> 0]]
    /\ UNCHANGED <<reached, byHand, named>>

Name(o, i) ==
    /\ named[o] = NoIntent
    /\ charge[i].order = o
    /\ named' = [named EXCEPT ![o] = i]
    /\ UNCHANGED <<reached, byHand, charge>>

NamedBy(i, o) == named[o] = i /\ charge[i].order = o

Capture(i, o) ==
    /\ NamedBy(i, o)
    /\ charge' = [charge EXCEPT ![i].captured = TRUE]
    /\ UNCHANGED <<reached, byHand, named>>

PayBack(i, o) ==
    /\ NamedBy(i, o)
    /\ charge[i].captured
    /\ charge' = [charge EXCEPT ![i].refunds = @ + 1]
    /\ UNCHANGED <<reached, byHand, named>>

Init ==
    /\ reached = [o \in Orders |-> {}]
    /\ byHand = {}
    /\ named = [o \in Orders |-> NoIntent]
    /\ charge = [i \in Intents |-> [order |-> None, captured |-> FALSE, refunds |-> 0]]

Next ==
    \E o \in Orders :
        \/ Place(o) \/ Pay(o)
        \/ \E f \in Follows : Advance(o, f[1], f[2])
        \/ \E i \in Intents :
              \/ \E atOnce \in BOOLEAN : Charge(i, o, atOnce)
              \/ Name(o, i) \/ Capture(i, o) \/ PayBack(i, o)

Spec == Init /\ [][Next]_vars
=============================================================================
