-------------------------------- MODULE Cart --------------------------------
(***************************************************************************)
(* Shopping carts (core/cart, core/cart/merge).  A request reads a cart,   *)
(* changes its copy and saves the whole of it, in separate steps, with a   *)
(* look-up in the catalog before (AddItem) or after (UpdateItem) the read. *)
(* A read of a cart not updated for CartTTL days empties it.  Merging adds *)
(* the guest's lines one by one and then deletes the guest's cart.         *)
(* Abstracted: a cart is its quantities by variant; the order of its lines *)
(* is any; prices are in cents.                                            *)
(***************************************************************************)
EXTENDS Database, FiniteSetsExt

CONSTANTS
    Customers,     \* account and guest cart ids
    NoCustomer,
    CartVariants,  \* variant ids a request may name
    Quantities,    \* quantities a request may carry
    Stocks,        \* stocks the catalog may show
    Price,         \* the price of each variant
    Discount,      \* the discount of each variant's product: its type and value
    MaxUnits,      \* units per line (10 in the code)
    MaxLines,      \* distinct variants per cart (50)
    CartTTL,       \* days without an update before a cart is emptied (30)
    MaxDay         \* bound: the clock

ASSUME CartAssumption ==
    /\ NoCustomer \notin Customers /\ Customers # {} /\ CartVariants # {} /\ IsFiniteSet(CartVariants)
    /\ Quantities \subseteq Nat \ {0} /\ Stocks \subseteq Nat
    /\ MaxUnits \in Nat /\ MaxLines \in Nat /\ CartTTL \in Nat /\ MaxDay \in Nat
    /\ Price \in [CartVariants -> Nat]
    /\ \A v \in CartVariants :
        Discount[v].type \in {"none", "percentage", "fixed"} /\ Discount[v].value \in Nat

VARIABLES
    carts,         \* carts[c]: the row of a customer, if there is one
    day,           \* the clock
    listed,        \* variants the catalog knows
    stock,         \* the stock it shows for each
    peak,          \* history: the largest stock a variant has had
    cartJob        \* what each request has read and does next

cartVars == <<backend, carts, day, listed, stock, peak, cartJob>>

Items == [CartVariants -> Nat]
Empty == [v \in CartVariants |-> 0]
NoCart == [items |-> Empty, updated |-> 0, row |-> FALSE]
CartRow == [items: Items, updated: Nat, row: BOOLEAN]
Lines(items) == {v \in CartVariants : items[v] > 0}

\* `todo`, `guest`: lines a merge has still to add, and the cart it deletes then
CartJob == [pc: {"idle", "lookup", "read", "reset", "save", "merge", "drop"},
            op: {"get", "add", "update", "remove"}, cust: Customers, v: CartVariants,
            q: Nat, stock: Nat, items: Items, todo: Items, guest: Customers \cup {NoCustomer}]
NoCartJob == [pc |-> "idle", op |-> "get", cust |-> CHOOSE c \in Customers : TRUE,
              v |-> CHOOSE v \in CartVariants : TRUE, q |-> 0, stock |-> 0,
              items |-> Empty, todo |-> Empty, guest |-> NoCustomer]

CartInit ==
    /\ backend \in Backends
    /\ carts = [c \in Customers |-> NoCart] /\ day = 0
    /\ listed = CartVariants /\ stock \in [CartVariants -> Stocks] /\ peak = stock
    /\ cartJob = [r \in Requests |-> NoCartJob]

-----------------------------------------------------------------------------
(* The repositories: a cart that is not found has row FALSE.               *)

PgCart(c) == carts[c]
MgCart(c) == carts[c]
CartOf(c) == On(PgCart(c), MgCart(c))

\* an upsert that keeps created_at; the document is replaced
PgSaveCart(c, items) ==
    carts' = [carts EXCEPT ![c] = [items |-> items, updated |-> day, row |-> TRUE]]
MgSaveCart(c, items) ==
    carts' = [carts EXCEPT ![c] = [items |-> items, updated |-> day, row |-> TRUE]]
StoreCart(c, items) == On(PgSaveCart(c, items), MgSaveCart(c, items))

PgDeleteCart(c) == carts' = [carts EXCEPT ![c] = NoCart]
MgDeleteCart(c) == carts' = [carts EXCEPT ![c] = NoCart]
DeleteCart(c) == On(PgDeleteCart(c), MgDeleteCart(c))

-----------------------------------------------------------------------------
(* The service.                                                            *)

Catalogue == <<listed, stock, peak>>

CartStart(r, q) == cartJob[r].pc = "idle" /\ cartJob' = [cartJob EXCEPT ![r] = q]
\* An operation has ended: a merge goes on with its next line, the request is over otherwise.
AfterOp(q) == IF q.guest = NoCustomer THEN NoCartJob ELSE [q EXCEPT !.pc = "merge"]

\* Faulty variant: the units already in the cart are not counted.
IgnoringCart(q, items) ==
    IF q.q > MaxUnits \/ q.q > q.stock \/ (items[q.v] = 0 /\ Cardinality(Lines(items)) >= MaxLines)
    THEN AfterOp(q)
    ELSE [q EXCEPT !.pc = "save", !.items = [items EXCEPT ![q.v] = @ + q.q]]
\* A line may hold MaxUnits, no more than the stock read before, and a cart MaxLines lines.
Added(q, items) ==
    LET target == q.q + items[q.v] IN
    IF \/ target > MaxUnits \/ target > q.stock
       \/ items[q.v] = 0 /\ Cardinality(Lines(items)) >= MaxLines
    THEN AfterOp(q)
    ELSE [q EXCEPT !.pc = "save", !.items = [items EXCEPT ![q.v] = target]]

\* UpdateItem looks the variant up only when it is in the cart.
Updated(q, items) ==
    IF items[q.v] = 0 THEN AfterOp(q) ELSE [q EXCEPT !.pc = "lookup", !.items = items]

\* RemoveItem writes nothing when the variant is not in the cart.
Removed(q, items) ==
    IF items[q.v] = 0 THEN AfterOp(q)
    ELSE [q EXCEPT !.pc = "save", !.items = [items EXCEPT ![q.v] = 0]]

WithCart(q, items) ==
    CASE q.op = "get" -> AfterOp(q)
      [] q.op = "add" -> Added(q, items)
      [] q.op = "update" -> Updated(q, items)
      [] q.op = "remove" -> Removed(q, items)

Expired(c) == c.row /\ day - c.updated > CartTTL

\* getRawCart: what is not there is empty; what has expired is emptied and saved first.
getRawCart(r) ==
    LET q == cartJob[r]
        c == CartOf(q.cust)
    IN  /\ q.pc = "read"
        /\ cartJob' = [cartJob EXCEPT ![r] =
                          IF Expired(c) THEN [q EXCEPT !.pc = "reset"] ELSE WithCart(q, c.items)]
        /\ UNCHANGED <<backend, carts, day, Catalogue>>

\* The reset of an expired cart; a failure to save it is only logged.
ResetCart(r) ==
    LET q == cartJob[r] IN
    /\ q.pc = "reset"
    /\ StoreCart(q.cust, Empty) \/ UNCHANGED carts
    /\ cartJob' = [cartJob EXCEPT ![r] = WithCart(q, Empty)]
    /\ UNCHANGED <<backend, day, Catalogue>>

\* The variant and its stock, as the catalog shows them now.
LookUpVariant(r) ==
    LET q == cartJob[r] IN
    /\ q.pc = "lookup"
    /\ cartJob' = [cartJob EXCEPT ![r] =
          IF q.v \notin listed THEN AfterOp(q)
          ELSE IF q.op = "add" THEN [q EXCEPT !.pc = "read", !.stock = stock[q.v]]
          ELSE IF q.q > stock[q.v] THEN AfterOp(q)
          ELSE [q EXCEPT !.pc = "save", !.items[q.v] = q.q]]
    /\ UNCHANGED <<backend, carts, day, Catalogue>>

SaveCart(r) ==
    LET q == cartJob[r] IN
    /\ q.pc = "save"
    /\ StoreCart(q.cust, q.items)
    /\ cartJob' = [cartJob EXCEPT ![r] = AfterOp(q)]
    /\ UNCHANGED <<backend, day, Catalogue>>

GetCart(r, c) == CartStart(r, [NoCartJob EXCEPT !.pc = "read", !.cust = c])
AddItem(r, c, v, n) ==
    CartStart(r, [NoCartJob EXCEPT !.pc = "lookup", !.op = "add", !.cust = c, !.v = v, !.q = n])
UpdateItem(r, c, v, n) ==
    /\ n <= MaxUnits
    /\ CartStart(r, [NoCartJob EXCEPT !.pc = "read", !.op = "update", !.cust = c, !.v = v, !.q = n])
RemoveItem(r, c, v) ==
    CartStart(r, [NoCartJob EXCEPT !.pc = "read", !.op = "remove", !.cust = c, !.v = v])
ClearCart(c) == DeleteCart(c) /\ UNCHANGED <<backend, day, Catalogue, cartJob>>

\* The guest's cart is read as it is stored, expired or not.
MergeGuestCartWithAccount(r, c, guest) ==
    IF ~CartOf(guest).row THEN GetCart(r, c)
    ELSE CartStart(r, [NoCartJob EXCEPT !.pc = "merge", !.cust = c, !.guest = guest,
                                        !.todo = CartOf(guest).items])

\* The next line goes through AddItem; after the last the guest's cart is deleted.
MergeLine(r) ==
    LET q == cartJob[r] IN
    /\ q.pc = "merge"
    /\ \/ \E v \in Lines(q.todo) :
            cartJob' = [cartJob EXCEPT ![r] = [q EXCEPT !.pc = "lookup", !.op = "add", !.v = v,
                                                        !.q = q.todo[v], !.todo[v] = 0]]
       \/ Lines(q.todo) = {} /\ cartJob' = [cartJob EXCEPT ![r].pc = "drop"]
    /\ UNCHANGED <<backend, carts, day, Catalogue>>

\* An error of the delete is ignored; the account's cart is read for the answer.
DropGuest(r) ==
    LET q == cartJob[r] IN
    /\ q.pc = "drop"
    /\ DeleteCart(q.guest) \/ UNCHANGED carts
    /\ cartJob' = [cartJob EXCEPT ![r] = [NoCartJob EXCEPT !.pc = "read", !.cust = q.cust]]
    /\ UNCHANGED <<backend, day, Catalogue>>

\* A statement fails (a merge skips the line) or the process stops.
FailCart(r) ==
    /\ cartJob[r].pc # "idle"
    /\ \/ cartJob' = [cartJob EXCEPT ![r] = NoCartJob]
       \/ cartJob' = [cartJob EXCEPT ![r] = AfterOp(@)]
    /\ UNCHANGED <<backend, carts, day, Catalogue>>

-----------------------------------------------------------------------------
(* Answers: what the handlers return of a cart.                            *)

SumOver(f, S) == MapThenSumSet(LAMBDA v : f[v], S)

\* Rounded to cents; a fixed discount never goes below zero.
DiscountedPrice(v) ==
    CASE Discount[v].type = "none" -> Price[v]
      [] Discount[v].type = "percentage" -> (Price[v] * (100 - Discount[v].value) + 50) \div 100
      [] Discount[v].type = "fixed" ->
            IF Price[v] < Discount[v].value THEN 0 ELSE Price[v] - Discount[v].value

\* Lines whose variant the catalog no longer knows are named and not counted.
enrichCart(items) ==
    LET shown == Lines(items) \cap listed
    IN  [items |-> shown, unavailable |-> Lines(items) \ listed,
         total |-> SumOver([v \in CartVariants |-> Price[v] * items[v]], shown),
         discounted |-> SumOver([v \in CartVariants |-> DiscountedPrice(v) * items[v]], shown)]

CartCount(items) == SumOver(items, Lines(items))
CartCountDetailed(items) ==
    [count |-> CartCount(items), distinct |-> Cardinality(Lines(items))]

-----------------------------------------------------------------------------
(* The handlers, the catalog as the cart sees it, the clock.               *)

HandleGetCart(r) == \E c \in Customers : GetCart(r, c) /\ UNCHANGED <<backend, carts, day, Catalogue>>
HandleGetCartCount(r) == HandleGetCart(r)
HandleAddItem(r) ==
    \E c \in Customers, v \in CartVariants, n \in Quantities :
        AddItem(r, c, v, n) /\ UNCHANGED <<backend, carts, day, Catalogue>>
HandleUpdateItem(r) ==
    \E c \in Customers, v \in CartVariants, n \in Quantities :
        UpdateItem(r, c, v, n) /\ UNCHANGED <<backend, carts, day, Catalogue>>
HandleRemoveItem(r) ==
    \E c \in Customers, v \in CartVariants :
        RemoveItem(r, c, v) /\ UNCHANGED <<backend, carts, day, Catalogue>>
HandleClear == \E c \in Customers : ClearCart(c)
HandleMerge(r) ==
    \E c, guest \in Customers :
        /\ MergeGuestCartWithAccount(r, c, guest)
        /\ UNCHANGED <<backend, carts, day, Catalogue>>

\* The catalog sets another stock, or forgets the variant.
CatalogChanges(v) ==
    /\ \/ \E n \in Stocks :
            /\ v \in listed /\ n # stock[v]
            /\ stock' = [stock EXCEPT ![v] = n]
            /\ peak' = [peak EXCEPT ![v] = IF n > @ THEN n ELSE @]
            /\ UNCHANGED listed
       \/ v \in listed /\ listed' = listed \ {v} /\ UNCHANGED <<stock, peak>>
    /\ UNCHANGED <<backend, carts, day, cartJob>>

CartTick == day < MaxDay /\ day' = day + 1 /\ UNCHANGED <<backend, carts, Catalogue, cartJob>>

CartNext ==
    \/ \E r \in Requests :
        \/ HandleGetCart(r) \/ HandleGetCartCount(r) \/ HandleAddItem(r) \/ HandleUpdateItem(r)
        \/ HandleRemoveItem(r) \/ HandleMerge(r)
        \/ getRawCart(r) \/ ResetCart(r) \/ LookUpVariant(r) \/ SaveCart(r)
        \/ MergeLine(r) \/ DropGuest(r) \/ FailCart(r)
    \/ HandleClear
    \/ \E v \in CartVariants : CatalogChanges(v)
    \/ CartTick

CartSpec == CartInit /\ [][CartNext]_cartVars

-----------------------------------------------------------------------------
(* Properties.                                                             *)

\* What a customer is shown adds up: a discount never raises a total, and every line is either
\* shown or named as unavailable.
CartAnswersOK ==
    \A c \in Customers :
        LET answer == enrichCart(carts[c].items) IN
        /\ answer.discounted <= answer.total
        /\ answer.items \cup answer.unavailable = Lines(carts[c].items)
        /\ CartCountDetailed(carts[c].items).count >= CartCountDetailed(carts[c].items).distinct

CartTypeOK ==
    /\ carts \in [Customers -> CartRow] /\ day \in Nat
    /\ listed \subseteq CartVariants
    /\ stock \in [CartVariants -> Nat] /\ peak \in [CartVariants -> Nat]
    /\ cartJob \in [Requests -> CartJob]
    /\ CartAnswersOK

\* Whatever requests and merges race, a stored cart has at most MaxLines lines, and no line
\* holds more than MaxUnits or more than the catalog has ever had in stock (AddItem checks the
\* sum with what the cart holds, and saves the copy it has checked).
LinesWithinLimits ==
    \A c \in Customers :
        /\ Cardinality(Lines(carts[c].items)) <= MaxLines
        /\ \A v \in CartVariants : carts[c].items[v] <= MaxUnits /\ carts[c].items[v] <= peak[v]
=============================================================================
