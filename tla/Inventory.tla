------------------------------ MODULE Inventory ------------------------------
(***************************************************************************)
(* The inventory services (internal/core/inventory/features) over the      *)
(* tables stock_items and reservations, for one variant, and the catalog's *)
(* subscriber to inventory.stock_changed.                                  *)
(*                                                                         *)
(* Every operation reads a row, computes in memory and saves the whole row *)
(* back (an upsert without a condition); the statements of one operation   *)
(* share no transaction.  Each of them is a step here, and can fail before *)
(* or after it took effect.  A reservation or transfer that fails half-way *)
(* saves the quantity it once read ("undo").  A read that fails ends its   *)
(* operation without a trace, unless the code goes on with a default row.  *)
(*                                                                         *)
(* A row is its quantity and its backorder limit, 0 when backorders are    *)
(* not allowed.  The missing row is the default row the services make up   *)
(* for it.  Alerts and the history table are left out: nothing here reads  *)
(* them.  BulkUpdate is a series of UpdateStock.  The id generator of the  *)
(* reservations cannot fail on the Go version the module requires.         *)
(***************************************************************************)
EXTENDS Integers, FiniteSets, FiniteSetsExt

CONSTANTS
    Locations,     \* inventory locations
    Reservations,  \* reservation ids
    Workers,       \* goroutines
    Amounts,       \* quantities one reserves, transfers or adjusts by
    Levels,        \* quantities one sets
    Limits,        \* backorder limits one configures
    Quantities,    \* bound: quantities a row may hold
    InitialStock,  \* quantity of every row at first
    MaxRequests,   \* bound: requests in one behaviour
    MaxFaults      \* bound: statements that fail, and crashes

ASSUME InventoryAssumption ==
    /\ IsFiniteSet(Locations) /\ Locations # {}
    /\ IsFiniteSet(Reservations) /\ Reservations # {}
    /\ IsFiniteSet(Workers)
    /\ Amounts \subseteq Nat \ {0}
    /\ Limits \subseteq Int
    /\ Quantities \subseteq Int
    /\ Levels \subseteq Quantities \cap Nat
    /\ InitialStock \in Quantities \cap Nat
    /\ 0 \in Quantities
    /\ MaxRequests \in Nat
    /\ MaxFaults \in Nat

VARIABLES
    stock,     \* stock[k]: the row of location k
    resv,      \* resv[r]: the reservation row r
    proc,      \* proc[w]: what goroutine w is doing
    pending,   \* pending[q]: stock_changed handlers still to run with quantity q
    catalog,   \* variants.stock, the catalog's copy
    requests,  \* requests so far
    faults,    \* failures so far
    allowed,   \* history: limits the row of k has been saved with
    ledger,    \* history: units there should be, over all locations
    damaged    \* history: a stale save, a lost answer or a failed undo occurred

rowVars == <<stock, allowed>>
historyVars == <<ledger, damaged>>
vars == <<stock, resv, proc, pending, catalog, requests, faults, allowed, ledger, damaged>>

Row == [there : BOOLEAN, qty : Quantities, limit : Limits \cup {0}]

\* Faulty variant: the default threshold, 5, in the wrong column.
WrongColumn == [there |-> FALSE, qty |-> 0, limit |-> 5]

\* The row that is not there, and the one the services make up for it.
Missing == [there |-> FALSE, qty |-> 0, limit |-> 0]

Reservation == [loc : Locations, qty : Amounts \cup {0}]

\* No row in hand.
Nothing == [there |-> FALSE, qty |-> 0, limit |-> 0]

\* The reservation that is not there has quantity 0.
Open(r) == resv[r].qty > 0

Ops == {"idle", "reserve", "release", "set", "configure", "adjust", "sync", "transfer"}
Labels == {"idle", "readStock", "readDest", "save", "create", "delete", "saveDest", "undo"}

\* item: the row to save in loc; old: the quantity read from it; dest: the
\* row to save in the transfer's destination to.
ProcState == [op : Ops, at : Labels, loc : Locations, to : Locations, item : Row, dest : Row,
              old : Quantities, n : Int, res : Reservations]

AnyLocation == CHOOSE k \in Locations : TRUE
AnyReservation == CHOOSE r \in Reservations : TRUE

Idle == [op |-> "idle", at |-> "idle", loc |-> AnyLocation, to |-> AnyLocation, item |-> Nothing,
         dest |-> Nothing, old |-> 0, n |-> 0, res |-> AnyReservation]

Free(w) == proc[w] = Idle
Goto(w, l) == proc' = [proc EXCEPT ![w].at = l]
Finish(w) == proc' = [proc EXCEPT ![w] = Idle]

Fault == faults < MaxFaults /\ faults' = faults + 1
NoFault == UNCHANGED faults

\* A request reaches goroutine w and has made its first read.
Request(w, p) ==
    /\ Free(w)
    /\ requests < MaxRequests
    /\ requests' = requests + 1
    /\ proc' = [proc EXCEPT ![w] = p]

-----------------------------------------------------------------------------
\* Rows.

\* Faulty variant: one unit more than the limit.
OneTooMany(row, n) == row.qty - n >= -row.limit - 1

\* StockItem.Reserve
CanReserve(row, n) == row.qty - n >= -row.limit

\* The row an operation works on when it takes every error for "no such row".
ReadOrDefault(k, row) ==
    \/ row = stock[k] /\ NoFault
    \/ row = Missing /\ Fault

\* SaveStock: INSERT ... ON CONFLICT DO UPDATE of every column.
SaveStock(k, row) ==
    /\ stock' = [stock EXCEPT ![k] = [row EXCEPT !.there = TRUE]]
    /\ allowed' = [allowed EXCEPT ![k] = @ \cup {row.limit}]

\* A save from a copy whose quantity is no longer the row's.
Stale(k, qty) == stock[k].qty # qty

\* Publication of stock_changed: one handler goroutine for each quantity.
Publish(q) == pending' = [pending EXCEPT ![q] = @ + 1]

-----------------------------------------------------------------------------
\* Requests, up to the first statement that writes.

\* ReserveStock
ReserveStock(w, k, n) ==
    LET row == stock[k] IN
    /\ row.there
    /\ CanReserve(row, n)
    /\ row.qty - n \in Quantities
    /\ Request(w, [Idle EXCEPT !.op = "reserve", !.at = "save", !.loc = k, !.n = n,
                               !.item = [row EXCEPT !.qty = @ - n], !.old = row.qty])
    /\ UNCHANGED <<rowVars, historyVars, resv, pending, catalog, faults>>

\* ReleaseReservation: GetReservation ...
ReleaseReservation(w, r) ==
    /\ Open(r)
    /\ Request(w, [Idle EXCEPT !.op = "release", !.at = "readStock", !.res = r,
                               !.loc = resv[r].loc, !.n = resv[r].qty])
    /\ UNCHANGED <<rowVars, historyVars, resv, pending, catalog, faults>>

\* ... and GetStock.
ReadForRelease(w) ==
    LET row == stock[proc[w].loc]
        sum == row.qty + proc[w].n
    IN
    /\ proc[w].at = "readStock"
    /\ IF row.there
       THEN /\ sum \in Quantities
            /\ proc' = [proc EXCEPT ![w].at = "save", ![w].item = [row EXCEPT !.qty = sum],
                                    ![w].old = row.qty]
       ELSE Finish(w)
    /\ UNCHANGED <<rowVars, historyVars, resv, pending, catalog, requests, faults>>

\* UpdateStock, one item of BulkUpdate, and ConfigureStock with a quantity.
SetStock(w, k, q) ==
    \E row \in {stock[k], Missing} : \E l \in Limits \cup {row.limit} :
       /\ ReadOrDefault(k, row)
       /\ Request(w, [Idle EXCEPT !.op = "set", !.at = "save", !.loc = k,
                                  !.item = [row EXCEPT !.qty = q, !.limit = l], !.old = row.qty])
       /\ UNCHANGED <<rowVars, historyVars, resv, pending, catalog>>

\* ConfigureStock without a quantity.
ConfigureStock(w, k, l) ==
    \E row \in {stock[k], Missing} :
       /\ ReadOrDefault(k, row)
       /\ Request(w, [Idle EXCEPT !.op = "configure", !.at = "save", !.loc = k,
                                  !.item = [row EXCEPT !.limit = l], !.old = row.qty])
       /\ UNCHANGED <<rowVars, historyVars, resv, pending, catalog>>

\* AdjustStock; a negative result is refused.
AdjustStock(w, k, n) ==
    \E row \in {stock[k], Missing} :
       /\ ReadOrDefault(k, row)
       /\ row.qty + n \in Quantities \cap Nat
       /\ Request(w, [Idle EXCEPT !.op = "adjust", !.at = "save", !.loc = k, !.n = n,
                                  !.item = [row EXCEPT !.qty = @ + n], !.old = row.qty])
       /\ UNCHANGED <<rowVars, historyVars, resv, pending, catalog>>

\* SyncStock: only a missing row is replaced by the default one.
SyncStock(w, k, q) ==
    /\ Request(w, [Idle EXCEPT !.op = "sync", !.at = "save", !.loc = k,
                               !.item = [stock[k] EXCEPT !.qty = q], !.old = stock[k].qty])
    /\ UNCHANGED <<rowVars, historyVars, resv, pending, catalog, faults>>

\* TransferStock: the source ...
TransferStock(w, k, to, n) ==
    LET row == stock[k] IN
    /\ k # to
    /\ row.there
    /\ n <= row.qty
    /\ row.qty - n \in Quantities
    /\ Request(w, [Idle EXCEPT !.op = "transfer", !.at = "readDest", !.loc = k, !.to = to, !.n = n,
                               !.item = [row EXCEPT !.qty = @ - n], !.old = row.qty])
    /\ UNCHANGED <<rowVars, historyVars, resv, pending, catalog, faults>>

\* ... and the destination.
ReadDestination(w) ==
    /\ proc[w].at = "readDest"
    /\ \E row \in {stock[proc[w].to], Missing} :
          /\ ReadOrDefault(proc[w].to, row)
          /\ row.qty + proc[w].n \in Quantities
          /\ proc' = [proc EXCEPT ![w].at = "save", ![w].dest = [row EXCEPT !.qty = @ + proc[w].n]]
    /\ UNCHANGED <<rowVars, historyVars, resv, pending, catalog, requests>>

-----------------------------------------------------------------------------
\* Writes.

\* Quantities that are set and not computed cannot be stale.
Absolute(op) == op \in {"set", "sync"}

\* Operations that have more to do after their first save.
Compound(op) == op \in {"reserve", "release", "transfer"}

NextStep(op) == CASE op = "reserve" -> "create" [] op = "release" -> "delete" [] op = "transfer" -> "saveDest"

\* The units there should be after the first save of p.
LedgerAfter(p) ==
    ledger + CASE Absolute(p.op) -> p.item.qty - stock[p.loc].qty
               [] p.op = "adjust" -> p.n
               [] OTHER -> 0

\* What is published when an operation of one save has succeeded.
Announce(p) == IF p.op \in {"adjust", "sync"} THEN Publish(p.item.qty) ELSE UNCHANGED pending

\* The first save, and for the simple operations the only one.
Save(w) ==
    LET p == proc[w]
        overwrites == ~Absolute(p.op) /\ Stale(p.loc, p.old)
    IN
    /\ p.at = "save"
    /\ \/ /\ SaveStock(p.loc, p.item)
          /\ ledger' = LedgerAfter(p)
          /\ \/ /\ NoFault
                /\ IF Compound(p.op) THEN Goto(w, NextStep(p.op)) ELSE Finish(w)
                /\ Announce(p)
                /\ damaged' = (damaged \/ overwrites)
             \/ /\ Fault
                /\ Finish(w)
                /\ damaged' = (damaged \/ overwrites \/ Compound(p.op))
                /\ UNCHANGED pending
       \/ /\ Fault
          /\ Finish(w)
          /\ UNCHANGED <<rowVars, historyVars, pending>>
    /\ UNCHANGED <<resv, catalog, requests>>

\* ReserveStock: CreateReservation, then the event.
CreateReservation(w) ==
    LET p == proc[w] IN
    /\ p.at = "create"
    /\ \/ \E r \in Reservations :
             /\ ~Open(r)
             /\ \A v \in Workers : proc[v].op = "release" => proc[v].res # r
             /\ resv' = [resv EXCEPT ![r] = [loc |-> p.loc, qty |-> p.n]]
             /\ \/ /\ NoFault
                   /\ Finish(w)
                   /\ Publish(p.item.qty)
                   /\ UNCHANGED damaged
                \/ /\ Fault
                   /\ Goto(w, "undo")
                   /\ damaged' = TRUE
                   /\ UNCHANGED pending
       \/ /\ Fault
          /\ Goto(w, "undo")
          /\ UNCHANGED <<resv, pending, damaged>>
    /\ UNCHANGED <<rowVars, ledger, catalog, requests>>

\* Faulty variant: a reservation that is gone already counts as deleted.
DeletedAnyway(r) == TRUE

\* DeleteReservation: a statement that deletes no row is an error.
Deleted(r) == Open(r)

\* ReleaseReservation: DeleteReservation, then the event.
DeleteReservation(w) ==
    LET p == proc[w]
        gone == [resv EXCEPT ![p.res].qty = 0]
    IN
    /\ p.at = "delete"
    /\ \/ /\ Deleted(p.res)
          /\ resv' = gone
          /\ Finish(w)
          /\ Publish(p.item.qty)
          /\ NoFault
          /\ UNCHANGED damaged
       \/ /\ ~Deleted(p.res)
          /\ Goto(w, "undo")
          /\ NoFault
          /\ UNCHANGED <<resv, pending, damaged>>
       \/ /\ Fault
          /\ Goto(w, "undo")
          /\ \/ UNCHANGED <<resv, damaged>>
             \/ Deleted(p.res) /\ resv' = gone /\ damaged' = TRUE
          /\ UNCHANGED pending
    /\ UNCHANGED <<rowVars, ledger, catalog, requests>>

\* TransferStock: the destination's save, then both events.
SaveDestination(w) ==
    LET p == proc[w]
        overwrites == Stale(p.to, p.dest.qty - p.n)
    IN
    /\ p.at = "saveDest"
    /\ \/ /\ SaveStock(p.to, p.dest)
          /\ NoFault
          /\ Finish(w)
          /\ pending' = [q \in Quantities |-> pending[q] + Cardinality({k \in {p.loc, p.to} :
                                                  q = IF k = p.loc THEN p.item.qty ELSE p.dest.qty})]
          /\ damaged' = (damaged \/ overwrites)
       \/ /\ SaveStock(p.to, p.dest)
          /\ Fault
          /\ Goto(w, "undo")
          /\ damaged' = TRUE
          /\ UNCHANGED pending
       \/ /\ Fault
          /\ Goto(w, "undo")
          /\ UNCHANGED <<rowVars, pending, damaged>>
    /\ UNCHANGED <<resv, ledger, catalog, requests>>

\* The rollback: the quantity read at first is saved, whatever it is now.
\* Its error is ignored.
Undo(w) ==
    LET p == proc[w]
        overwrites == Stale(p.loc, p.item.qty)
    IN
    /\ p.at = "undo"
    /\ \/ /\ SaveStock(p.loc, [p.item EXCEPT !.qty = p.old])
          /\ damaged' = (damaged \/ overwrites)
          /\ NoFault \/ Fault
       \/ /\ Fault
          /\ damaged' = TRUE
          /\ UNCHANGED rowVars
    /\ Finish(w)
    /\ UNCHANGED <<resv, pending, catalog, requests, ledger>>

\* DeleteStock, one statement; reservations of the location stay.
DeleteStock(k) ==
    /\ requests < MaxRequests
    /\ requests' = requests + 1
    /\ stock[k].there
    /\ stock' = [stock EXCEPT ![k] = Missing]
    /\ ledger' = ledger - stock[k].qty
    /\ UNCHANGED <<resv, proc, pending, catalog, faults, allowed, damaged>>

\* SubscribeStockEvents: the handler of one event, or its last failed retry.
HandleStockChanged(q) ==
    /\ pending[q] > 0
    /\ pending' = [pending EXCEPT ![q] = @ - 1]
    /\ \/ catalog' = q /\ NoFault
       \/ UNCHANGED catalog /\ Fault
    /\ UNCHANGED <<rowVars, historyVars, resv, proc, requests>>

\* The process dies; the tables stay.
Crash ==
    /\ Fault
    /\ proc' = [w \in Workers |-> Idle]
    /\ pending' = [q \in Quantities |-> 0]
    /\ damaged' = (damaged \/ \E w \in Workers : proc[w].at \in {"create", "delete", "saveDest", "undo"})
    /\ UNCHANGED <<rowVars, resv, catalog, requests, ledger>>

-----------------------------------------------------------------------------
Init ==
    /\ stock = [k \in Locations |-> [there |-> TRUE, qty |-> InitialStock, limit |-> 0]]
    /\ resv = [r \in Reservations |-> [loc |-> AnyLocation, qty |-> 0]]
    /\ proc = [w \in Workers |-> Idle]
    /\ pending = [q \in Quantities |-> 0]
    /\ catalog = InitialStock
    /\ requests = 0
    /\ faults = 0
    /\ allowed = [k \in Locations |-> {0}]
    /\ ledger = InitialStock * Cardinality(Locations)
    /\ damaged = FALSE

NewRequest(w) ==
    \/ \E r \in Reservations : ReleaseReservation(w, r)
    \/ \E k \in Locations :
          \/ \E n \in Amounts : \/ ReserveStock(w, k, n)
                                \/ AdjustStock(w, k, n) \/ AdjustStock(w, k, -n)
                                \/ \E to \in Locations : TransferStock(w, k, to, n)
          \/ \E q \in Levels : SetStock(w, k, q) \/ SyncStock(w, k, q)
          \/ \E l \in Limits : ConfigureStock(w, k, l)

Step(w) ==
    \/ ReadForRelease(w) \/ ReadDestination(w)
    \/ Save(w) \/ CreateReservation(w) \/ DeleteReservation(w) \/ SaveDestination(w)
    \/ Undo(w)

Next ==
    \/ \E w \in Workers : NewRequest(w) \/ Step(w)
    \/ \E k \in Locations : DeleteStock(k)
    \/ \E q \in Quantities : HandleStockChanged(q)
    \/ Crash

Spec == Init /\ [][Next]_vars

-----------------------------------------------------------------------------
(***************************************************************************)
(* Types of the variables.                                                 *)
(***************************************************************************)
TypeOK ==
    /\ stock \in [Locations -> Row]
    /\ resv \in [Reservations -> Reservation]
    /\ proc \in [Workers -> ProcState]
    /\ pending \in [Quantities -> Nat]
    /\ catalog \in Quantities
    /\ requests \in 0..MaxRequests
    /\ faults \in 0..MaxFaults
    /\ allowed \in [Locations -> SUBSET (Limits \cup {0})]
    /\ ledger \in Int
    /\ damaged \in BOOLEAN

\* A quantity some limit of L allows.
Above(qty, L) == qty >= 0 \/ \E l \in L : qty >= -l

(***************************************************************************)
(* What a row holds is never below zero by more than a backorder limit     *)
(* somebody saved in it: whatever copies are saved late or rolled back,    *)
(* they were covered when they were read, and a location that never had    *)
(* backorders never shows a negative quantity.  How much was promised to   *)
(* customers is another matter: two reservations that read the same        *)
(* quantity both succeed.                                                  *)
(***************************************************************************)
BelowZeroIsBackordered == \A k \in Locations : Above(stock[k].qty, allowed[k])

\* Units in the rows and in open reservations.
TotalUnits ==
    MapThenSumSet(LAMBDA k : stock[k].qty, Locations)
    + MapThenSumSet(LAMBDA r : resv[r].qty, Reservations)

(***************************************************************************)
(* Units are not made or lost.  The comments of ReserveStock and           *)
(* ReleaseReservation name two ways to corrupt the stock: a save from a    *)
(* stale copy and a failed rollback.  With a lost answer and a crash       *)
(* half-way these are all of them: without them every reservation,         *)
(* release and transfer, completed or rolled back, even two releases of    *)
(* one reservation, leaves the units that deliberate changes account for.  *)
(***************************************************************************)
UnitsConserved ==
    (~damaged /\ \A w \in Workers : Free(w)) => TotalUnits = ledger

=============================================================================
