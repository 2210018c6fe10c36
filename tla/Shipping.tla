------------------------------ MODULE Shipping ------------------------------
(***************************************************************************)
(* Shipments (core/shipping) over their two repositories.  A request reads *)
(* in one step and writes in a later one, and a status update writes the   *)
(* whole row it read, history included.  `order.shipped` is published      *)
(* after the commit: the module reads the container's outbox in Init, the  *)
(* engine sets it only when all modules are initialised, so in no          *)
(* deployment has the service one, and its outbox branches never run.      *)
(* Abstracted: times, actors, and the carrier beyond the cost it sets.     *)
(***************************************************************************)
EXTENDS Database

CONSTANTS
    ShipOrders,       \* orders to ship
    Owner,            \* the customer of each order
    TrackingNumbers,
    NoTracking,       \* the empty tracking number
    ShipProviders,    \* configured providers, by name
    OtherCarrier,     \* a carrier that is not a provider
    Packages,         \* weights and values
    MaxShipments,     \* bound: shipments ever created
    MaxHistory        \* bound: entries of a status history

ASSUME ShippingAssumption ==
    /\ NoTracking \notin TrackingNumbers /\ OtherCarrier \notin DOMAIN ShipProviders
    /\ \A p \in Packages : p.weight \in Nat /\ p.value \in Nat
    /\ \A n \in DOMAIN ShipProviders :
        /\ ShipProviders[n].type \in {"flatrate", "freeabove", "weightbased"}
        /\ ShipProviders[n].rate \in Nat /\ ShipProviders[n].threshold \in Nat
        /\ ShipProviders[n].perKg \in Nat
    /\ MaxShipments \in Nat /\ MaxHistory \in Nat
    /\ ShipOrders # {} /\ ShipOrders \subseteq DOMAIN Owner /\ IsFiniteSet(Requests)

VARIABLES
    shipments,        \* rows of shipments
    shipmentsMade,    \* rows ever inserted: ids are never used again
    announced,        \* orders whose order.shipped event was published
    cut,              \* history: orders whose request ended between commit and publication
    unchecked,        \* history: orders with a shipment that a failing read did not find
    shipJob           \* what each request has read and does next

shipHistory == <<cut, unchecked>>
shippingVars == <<backend, shipments, shipmentsMade, announced, shipHistory, shipJob>>

ShipmentStatus == {"pending", "in_transit", "delivered", "returned"}
Shipment == [id: Nat, order: ShipOrders, tracking: TrackingNumbers \cup {NoTracking},
             status: ShipmentStatus, history: Seq(ShipmentStatus), cost: Nat]
\* `announce`: the step moves the shipment from pending to in_transit, or creates it so
ShipJob == [pc: {"idle", "insert", "update", "publish", "delete"},
            row: Shipment, announce: BOOLEAN]

NoShipment == [id |-> 0, order |-> CHOOSE o \in ShipOrders : TRUE, tracking |-> NoTracking,
               status |-> "pending", history |-> <<>>, cost |-> 0]
NoShipJob == [pc |-> "idle", row |-> NoShipment, announce |-> FALSE]

ShippingInit ==
    /\ backend \in Backends
    /\ shipments = {} /\ shipmentsMade = 0 /\ announced = {} /\ cut = {} /\ unchecked = {}
    /\ shipJob = [r \in Requests |-> NoShipJob]

-----------------------------------------------------------------------------
(* Rates.                                                                  *)

FlatRate(p, pkg) == p.rate
FreeAbove(p, pkg) == IF pkg.value >= p.threshold THEN 0 ELSE p.rate
WeightBased(p, pkg) == p.rate + pkg.weight * p.perKg

\* The provider built for a configured type.
BuiltRate(p, pkg) ==
    CASE p.type = "flatrate" -> FlatRate(p, pkg)
      [] p.type = "freeabove" -> FreeAbove(p, pkg)
      [] p.type = "weightbased" -> WeightBased(p, pkg)

CalculateRates(pkg) == [n \in DOMAIN ShipProviders |-> BuiltRate(ShipProviders[n], pkg)]

\* The cost of a new shipment: nothing when the carrier is not a provider.
ShippingCost(carrier, pkg) ==
    IF carrier \in DOMAIN ShipProviders THEN BuiltRate(ShipProviders[carrier], pkg) ELSE 0

-----------------------------------------------------------------------------
(* The repositories.                                                       *)

PgShipmentByID(i) == {s \in shipments : s.id = i}
MgShipmentByID(i) == {s \in shipments : s.id = i}
ShipmentByID(i) == On(PgShipmentByID(i), MgShipmentByID(i))

\* Faulty variant: only a shipment that has not left counts.
PendingByOrderID(o) == {s \in shipments : s.order = o /\ s.status = "pending"}
\* any of the rows: LIMIT 1, FindOne
PgShipmentByOrderID(o) == {s \in shipments : s.order = o}
MgShipmentByOrderID(o) == {s \in shipments : s.order = o}
ShipmentByOrderID(o) == On(PgShipmentByOrderID(o), MgShipmentByOrderID(o))

PgShipmentByTracking(t) == {s \in shipments : s.tracking = t}
MgShipmentByTracking(t) == {s \in shipments : s.tracking = t}
ShipmentByTracking(t) == On(PgShipmentByTracking(t), MgShipmentByTracking(t))

PgListShipments(limit, offset) == Newest(shipments, limit, offset)
MgListShipments(limit, offset) == Newest(shipments, limit, offset)
ListShipments(limit, offset) ==
    On(PgListShipments(limit, offset), MgListShipments(limit, offset))

\* no unique index but the key
PgCreateShipment(s) == shipments' = shipments \cup {s}
MgCreateShipment(s) == shipments' = shipments \cup {s}
StoreShipment(s) == On(PgCreateShipment(s), MgCreateShipment(s))

PgUpdateShipment(s) == shipments' = {IF x.id = s.id THEN s ELSE x : x \in shipments}
MgUpdateShipment(s) == shipments' = {IF x.id = s.id THEN s ELSE x : x \in shipments}
UpdateShipment(s) == On(PgUpdateShipment(s), MgUpdateShipment(s))

PgDeleteShipment(i) == shipments' = {x \in shipments : x.id # i}
MgDeleteShipment(i) == shipments' = {x \in shipments : x.id # i}
RemoveShipment(i) == On(PgDeleteShipment(i), MgDeleteShipment(i))

-----------------------------------------------------------------------------
(* Requests.                                                               *)

ShipGoto(r, pc, row, announce) ==
    /\ shipJob[r].pc = "idle"
    /\ shipJob' = [shipJob EXCEPT ![r] = [pc |-> pc, row |-> row, announce |-> announce]]
ShipDone(r) == shipJob' = [shipJob EXCEPT ![r] = NoShipJob]
ShipTables == <<backend, shipments, shipmentsMade, announced>>

\* Faulty variant: the publication after the commit of CreateShipment is missing.
AnnounceUpdates(r) ==
    IF shipJob[r].announce /\ shipJob[r].row.id # 0
    THEN shipJob' = [shipJob EXCEPT ![r].pc = "publish"]
    ELSE ShipDone(r)

\* The event of a step that announces is published next.
Announce(r) ==
    IF shipJob[r].announce THEN shipJob' = [shipJob EXCEPT ![r].pc = "publish"] ELSE ShipDone(r)

\* The transaction has found no shipment of the order, or could not read the one there is, which
\* it takes for none; a tracked shipment starts in transit.
CreateShipment(r, o, carrier, t, pkg) ==
    LET status == IF t = NoTracking THEN "pending" ELSE "in_transit"
        new == [id |-> 0, order |-> o, tracking |-> t, status |-> status,
                history |-> <<status>>, cost |-> ShippingCost(carrier, pkg)]
    IN  /\ unchecked' = IF ShipmentByOrderID(o) = {} THEN unchecked ELSE unchecked \cup {o}
        /\ ShipGoto(r, "insert", new, status = "in_transit")
        /\ UNCHANGED <<ShipTables, cut>>

\* The transaction inserts the row and commits.
InsertShipment(r) ==
    /\ shipJob[r].pc = "insert" /\ shipmentsMade < MaxShipments
    /\ shipmentsMade' = shipmentsMade + 1
    /\ StoreShipment([shipJob[r].row EXCEPT !.id = shipmentsMade + 1])
    /\ Announce(r)
    /\ UNCHANGED <<backend, announced, shipHistory>>

\* A status may change unless it is terminal, and never back to pending.
MayMove(old, status) ==
    /\ old \notin {"delivered", "returned"}
    /\ ~(old = "in_transit" /\ status = "pending")

UpdateShipmentStatus(r, i, status, t) ==
    /\ \E s \in ShipmentByID(i) :
        /\ MayMove(s.status, status) /\ Len(s.history) < MaxHistory
        /\ ShipGoto(r, "update",
                    [s EXCEPT !.status = status, !.history = Append(@, status),
                              !.tracking = IF t = NoTracking THEN @ ELSE t],
                    s.status = "pending" /\ status = "in_transit")
    /\ UNCHANGED <<ShipTables, shipHistory>>

\* The row is written whole; when it has been deleted nothing is.
SaveShipment(r) ==
    LET q == shipJob[r] IN
    /\ q.pc = "update"
    /\ IF ShipmentByID(q.row.id) = {}
       THEN UNCHANGED shipments /\ ShipDone(r)
       ELSE UpdateShipment(q.row) /\ Announce(r)
    /\ UNCHANGED <<backend, shipmentsMade, announced, shipHistory>>

\* Only the local bus is left to publish on; what it does then is LocalBus.
PublishShipped(r) ==
    /\ shipJob[r].pc = "publish"
    /\ announced' = announced \cup {shipJob[r].row.order} /\ ShipDone(r)
    /\ UNCHANGED <<backend, shipments, shipmentsMade, shipHistory>>

\* A pending shipment; it is deleted by a later statement.
DeleteShipment(r, i) ==
    /\ \E s \in ShipmentByID(i) : s.status = "pending" /\ ShipGoto(r, "delete", s, FALSE)
    /\ UNCHANGED <<ShipTables, shipHistory>>

EraseShipment(r) ==
    /\ shipJob[r].pc = "delete"
    /\ RemoveShipment(shipJob[r].row.id) /\ ShipDone(r)
    /\ UNCHANGED <<backend, shipmentsMade, announced, shipHistory>>

\* A statement fails or the process stops.  A commit that takes effect and reports an error ends
\* its request before the publication.
FailShipping(r) ==
    /\ shipJob[r].pc # "idle" /\ ShipDone(r)
    /\ cut' = IF shipJob[r].pc = "publish" THEN cut \cup {shipJob[r].row.order} ELSE cut
    /\ UNCHANGED <<ShipTables, unchecked>>

-----------------------------------------------------------------------------
(* The handlers.                                                           *)

HandleCreateShipment(r) ==
    \E o \in ShipOrders, c \in DOMAIN ShipProviders \cup {OtherCarrier},
       t \in TrackingNumbers \cup {NoTracking}, p \in Packages : CreateShipment(r, o, c, t, p)
HandleUpdateShipmentStatus(r) ==
    \E i \in 1 .. shipmentsMade, st \in ShipmentStatus, t \in TrackingNumbers \cup {NoTracking} :
        UpdateShipmentStatus(r, i, st, t)
HandleDeleteShipment(r) == \E i \in 1 .. shipmentsMade : DeleteShipment(r, i)

\* The limit is 20 unless given, and at most 100.
ListAllShipments(limit, offset) ==
    ListShipments(IF limit <= 0 THEN 20 ELSE IF limit > 100 THEN 100 ELSE limit,
                  IF offset < 0 THEN 0 ELSE offset)
TrackShipment(t) == ShipmentByTracking(t)

\* The shipment of an order, for the customer of the order.
HandleGetMyOrderShipment(customer, o) ==
    {s \in ShipmentByOrderID(o) : Owner[s.order] = customer}

ShippingNext ==
    \E r \in Requests :
        \/ HandleCreateShipment(r) \/ InsertShipment(r)
        \/ HandleUpdateShipmentStatus(r) \/ SaveShipment(r) \/ PublishShipped(r)
        \/ HandleDeleteShipment(r) \/ EraseShipment(r)
        \/ FailShipping(r)

ShippingSpec == ShippingInit /\ [][ShippingNext]_shippingVars

-----------------------------------------------------------------------------
(* Properties.                                                             *)

\* The pages of the list: none longer than asked for, together every shipment once.
PagesPartition ==
    LET page(k) == ListAllShipments(1, k) IN
    /\ \A k \in 0 .. shipmentsMade : Cardinality(page(k)) <= 1
    /\ UNION {page(k) : k \in 0 .. shipmentsMade} = shipments

ShippingTypeOK ==
    /\ shipments \subseteq Shipment /\ shipmentsMade \in Nat
    /\ announced \cup cut \cup unchecked \subseteq ShipOrders
    /\ shipJob \in [Requests -> ShipJob]
    /\ \A pkg \in Packages : CalculateRates(pkg) \in [DOMAIN ShipProviders -> Nat]
    /\ PagesPartition
    /\ \A t \in TrackingNumbers : \A s \in TrackShipment(t) : t = s.tracking /\ s.history # <<>>
    /\ \A c \in {Owner[o] : o \in ShipOrders}, o \in ShipOrders :
        HandleGetMyOrderShipment(c, o) # {} => Owner[o] = c

\* order.shipped was published for o, or the request that has committed is about to do it.
Told(o) == o \in announced \/ \E r \in Requests : shipJob[r].pc = "publish" /\ shipJob[r].row.order = o

\* A shipment that is or has been in transit.
InTransit(s) == \E i \in DOMAIN s.history : s.history[i] = "in_transit"

\* An order whose shipment has ever been in transit has its order.shipped event, whatever updates
\* raced with the one that moved it and wrote whole rows over each other, unless a request ended
\* between its commit and the publication.
AnnouncedUnlessCut == \A s \in shipments : InTransit(s) => Told(s.order) \/ s.order \in cut

\* Nothing but the check in the transaction keeps a second shipment of an order out: requests
\* that pass it together can create one each, and no more than that unless a read failed.
ShipmentsBounded ==
    \A o \in ShipOrders \ unchecked :
        Cardinality({s \in shipments : s.order = o}) <= Cardinality(Requests)
=============================================================================
