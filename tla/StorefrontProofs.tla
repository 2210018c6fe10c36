-------------------------- MODULE StorefrontProofs --------------------------
(***************************************************************************)
(* Proofs about the services of the shop front, for any number of requests,*)
(* customers, variants, categories and rows: Shipping, Cart, Products,     *)
(* Reviews and Categories.                                                 *)
(***************************************************************************)
EXTENDS MCStorefront, SumProofs

-----------------------------------------------------------------------------
(* Shipments.                                                              *)

\* A row is well-formed, and its status is the last of its history.
WellKept(s) ==
    s \in Shipment /\ Len(s.history) > 0 /\ s.history[Len(s.history)] = s.status

Writes(q) == q.pc \in {"insert", "update"}

\* Rows in the table, and rows requests hold.
RowsKept ==
    /\ \A s \in shipments : WellKept(s) /\ s.id <= shipmentsMade
    /\ \A r \in Requests : shipJob[r].pc # "idle" => WellKept(shipJob[r].row)
    /\ shipJob \in [Requests -> ShipJob]
    /\ shipmentsMade \in Nat

\* The event of an order is published, about to be, or was cut off.
Safe(o) == Told(o) \/ o \in cut

\* A row that will be written announces, or the event of its order needs no other.
Announces ==
    \A r \in Requests :
        Writes(shipJob[r]) /\ InTransit(shipJob[r].row)
            => shipJob[r].announce \/ Safe(shipJob[r].row.order)

\* A row keeps the order it was created for: an update holds a row of the table or one that
\* has been deleted.
OrderFixed ==
    /\ \A s, t \in shipments : s.id = t.id => s.order = t.order
    /\ \A r \in Requests, s \in shipments :
        shipJob[r].pc = "update" /\ s.id = shipJob[r].row.id => s.order = shipJob[r].row.order
    /\ \A r \in Requests : shipJob[r].pc = "update" => shipJob[r].row.id <= shipmentsMade

\* The rows of an order, and the requests about to insert one.
RowsOf(o) == {s \in shipments : s.order = o}
Inserting(o) == {r \in Requests : shipJob[r].pc = "insert" /\ shipJob[r].row.order = o}

\* Rows and pending inserts of an order are no more than requests, unless a read failed: a request
\* is only about to insert when it saw no row, and each becomes a row at most.
InsertsBounded ==
    \A o \in ShipOrders \ unchecked :
        /\ IsFiniteSet(RowsOf(o))
        /\ Cardinality(RowsOf(o)) + Cardinality(Inserting(o)) <= Cardinality(Requests)

\* The inductive invariant of the shipments.
ShippingIInv == RowsKept /\ Announces /\ OrderFixed /\ InsertsBounded /\ AnnouncedUnlessCut

\* What the repositories do, on either database.
LEMMA RepositoryFacts ==
    /\ \A i : ShipmentByID(i) = {s \in shipments : s.id = i}
    /\ \A o : ShipmentByOrderID(o) = RowsOf(o)
    /\ \A s : StoreShipment(s) <=> shipments' = shipments \cup {s}
    /\ \A s : UpdateShipment(s) <=> shipments' = {IF x.id = s.id THEN s ELSE x : x \in shipments}
    /\ \A i : RemoveShipment(i) <=> shipments' = {x \in shipments : x.id # i}
BY DEF ShipmentByID, PgShipmentByID, MgShipmentByID, ShipmentByOrderID, PgShipmentByOrderID,
       MgShipmentByOrderID, RowsOf, StoreShipment, PgCreateShipment, MgCreateShipment,
       UpdateShipment, PgUpdateShipment, MgUpdateShipment, RemoveShipment, PgDeleteShipment,
       MgDeleteShipment, On

\* A cost is a natural number.
LEMMA CostType ==
    ASSUME NEW c \in DOMAIN ShipProviders \cup {OtherCarrier}, NEW p \in Packages
    PROVE  ShippingCost(c, p) \in Nat
<1>1. p.weight \in Nat /\ p.value \in Nat
    BY ShippingAssumption
<1>2. CASE c \in DOMAIN ShipProviders
  <2> DEFINE q == ShipProviders[c]
  <2>1. /\ q.type \in {"flatrate", "freeabove", "weightbased"}
        /\ q.rate \in Nat /\ q.threshold \in Nat /\ q.perKg \in Nat
      BY <1>2, ShippingAssumption
  <2>2. BuiltRate(q, p) \in Nat
    <3> HIDE DEF q
    <3> QED
        BY <1>1, <2>1 DEF BuiltRate, FlatRate, FreeAbove, WeightBased
  <2> QED
      BY <1>2, <2>2 DEF ShippingCost
<1>3. CASE c \notin DOMAIN ShipProviders
    BY <1>3 DEF ShippingCost
<1> QED
    BY <1>2, <1>3

\* A request at rest holds a row of the type.
LEMMA RestFacts == NoShipJob \in ShipJob /\ NoShipJob.pc = "idle"
<1>1. (CHOOSE o \in ShipOrders : TRUE) \in ShipOrders
    BY ShippingAssumption
<1>2. NoShipment \in Shipment
    BY <1>1 DEF NoShipment, Shipment, ShipmentStatus
<1> QED
    BY <1>2 DEF NoShipJob, ShipJob

\* The finite sets of the bound.
LEMMA InsertingFinite ==
    ASSUME NEW o PROVE IsFiniteSet(Inserting(o)) /\ Cardinality(Inserting(o)) \in Nat
                       /\ Cardinality(Inserting(o)) <= Cardinality(Requests)
BY ShippingAssumption, FS_Subset, FS_CardinalityType DEF Inserting

\* The bound of an order is kept when its rows do not become more and no insert is added.
LEMMA BoundKept ==
    ASSUME InsertsBounded, NEW o \in ShipOrders \ unchecked, NEW R, R = RowsOf(o)', IsFiniteSet(R),
           Cardinality(R) <= Cardinality(RowsOf(o)), NEW I, I = Inserting(o)', I \subseteq Inserting(o)
    PROVE  IsFiniteSet(RowsOf(o)')
           /\ Cardinality(RowsOf(o)') + Cardinality(Inserting(o)') <= Cardinality(Requests)
<1>1. /\ Cardinality(I) \in Nat /\ Cardinality(I) <= Cardinality(Inserting(o))
      /\ Cardinality(Inserting(o)) \in Nat
    BY InsertingFinite, FS_Subset, FS_CardinalityType
<1>2. Cardinality(R) \in Nat /\ Cardinality(RowsOf(o)) \in Nat
    BY FS_CardinalityType DEF InsertsBounded
<1>3. Cardinality(Requests) \in Nat
    BY ShippingAssumption, FS_CardinalityType
<1> QED
    BY <1>1, <1>2, <1>3 DEF InsertsBounded

\* What is published or was cut off stays so, and what is about to be published is published or
\* cut off by the step that ends its request.
LEMMA SafeKept ==
    ASSUME NEW r \in Requests, \A d \in Requests \ {r} : shipJob'[d] = shipJob[d],
           announced \subseteq announced', cut \subseteq cut',
           shipJob[r].pc = "publish" => shipJob[r].row.order \in announced' \cup cut',
           NEW o, Safe(o)
    PROVE  Safe(o)'
BY DEF Safe, Told

\* A request reads, and holds a row it will write or delete.
LEMMA GotoStep ==
    ASSUME ShippingIInv, NEW r \in Requests, NEW pc \in {"insert", "update", "delete"},
           NEW row, WellKept(row), NEW a \in BOOLEAN, ShipGoto(r, pc, row, a),
           UNCHANGED <<ShipTables, cut>>, unchecked \subseteq unchecked',
           pc # "delete" /\ InTransit(row) => a \/ Safe(row.order),
           pc = "insert" => RowsOf(row.order) = {} \/ row.order \in unchecked',
           pc = "update" => row \in Shipment /\ row.id <= shipmentsMade
                            /\ \A s \in shipments : s.id = row.id => s.order = row.order
    PROVE  ShippingIInv'
<1> USE DEF ShippingIInv
<1> DEFINE q == [pc |-> pc, row |-> row, announce |-> a]
<1>1. UNCHANGED <<backend, shipments, shipmentsMade, announced, cut>>
    BY DEF ShipTables
<1>2. q \in ShipJob /\ q.pc = pc /\ q.row = row /\ q.announce = a
    BY DEF ShipJob, WellKept
<1>3. \A d \in Requests : shipJob'[d] = IF d = r THEN q ELSE shipJob[d]
  <2> HIDE DEF q
  <2> QED
      BY DEF ShipGoto, RowsKept, q
<1> HIDE DEF q
<1>4. RowsKept'
  <2>1. shipJob' \in [Requests -> ShipJob]
      BY <1>2 DEF ShipGoto, RowsKept, q
  <2> QED
      BY <1>1, <1>2, <1>3, <2>1 DEF RowsKept, WellKept
<1>0. ASSUME NEW o, Safe(o) PROVE Safe(o)'
    BY <1>0, <1>1, <1>3, SafeKept DEF ShipGoto
<1>5. Announces'
    BY <1>0, <1>1, <1>2, <1>3 DEF Announces, Writes, InTransit
<1>6. OrderFixed'
    BY <1>1, <1>2, <1>3 DEF OrderFixed
<1>7. AnnouncedUnlessCut'
    BY <1>0, <1>1 DEF AnnouncedUnlessCut, Safe, InTransit
<1>8. ASSUME NEW o \in ShipOrders \ unchecked'
      PROVE  /\ IsFiniteSet(RowsOf(o)')
             /\ Cardinality(RowsOf(o)') + Cardinality(Inserting(o)') <= Cardinality(Requests)
  <2>1. RowsOf(o)' = RowsOf(o) /\ IsFiniteSet(RowsOf(o)) /\ Cardinality(RowsOf(o)) \in Nat
      BY <1>1, FS_CardinalityType DEF RowsOf, InsertsBounded
  <2>2. CASE pc = "insert" /\ row.order = o
    <3>1. Cardinality(RowsOf(o)') = 0
        BY <2>1, <2>2, FS_EmptySet
    <3>2. Inserting(o)' \in SUBSET Requests
        BY DEF Inserting
    <3>3. Cardinality(Inserting(o)') \in Nat /\ Cardinality(Inserting(o)') <= Cardinality(Requests)
        BY <3>2, ShippingAssumption, FS_Subset, FS_CardinalityType
    <3> QED
        BY <2>1, <3>1, <3>3
  <2>3. CASE ~(pc = "insert" /\ row.order = o)
    <3>1. Inserting(o)' \subseteq Inserting(o)
        BY <1>2, <1>3, <2>3 DEF Inserting
    <3>2. Cardinality(RowsOf(o)') <= Cardinality(RowsOf(o))
        BY <2>1
    <3> QED
        BY <2>1, <3>1, <3>2, BoundKept
  <2> QED
      BY <2>2, <2>3
<1>9. InsertsBounded'
    BY <1>8 DEF InsertsBounded, RowsOf, Inserting
<1> QED
    BY <1>4, <1>5, <1>6, <1>7, <1>9

\* What a request that is done, or has an event still to publish, leaves of the requests.
LEMMA LeaveFacts ==
    ASSUME RowsKept, NEW r \in Requests, shipJob[r].pc # "idle",
           ShipDone(r) \/ shipJob' = [shipJob EXCEPT ![r].pc = "publish"]
    PROVE  /\ \A d \in Requests : d # r => shipJob'[d] = shipJob[d]
           /\ shipJob' \in [Requests -> ShipJob]
           /\ shipJob'[r].pc \in {"idle", "publish"}
           /\ shipJob'[r].pc = "publish" => shipJob'[r].row = shipJob[r].row
<1>1. shipJob[r] \in ShipJob
    BY DEF RowsKept
<1>3. CASE ShipDone(r)
    BY <1>3, RestFacts DEF ShipDone, RowsKept
<1>4. CASE shipJob' = [shipJob EXCEPT ![r].pc = "publish"]
    BY <1>1, <1>4 DEF RowsKept, ShipJob
<1> QED
    BY <1>3, <1>4

\* A request that writes or stops makes no insert more.
LEMMA LeaveInserting ==
    ASSUME RowsKept, NEW r \in Requests, shipJob[r].pc # "idle",
           ShipDone(r) \/ shipJob' = [shipJob EXCEPT ![r].pc = "publish"], NEW o
    PROVE  Inserting(o)' = Inserting(o) \ {r}
BY LeaveFacts DEF Inserting

\* A step that announces has its event to publish next.
LEMMA AnnounceFacts ==
    ASSUME RowsKept, NEW r \in Requests, shipJob[r].pc # "idle", Announce(r), NEW o, o = shipJob[r].row.order
    PROVE  /\ ShipDone(r) \/ shipJob' = [shipJob EXCEPT ![r].pc = "publish"]
           /\ shipJob[r].announce => Safe(o)'
<1>1. ASSUME shipJob[r].announce PROVE Safe(o)'
  <2>1. shipJob' = [shipJob EXCEPT ![r].pc = "publish"] /\ shipJob[r] \in ShipJob
      BY <1>1 DEF Announce, RowsKept
  <2>2. shipJob'[r].pc = "publish" /\ shipJob'[r].row = shipJob[r].row
      BY <2>1 DEF RowsKept, ShipJob
  <2> QED
      BY <2>2 DEF Safe, Told
<1> QED
    BY <1>1 DEF Announce

\* A write by one request: what it must show of the table.
LEMMA WriteKeeps ==
    ASSUME ShippingIInv, NEW r \in Requests, shipJob[r].pc # "idle",
           ShipDone(r) \/ shipJob' = [shipJob EXCEPT ![r].pc = "publish"],
           shipmentsMade' \in Nat, shipmentsMade' >= shipmentsMade,
           announced \subseteq announced', cut \subseteq cut', unchecked' = unchecked,
           shipJob[r].pc = "publish" => shipJob[r].row.order \in announced' \cup cut',
           \A s \in shipments' : /\ WellKept(s) /\ s.id <= shipmentsMade'
                                 /\ InTransit(s) => Safe(s.order)',
           \A s, t \in shipments' : s.id = t.id => s.order = t.order,
           \A s \in shipments', d \in Requests :
               shipJob[d].pc = "update" /\ s.id = shipJob[d].row.id
                   => s.order = shipJob[d].row.order,
           \A o \in ShipOrders \ unchecked :
               /\ IsFiniteSet(RowsOf(o)')
               /\ Cardinality(RowsOf(o)') + Cardinality(Inserting(o)') <= Cardinality(Requests)
    PROVE  ShippingIInv'
<1> USE DEF ShippingIInv
<1>1. /\ \A d \in Requests : d # r => shipJob'[d] = shipJob[d]
      /\ shipJob' \in [Requests -> ShipJob]
      /\ shipJob'[r].pc \in {"idle", "publish"}
      /\ shipJob'[r].pc = "publish" => shipJob'[r].row = shipJob[r].row
    BY LeaveFacts
<1>2. RowsKept'
    BY <1>1 DEF RowsKept, WellKept
<1>3. Announces'
  <2>1. ASSUME NEW o, Safe(o) PROVE Safe(o)'
      BY <1>1, <2>1, SafeKept
  <2> QED
      BY <1>1, <2>1 DEF Announces, Writes, InTransit
<1>4. OrderFixed'
  <2>1. \A d \in Requests : shipJob'[d].pc = "update" => shipJob'[d] = shipJob[d]
      BY <1>1
  <2>2. \A d \in Requests : shipJob'[d].pc = "update" => shipJob'[d].row.id <= shipmentsMade'
    <3> SUFFICES ASSUME NEW d \in Requests, shipJob'[d].pc = "update"
                 PROVE  shipJob'[d].row.id <= shipmentsMade'
        OBVIOUS
    <3>1. shipJob'[d] = shipJob[d] /\ shipJob[d].row.id <= shipmentsMade
        BY <2>1 DEF OrderFixed
    <3>2. shipJob[d].row.id \in Nat /\ shipmentsMade \in Nat
        BY DEF RowsKept, ShipJob, Shipment
    <3> QED
        BY <3>1, <3>2
  <2> QED
      BY <2>1, <2>2 DEF OrderFixed
<1>5. AnnouncedUnlessCut'
    BY DEF AnnouncedUnlessCut, InTransit, Safe
<1>6. InsertsBounded'
    BY DEF InsertsBounded, RowsOf, Inserting
<1> QED
    BY <1>2, <1>3, <1>4, <1>5, <1>6

\* A row is inserted: its insert is no longer pending, and nobody else knows its id.
LEMMA InsertStep == ASSUME ShippingIInv, NEW r \in Requests, InsertShipment(r) PROVE ShippingIInv'
<1> USE DEF ShippingIInv
<1> DEFINE row == shipJob[r].row
           new == [row EXCEPT !.id = shipmentsMade + 1]
<1>1. /\ shipJob[r].pc = "insert" /\ shipmentsMade' = shipmentsMade + 1
      /\ shipments' = shipments \cup {new} /\ Announce(r) /\ UNCHANGED <<announced, cut, unchecked>>
    BY RepositoryFacts DEF InsertShipment, shipHistory
<1>2. shipmentsMade \in Nat /\ WellKept(row) /\ row.order \in ShipOrders /\ row.id \in Nat
    BY <1>1 DEF RowsKept, WellKept, Shipment
<1>3. /\ WellKept(new) /\ new.id = shipmentsMade + 1 /\ new.order = row.order
      /\ new.history = row.history
  <2> HIDE DEF row
  <2> QED
      BY <1>2 DEF WellKept, Shipment
<1> HIDE DEF new
<1> PICK own : own = row.order
    OBVIOUS
<1>4. /\ ShipDone(r) \/ shipJob' = [shipJob EXCEPT ![r].pc = "publish"]
      /\ shipJob[r].announce => Safe(own)'
    BY <1>1, AnnounceFacts
<1>0. ASSUME NEW x, Safe(x) PROVE Safe(x)'
    BY <1>0, <1>1, <1>4, LeaveFacts, SafeKept
<1>5. \A s \in shipments : WellKept(s) /\ s.id \in Nat /\ s.id <= shipmentsMade
    BY DEF RowsKept, WellKept, Shipment
<1>6. ASSUME NEW s \in shipments'
      PROVE  /\ WellKept(s) /\ s.id <= shipmentsMade'
             /\ InTransit(s) => Safe(s.order)'
  <2>1. CASE s = new
    <3>1. InTransit(new) => shipJob[r].announce \/ Safe(own)
        BY <1>1, <1>3 DEF Announces, Writes, InTransit
    <3> QED
        BY <1>0, <1>1, <1>2, <1>3, <1>4, <2>1, <3>1
  <2>2. CASE s \in shipments
      BY <1>0, <1>1, <1>2, <1>5, <2>2 DEF AnnouncedUnlessCut, Safe
  <2> QED
      BY <1>1, <2>1, <2>2
<1>7. \A s \in shipments : s.id # new.id
    BY <1>2, <1>3, <1>5
<1>8. \A s, t \in shipments' : s.id = t.id => s.order = t.order
    BY <1>1, <1>7 DEF OrderFixed
<1>9. \A d \in Requests : shipJob[d].pc = "update" => shipJob[d].row.id # new.id
  <2> SUFFICES ASSUME NEW d \in Requests, shipJob[d].pc = "update" PROVE shipJob[d].row.id # new.id
      OBVIOUS
  <2>1. shipJob[d].row.id <= shipmentsMade
      BY DEF OrderFixed
  <2>2. shipJob[d].row.id \in Nat
      BY DEF RowsKept, ShipJob, Shipment
  <2> QED
      BY <1>2, <1>3, <2>1, <2>2
<1>10. \A s \in shipments', d \in Requests :
          shipJob[d].pc = "update" /\ s.id = shipJob[d].row.id => s.order = shipJob[d].row.order
    BY <1>1, <1>9 DEF OrderFixed
<1>11. ASSUME NEW o \in ShipOrders \ unchecked
       PROVE  /\ IsFiniteSet(RowsOf(o)')
              /\ Cardinality(RowsOf(o)') + Cardinality(Inserting(o)') <= Cardinality(Requests)
  <2>1. Inserting(o)' = Inserting(o) \ {r}
      BY <1>1, <1>4, LeaveInserting
  <2>2. IsFiniteSet(RowsOf(o)) /\ Cardinality(RowsOf(o)) \in Nat
      BY FS_CardinalityType DEF InsertsBounded
  <2>3. CASE row.order = o
    <3>1. RowsOf(o)' = RowsOf(o) \cup {new}
        BY <1>1, <1>3, <2>3 DEF RowsOf
    <3>2. /\ IsFiniteSet(RowsOf(o) \cup {new})
          /\ Cardinality(RowsOf(o) \cup {new}) <= Cardinality(RowsOf(o)) + 1
          /\ Cardinality(RowsOf(o) \cup {new}) \in Nat
      <4>1. /\ IsFiniteSet(RowsOf(o) \cup {new})
            /\ Cardinality(RowsOf(o) \cup {new})
                 = IF new \in RowsOf(o) THEN Cardinality(RowsOf(o)) ELSE Cardinality(RowsOf(o)) + 1
          BY <2>2, FS_AddElement
      <4> QED
          BY <2>2, <4>1
    <3>3. r \in Inserting(o)
        BY <1>1, <2>3 DEF Inserting
    <3>4. Cardinality(Inserting(o) \ {r}) = Cardinality(Inserting(o)) - 1
        BY <3>3, InsertingFinite, FS_RemoveElement
    <3>5. Cardinality(Inserting(o)) \in Nat /\ Cardinality(Requests) \in Nat
        BY InsertingFinite, ShippingAssumption, FS_CardinalityType
    <3>6. Cardinality(RowsOf(o)) + Cardinality(Inserting(o)) <= Cardinality(Requests)
        BY DEF InsertsBounded
    <3> QED
        BY <2>1, <2>2, <3>1, <3>2, <3>4, <3>5, <3>6
  <2>4. CASE row.order # o
    <3>1. RowsOf(o)' = RowsOf(o)
        BY <1>1, <1>3, <2>4 DEF RowsOf
    <3>2. Inserting(o)' \subseteq Inserting(o) /\ Cardinality(RowsOf(o)') <= Cardinality(RowsOf(o))
        BY <2>1, <2>2, <3>1
    <3> QED
        BY <2>2, <3>1, <3>2, BoundKept
  <2> QED
      BY <2>3, <2>4
<1>12. shipmentsMade' \in Nat /\ shipmentsMade' >= shipmentsMade
    BY <1>1, <1>2
<1> QED
    BY <1>1, <1>4, <1>6, <1>8, <1>10, <1>11, <1>12, WriteKeeps

\* A status update writes the row it read over the one that is there, if any is.
LEMMA ShipSaveStep == ASSUME ShippingIInv, NEW r \in Requests, SaveShipment(r) PROVE ShippingIInv'
<1> USE DEF ShippingIInv
<1> DEFINE row == shipJob[r].row
           f(x) == IF x.id = row.id THEN row ELSE x
<1>1. shipJob[r].pc = "update" /\ UNCHANGED <<shipmentsMade, announced, cut, unchecked>>
    BY DEF SaveShipment, shipHistory
<1>2. WellKept(row) /\ row.id <= shipmentsMade /\ shipmentsMade \in Nat
    BY <1>1 DEF RowsKept, OrderFixed
<1>3. \A x \in shipments : f(x).id = x.id /\ f(x).order = x.order
    BY <1>1 DEF OrderFixed
<1>4. \A x \in shipments : WellKept(x) /\ x.id <= shipmentsMade
    BY DEF RowsKept
<1>0. ASSUME NEW x, Safe(x), ShipDone(r) \/ shipJob' = [shipJob EXCEPT ![r].pc = "publish"]
      PROVE  Safe(x)'
    BY <1>0, <1>1, LeaveFacts, SafeKept
<1>5. CASE UNCHANGED shipments /\ ShipDone(r)
  <2>1. ASSUME NEW o \in ShipOrders \ unchecked
        PROVE  /\ IsFiniteSet(RowsOf(o)')
               /\ Cardinality(RowsOf(o)') + Cardinality(Inserting(o)') <= Cardinality(Requests)
    <3>1. RowsOf(o)' = RowsOf(o) /\ Inserting(o)' \subseteq Inserting(o)
        BY <1>1, <1>5, LeaveInserting DEF RowsOf
    <3>2. IsFiniteSet(RowsOf(o)) /\ Cardinality(RowsOf(o)) \in Nat
        BY FS_CardinalityType DEF InsertsBounded
    <3>3. Cardinality(RowsOf(o)') <= Cardinality(RowsOf(o))
        BY <3>1, <3>2
    <3> QED
        BY <3>1, <3>2, <3>3, BoundKept
  <2>2. \A s \in shipments : InTransit(s) => Safe(s.order)'
      BY <1>0, <1>5 DEF AnnouncedUnlessCut, Safe
  <2>3. /\ \A s, t \in shipments' : s.id = t.id => s.order = t.order
        /\ \A s \in shipments', d \in Requests :
             shipJob[d].pc = "update" /\ s.id = shipJob[d].row.id => s.order = shipJob[d].row.order
      BY <1>5 DEF OrderFixed
  <2>4. shipmentsMade' \in Nat /\ shipmentsMade' >= shipmentsMade
      BY <1>1, <1>2
  <2> QED
      BY <1>1, <1>4, <1>5, <2>1, <2>2, <2>3, <2>4, WriteKeeps
<1>6. CASE UpdateShipment(row) /\ Announce(r)
  <2>1. /\ shipments' = {f(x) : x \in shipments}
        /\ \A s \in shipments' : \E x \in shipments : s = f(x)
      BY <1>6, RepositoryFacts
  <2> PICK own : own = row.order
      OBVIOUS
  <2>2. /\ ShipDone(r) \/ shipJob' = [shipJob EXCEPT ![r].pc = "publish"]
        /\ shipJob[r].announce => Safe(own)'
      BY <1>1, <1>6, AnnounceFacts
  <2>3. InTransit(row) => Safe(own)'
      BY <1>0, <1>1, <2>2 DEF Announces, Writes
  <2>4. ASSUME NEW s \in shipments'
        PROVE  /\ WellKept(s) /\ s.id <= shipmentsMade'
               /\ InTransit(s) => Safe(s.order)'
    <3>1. PICK x \in shipments : s = f(x)
        BY <2>1
    <3>2. CASE x.id = row.id
        BY <1>1, <1>2, <2>3, <3>1, <3>2
    <3>3. CASE x.id # row.id
        BY <1>0, <1>1, <1>4, <2>2, <3>1, <3>3 DEF AnnouncedUnlessCut, Safe
    <3> QED
        BY <3>2, <3>3
  <2>5. \A s, t \in shipments' : s.id = t.id => s.order = t.order
    <3> SUFFICES ASSUME NEW s \in shipments', NEW t \in shipments', s.id = t.id
                 PROVE  s.order = t.order
        OBVIOUS
    <3>1. PICK x \in shipments : s = f(x)
        BY <2>1
    <3>2. PICK y \in shipments : t = f(y)
        BY <2>1
    <3> HIDE DEF f
    <3> QED
        BY <1>3, <3>1, <3>2 DEF OrderFixed
  <2>6. \A s \in shipments', d \in Requests :
           shipJob[d].pc = "update" /\ s.id = shipJob[d].row.id => s.order = shipJob[d].row.order
    <3> SUFFICES ASSUME NEW s \in shipments', NEW d \in Requests, shipJob[d].pc = "update",
                        s.id = shipJob[d].row.id
                 PROVE  s.order = shipJob[d].row.order
        OBVIOUS
    <3>1. PICK x \in shipments : s = f(x)
        BY <2>1
    <3> HIDE DEF f
    <3> QED
        BY <1>3, <3>1 DEF OrderFixed
  <2>7. ASSUME NEW o \in ShipOrders \ unchecked
        PROVE  /\ IsFiniteSet(RowsOf(o)')
               /\ Cardinality(RowsOf(o)') + Cardinality(Inserting(o)') <= Cardinality(Requests)
    <3> DEFINE R == RowsOf(o)
               T == RowsOf(o)'
               g == [x \in R |-> f(x)]
    <3>1. IsFiniteSet(R)
        BY DEF InsertsBounded
    <3>2. \A x \in R : g[x] \in T
      <4> SUFFICES ASSUME NEW x \in shipments, x.order = o PROVE f(x) \in shipments' /\ f(x).order = o
          BY DEF RowsOf
      <4>1. f(x) \in shipments'
          BY <2>1
      <4>2. f(x).order = o
        <5> HIDE DEF f
        <5> QED
            BY <1>3
      <4> QED
          BY <4>1, <4>2
    <3>3. \A s \in T : \E x \in R : g[x] = s
      <4> SUFFICES ASSUME NEW s \in shipments', s.order = o PROVE \E x \in R : g[x] = s
          BY DEF RowsOf
      <4>1. PICK x \in shipments : s = f(x)
          BY <2>1
      <4>2. x.order = o
        <5> HIDE DEF f
        <5> QED
            BY <1>3, <4>1
      <4> QED
          BY <4>1, <4>2 DEF RowsOf
    <3>4. g \in Surjection(R, T)
      <4>1. g \in [R -> T]
          BY <3>2
      <4> QED
          BY <3>3, <4>1 DEF Surjection
    <3>5. IsFiniteSet(T) /\ Cardinality(T) <= Cardinality(R)
        BY <3>1, <3>4, FS_Surjection
    <3>6. Inserting(o)' \subseteq Inserting(o)
        BY <1>1, <2>2, LeaveInserting
    <3> HIDE DEF R, T, g
    <3> QED
        BY <3>5, <3>6, BoundKept DEF R, T
  <2>8. shipmentsMade' \in Nat /\ shipmentsMade' >= shipmentsMade
      BY <1>1, <1>2
  <2> QED
      BY <1>1, <2>2, <2>4, <2>5, <2>6, <2>7, <2>8, WriteKeeps
<1> QED
    BY <1>1, <1>5, <1>6 DEF SaveShipment

\* A delete, a publication or a failure takes rows away at most.
LEMMA LeaveStep ==
    ASSUME ShippingIInv, NEW r \in Requests, EraseShipment(r) \/ PublishShipped(r) \/ FailShipping(r)
    PROVE  ShippingIInv'
<1> USE DEF ShippingIInv
<1>1. /\ shipJob[r].pc # "idle" /\ ShipDone(r) /\ shipments' \subseteq shipments
      /\ announced \subseteq announced' /\ cut \subseteq cut' /\ UNCHANGED <<shipmentsMade, unchecked>>
      /\ shipJob[r].pc = "publish" => shipJob[r].row.order \in announced' \cup cut'
    BY RepositoryFacts DEF EraseShipment, PublishShipped, FailShipping, ShipTables, shipHistory
<1>0. ASSUME NEW o, Safe(o) PROVE Safe(o)'
    BY <1>0, <1>1, LeaveFacts, SafeKept
<1>2. shipmentsMade' \in Nat /\ shipmentsMade' >= shipmentsMade
    BY <1>1 DEF RowsKept
<1>3. \A s \in shipments' : /\ WellKept(s) /\ s.id <= shipmentsMade'
                            /\ InTransit(s) => Safe(s.order)'
    BY <1>0, <1>1 DEF RowsKept, AnnouncedUnlessCut, Safe
<1>4. /\ \A s, t \in shipments' : s.id = t.id => s.order = t.order
      /\ \A s \in shipments', d \in Requests :
           shipJob[d].pc = "update" /\ s.id = shipJob[d].row.id => s.order = shipJob[d].row.order
    BY <1>1 DEF OrderFixed
<1>5. ASSUME NEW o \in ShipOrders \ unchecked
      PROVE  /\ IsFiniteSet(RowsOf(o)')
             /\ Cardinality(RowsOf(o)') + Cardinality(Inserting(o)') <= Cardinality(Requests)
  <2>1. RowsOf(o)' \subseteq RowsOf(o) /\ Inserting(o)' \subseteq Inserting(o)
      BY <1>1, LeaveInserting DEF RowsOf
  <2>2. IsFiniteSet(RowsOf(o))
      BY DEF InsertsBounded
  <2>3. IsFiniteSet(RowsOf(o)') /\ Cardinality(RowsOf(o)') <= Cardinality(RowsOf(o))
      BY <2>1, <2>2, FS_Subset
  <2> QED
      BY <2>1, <2>3, BoundKept
<1> QED
    BY <1>1, <1>2, <1>3, <1>4, <1>5, WriteKeeps

\* A transaction has found no shipment of the order, or failed to find the one there is.
LEMMA ShipCreateStep ==
    ASSUME ShippingIInv, NEW r \in Requests, HandleCreateShipment(r) PROVE ShippingIInv'
<1> USE DEF ShippingIInv
<1>1. PICK o \in ShipOrders, c \in DOMAIN ShipProviders \cup {OtherCarrier},
           t \in TrackingNumbers \cup {NoTracking}, p \in Packages : CreateShipment(r, o, c, t, p)
    BY DEF HandleCreateShipment
<1> DEFINE status == IF t = NoTracking THEN "pending" ELSE "in_transit"
           new == [id |-> 0, order |-> o, tracking |-> t, status |-> status,
                   history |-> <<status>>, cost |-> ShippingCost(c, p)]
<1>2. /\ RowsOf(o) = {} \/ o \in unchecked'
      /\ unchecked \subseteq unchecked'
      /\ ShipGoto(r, "insert", new, status = "in_transit")
      /\ UNCHANGED <<ShipTables, cut>>
    BY <1>1, RepositoryFacts DEF CreateShipment
<1>3. status \in ShipmentStatus /\ ShippingCost(c, p) \in Nat
    BY CostType DEF ShipmentStatus
<1>4. WellKept(new) /\ new.order = o /\ new.history = <<status>>
  <2> HIDE DEF status
  <2> QED
      BY <1>3 DEF WellKept, Shipment
<1>5. InTransit(new) => status = "in_transit"
    BY <1>4 DEF InTransit
<1>6. (status = "in_transit") \in BOOLEAN
    OBVIOUS
<1> HIDE DEF new
<1> QED
    BY <1>2, <1>4, <1>5, <1>6, GotoStep

\* A status may change, and the row read is written later.
LEMMA ShipUpdateStep ==
    ASSUME ShippingIInv, NEW r \in Requests, HandleUpdateShipmentStatus(r) PROVE ShippingIInv'
<1> USE DEF ShippingIInv
<1>1. PICK i \in 1 .. shipmentsMade, st \in ShipmentStatus,
           t \in TrackingNumbers \cup {NoTracking} : UpdateShipmentStatus(r, i, st, t)
    BY DEF HandleUpdateShipmentStatus
<1>2. UNCHANGED <<ShipTables, cut, unchecked>>
    BY <1>1 DEF UpdateShipmentStatus, shipHistory
<1>3. PICK s \in shipments :
        /\ MayMove(s.status, st)
        /\ ShipGoto(r, "update",
                    [s EXCEPT !.status = st, !.history = Append(@, st),
                              !.tracking = IF t = NoTracking THEN @ ELSE t],
                    s.status = "pending" /\ st = "in_transit")
    BY <1>1, RepositoryFacts DEF UpdateShipmentStatus
<1> DEFINE row == [s EXCEPT !.status = st, !.history = Append(@, st),
                            !.tracking = IF t = NoTracking THEN @ ELSE t]
           a == s.status = "pending" /\ st = "in_transit"
<1>4. WellKept(s) /\ s.id <= shipmentsMade /\ s \in Shipment /\ s.history \in Seq(ShipmentStatus)
    BY DEF RowsKept, WellKept, Shipment
<1>5. /\ row \in Shipment /\ row.status = st /\ row.history = Append(s.history, st)
      /\ row.id = s.id /\ row.order = s.order
  <2> DEFINE h == Append(s.history, st)
             k == IF t = NoTracking THEN s.tracking ELSE t
  <2>1. h \in Seq(ShipmentStatus)
      BY <1>4
  <2>2. k \in TrackingNumbers \cup {NoTracking}
      BY <1>4 DEF Shipment
  <2>3. row = [s EXCEPT !.status = st, !.history = h, !.tracking = k]
      OBVIOUS
  <2> HIDE DEF h, k, row
  <2>4. /\ row \in Shipment /\ row.status = st /\ row.history = h
        /\ row.id = s.id /\ row.order = s.order
      BY <1>4, <2>1, <2>2, <2>3 DEF Shipment
  <2> QED
      BY <2>4 DEF h
<1> HIDE DEF row
<1>6. /\ Append(s.history, st) \in Seq(ShipmentStatus)
      /\ Len(Append(s.history, st)) = Len(s.history) + 1
      /\ Append(s.history, st)[Len(s.history) + 1] = st
      /\ \A j \in 1 .. Len(s.history) : Append(s.history, st)[j] = s.history[j]
      /\ Len(s.history) \in Nat
    BY <1>4
<1>7. WellKept(row)
    BY <1>5, <1>6 DEF WellKept
<1>8. ASSUME InTransit(row) PROVE a \/ Safe(row.order)
  <2>1. PICK j \in DOMAIN row.history : row.history[j] = "in_transit"
      BY <1>8 DEF InTransit
  <2>2. j \in 1 .. Len(s.history) + 1
      BY <1>5, <1>6, <2>1
  <2>3. CASE j \in 1 .. Len(s.history)
    <3>1. InTransit(s)
        BY <1>4, <1>5, <1>6, <2>1, <2>3 DEF InTransit
    <3> QED
        BY <1>5, <3>1 DEF AnnouncedUnlessCut, Safe
  <2>4. CASE j = Len(s.history) + 1
    <3>1. st = "in_transit"
        BY <1>5, <1>6, <2>1, <2>4
    <3>2. CASE s.status = "pending"
        BY <3>1, <3>2
    <3>3. CASE s.status = "in_transit"
      <4>1. InTransit(s)
          BY <1>4, <1>6, <3>3 DEF InTransit, WellKept
      <4> QED
          BY <1>5, <4>1 DEF AnnouncedUnlessCut, Safe
    <3>4. s.status \notin {"delivered", "returned"}
        BY <1>3 DEF MayMove
    <3> QED
        BY <1>4, <3>2, <3>3, <3>4 DEF Shipment, ShipmentStatus
  <2> QED
      BY <1>6, <2>2, <2>3, <2>4
<1>9. ShipGoto(r, "update", row, a) /\ a \in BOOLEAN
    BY <1>3 DEF row
<1>10. \A x \in shipments : x.id = row.id => x.order = row.order
    BY <1>5 DEF OrderFixed
<1> HIDE DEF a
<1> QED
    BY <1>2, <1>4, <1>5, <1>7, <1>8, <1>9, <1>10, GotoStep

\* A pending shipment will be deleted.
LEMMA ShipDeleteStep ==
    ASSUME ShippingIInv, NEW r \in Requests, HandleDeleteShipment(r) PROVE ShippingIInv'
<1>1. PICK i \in 1 .. shipmentsMade : DeleteShipment(r, i)
    BY DEF HandleDeleteShipment
<1>2. PICK s \in shipments :
        ShipGoto(r, "delete", s, FALSE) /\ UNCHANGED <<ShipTables, cut, unchecked>>
    BY <1>1, RepositoryFacts DEF DeleteShipment, shipHistory
<1>3. WellKept(s)
    BY DEF ShippingIInv, RowsKept
<1> QED
    BY <1>2, <1>3, GotoStep

\* No shipment, no request at work.
LEMMA ShippingInitIInv == ShippingInit => ShippingIInv
<1> SUFFICES ASSUME ShippingInit PROVE ShippingIInv
    OBVIOUS
<1>1. /\ shipments = {} /\ shipmentsMade = 0
      /\ shipJob = [r \in Requests |-> NoShipJob]
    BY DEF ShippingInit
<1>2. \A r \in Requests : shipJob[r].pc = "idle"
    BY <1>1, RestFacts
<1>3. RowsKept /\ OrderFixed /\ Announces /\ AnnouncedUnlessCut
    BY <1>1, <1>2, RestFacts DEF RowsKept, OrderFixed, Announces, Writes, AnnouncedUnlessCut
<1>4. \A o \in ShipOrders : RowsOf(o) = {} /\ Inserting(o) = {}
    BY <1>1, <1>2 DEF RowsOf, Inserting
<1>5. IsFiniteSet({}) /\ Cardinality({}) = 0 /\ Cardinality(Requests) \in Nat
    BY ShippingAssumption, FS_EmptySet, FS_CardinalityType
<1>6. InsertsBounded
    BY <1>4, <1>5 DEF InsertsBounded
<1> QED
    BY <1>3, <1>6 DEF ShippingIInv

\* Every step keeps the invariant.
LEMMA ShippingStep == ShippingIInv /\ [ShippingNext]_shippingVars => ShippingIInv'
<1> SUFFICES ASSUME ShippingIInv, [ShippingNext]_shippingVars PROVE ShippingIInv'
    OBVIOUS
<1>1. CASE UNCHANGED shippingVars
    BY <1>1 DEF shippingVars, shipHistory, ShippingIInv, RowsKept, WellKept, Announces, Writes, InTransit,
                Safe, Told, OrderFixed, InsertsBounded, RowsOf, Inserting, AnnouncedUnlessCut
<1>2. CASE ShippingNext
    BY <1>2, ShipCreateStep, ShipUpdateStep, ShipDeleteStep, InsertStep, ShipSaveStep, LeaveStep
       DEF ShippingNext
<1> QED
    BY <1>1, <1>2

\* Rows of an order, without the inserts still pending.
LEMMA RowsWithinRequests == ShippingIInv => ShipmentsBounded
<1> SUFFICES ASSUME ShippingIInv, NEW o \in ShipOrders \ unchecked
             PROVE  Cardinality(RowsOf(o)) <= Cardinality(Requests)
    BY DEF ShipmentsBounded, RowsOf
<1>1. /\ Cardinality(RowsOf(o)) \in Nat /\ Cardinality(Inserting(o)) \in Nat
      /\ Cardinality(Requests) \in Nat
    BY InsertingFinite, ShippingAssumption, FS_CardinalityType DEF ShippingIInv, InsertsBounded
<1> QED
    BY <1>1 DEF ShippingIInv, InsertsBounded

\* The inductive invariant of the shipments holds in every reachable state.
THEOREM ShippingInvariant == ShippingSpec => []ShippingIInv
BY ShippingInitIInv, ShippingStep, PTL DEF ShippingSpec

\* An order whose shipment has ever been in transit has its event published or about to be, unless a
\* request was cut off between its commit and the publication: racing updates lose none.
THEOREM ShippedAnnouncedUnlessCut == ShippingSpec => []AnnouncedUnlessCut
BY ShippingInvariant, PTL DEF ShippingIInv

\* Requests that pass the check for an existing shipment together create one each at most, of an
\* order none of whose reads failed.
THEOREM ShipmentsStayBounded == ShippingSpec => []ShipmentsBounded
BY ShippingInvariant, RowsWithinRequests, PTL

\* No two shipments have the same id, and what is announced, cut off or unchecked are orders.
IdsUnique ==
    /\ \A s, t \in shipments : s.id = t.id => s = t
    /\ announced \cup cut \cup unchecked \subseteq ShipOrders

\* A new row gets an id above all others; an update keeps the id of the row it replaces.
LEMMA IdsStayUnique == RowsKept /\ IdsUnique /\ [ShippingNext]_shippingVars => IdsUnique'
<1> SUFFICES ASSUME RowsKept, IdsUnique, [ShippingNext]_shippingVars PROVE IdsUnique'
    OBVIOUS
<1>2. ASSUME UNCHANGED <<shipments, announced, cut, unchecked>> PROVE IdsUnique'
    BY <1>2 DEF IdsUnique
<1>3. ASSUME NEW r \in Requests, HandleUpdateShipmentStatus(r) \/ HandleDeleteShipment(r)
      PROVE  IdsUnique'
    BY <1>2, <1>3 DEF HandleUpdateShipmentStatus, UpdateShipmentStatus, HandleDeleteShipment,
           DeleteShipment, ShipTables, shipHistory
<1>10. ASSUME NEW r \in Requests, HandleCreateShipment(r) PROVE IdsUnique'
    BY <1>10 DEF HandleCreateShipment, CreateShipment, ShipTables, IdsUnique
<1>4. ASSUME NEW r \in Requests, FailShipping(r) PROVE IdsUnique'
    BY <1>4 DEF FailShipping, ShipTables, RowsKept, ShipJob, Shipment, IdsUnique
<1>5. ASSUME NEW r \in Requests, InsertShipment(r) PROVE IdsUnique'
  <2> DEFINE new == [shipJob[r].row EXCEPT !.id = shipmentsMade + 1]
  <2>1. shipments' = shipments \cup {new} /\ UNCHANGED <<announced, cut, unchecked>>
      BY <1>5, RepositoryFacts DEF InsertShipment, shipHistory
  <2>2. new.id = shipmentsMade + 1
      BY DEF RowsKept, ShipJob, Shipment
  <2> HIDE DEF new
  <2>3. \A s \in shipments : s.id # new.id
      BY <2>2 DEF RowsKept, WellKept, Shipment
  <2> QED
      BY <2>1, <2>3 DEF IdsUnique
<1>6. ASSUME NEW r \in Requests, SaveShipment(r) PROVE IdsUnique'
  <2>0. UNCHANGED <<announced, cut, unchecked>>
      BY <1>6 DEF SaveShipment, shipHistory
  <2>1. CASE UNCHANGED shipments
      BY <1>2, <2>0, <2>1
  <2>2. CASE UpdateShipment(shipJob[r].row)
    <3> DEFINE s0 == shipJob[r].row
    <3>1. shipments' = {IF x.id = s0.id THEN s0 ELSE x : x \in shipments}
        BY <2>2, RepositoryFacts
    <3> HIDE DEF s0
    <3>2. \A s, t \in shipments' : s.id = t.id => s = t
        BY <3>1 DEF IdsUnique
    <3> QED
        BY <2>0, <3>2 DEF IdsUnique
  <2> QED
      BY <1>6, <2>1, <2>2 DEF SaveShipment
<1>7. ASSUME NEW r \in Requests, PublishShipped(r) PROVE IdsUnique'
    BY <1>7 DEF PublishShipped, shipHistory, RowsKept, ShipJob, Shipment, IdsUnique
<1>8. ASSUME NEW r \in Requests, EraseShipment(r) PROVE IdsUnique'
  <2>1. /\ shipments' = {x \in shipments : x.id # shipJob[r].row.id}
        /\ UNCHANGED <<announced, cut, unchecked>>
      BY <1>8, RepositoryFacts DEF EraseShipment, shipHistory
  <2> QED
      BY <2>1 DEF IdsUnique
<1>9. CASE UNCHANGED shippingVars
    BY <1>2, <1>9 DEF shippingVars, shipHistory
<1> QED
    BY <1>3, <1>10, <1>4, <1>5, <1>6, <1>7, <1>8, <1>9 DEF ShippingNext

\* The number of rows that are newer than a row: its place in the list.
LEMMA PlacesInList ==
    ASSUME NEW rows, NEW m \in Nat, \A s \in rows : s.id \in 0 .. m,
           \A s, t \in rows : s.id = t.id => s = t
    PROVE  /\ \A s \in rows : Cardinality({u \in rows : u.id > s.id}) \in 0 .. m
           /\ \A s, t \in rows :
                  Cardinality({u \in rows : u.id > s.id}) = Cardinality({u \in rows : u.id > t.id}) => s = t
<1> DEFINE newer(s) == {u \in rows : u.id > s.id}
<1>1. ASSUME NEW s \in rows PROVE IsFiniteSet(newer(s)) /\ Cardinality(newer(s)) \in 0 .. m
  <2> DEFINE id == [u \in newer(s) |-> u.id]
  <2>1. id \in Injection(newer(s), 1 .. m)
    <3>1. id \in [newer(s) -> 1 .. m]
        OBVIOUS
    <3> QED
        BY <3>1 DEF Injection, IsInjective
  <2>2. IsFiniteSet(1 .. m) /\ Cardinality(1 .. m) = m
      BY FS_Interval
  <2> HIDE DEF id, newer
  <2>3. IsFiniteSet(newer(s)) /\ Cardinality(newer(s)) <= m
      BY <2>1, <2>2, FS_Injection
  <2> QED
      BY <2>3, FS_CardinalityType
<1>2. ASSUME NEW s \in rows, NEW t \in rows, s.id < t.id
      PROVE  Cardinality(newer(t)) < Cardinality(newer(s))
  <2>1. newer(t) \subseteq newer(s) /\ t \in newer(s) /\ t \notin newer(t)
      BY <1>2
  <2> HIDE DEF newer
  <2> QED
      BY <1>1, <2>1, FS_Subset, FS_CardinalityType
<1>3. ASSUME NEW s \in rows, NEW t \in rows, Cardinality(newer(s)) = Cardinality(newer(t)) PROVE s = t
  <2>1. s.id \in Int /\ t.id \in Int
      OBVIOUS
  <2> HIDE DEF newer
  <2>2. Cardinality(newer(s)) \in Int
      BY <1>1
  <2>3. ~(s.id < t.id) /\ ~(t.id < s.id)
      BY <1>2, <1>3, <2>2
  <2> QED
      BY <2>1, <2>3
<1> QED
    BY <1>1, <1>3

\* Each row is on the page of its place.
LEMMA PagesArePartition == RowsKept /\ IdsUnique => PagesPartition
<1> SUFFICES ASSUME RowsKept, IdsUnique PROVE PagesPartition
    OBVIOUS
<1> DEFINE page(k) == ListAllShipments(1, k)
           place(s) == Cardinality({u \in shipments : u.id > s.id})
<1>1. shipmentsMade \in Nat /\ \A s \in shipments : s.id \in 0 .. shipmentsMade
    BY DEF RowsKept, WellKept, Shipment
<1>2. /\ \A s \in shipments : place(s) \in 0 .. shipmentsMade
      /\ \A s, t \in shipments : place(s) = place(t) => s = t
    BY <1>1, PlacesInList DEF IdsUnique
<1>3. ASSUME NEW k \in 0 .. shipmentsMade PROVE page(k) = {s \in shipments : place(s) = k}
  <2>1. ListShipments(1, k) = {s \in shipments : place(s) \in k .. k + 1 - 1}
      BY DEF ListShipments, On, PgListShipments, MgListShipments, Newest
  <2>2. page(k) = ListShipments(1, k)
      BY <1>1 DEF ListAllShipments
  <2>3. \A s \in shipments : place(s) \in k .. k + 1 - 1 <=> place(s) = k
      BY <1>1, <1>2
  <2> HIDE DEF page, place
  <2> QED
      BY <2>1, <2>2, <2>3
<1> HIDE DEF place
<1>4. ASSUME NEW k \in 0 .. shipmentsMade PROVE Cardinality(page(k)) <= 1
  <2>1. CASE page(k) = {}
      BY <2>1, FS_EmptySet
  <2>2. CASE page(k) # {}
    <3>1. PICK s \in page(k) : TRUE
        BY <2>2
    <3>2. page(k) = {s}
        BY <1>2, <1>3, <3>1
    <3> QED
        BY <3>2, FS_Singleton
  <2> QED
      BY <2>1, <2>2
<1>5. UNION {page(k) : k \in 0 .. shipmentsMade} = shipments
    BY <1>2, <1>3
<1> QED
    BY <1>4, <1>5 DEF PagesPartition

\* Every reachable shipment is well typed, and so are the answers: rates are natural numbers, the pages of the
\* list show every row once, tracking finds the number asked for, a customer sees her own order's only.
THEOREM ShippingTypes == ShippingSpec => []ShippingTypeOK
<1>1. ShippingInit => IdsUnique
    BY DEF ShippingInit, IdsUnique
<1>2. ShippingIInv /\ IdsUnique /\ [ShippingNext]_shippingVars => IdsUnique'
    BY IdsStayUnique DEF ShippingIInv
<1>3. ASSUME NEW pkg \in Packages PROVE CalculateRates(pkg) \in [DOMAIN ShipProviders -> Nat]
  <2>1. \A n \in DOMAIN ShipProviders : BuiltRate(ShipProviders[n], pkg) \in Nat
      BY ShippingAssumption DEF BuiltRate, FlatRate, FreeAbove, WeightBased
  <2> QED
      BY <2>1 DEF CalculateRates
<1>4. ShippingIInv /\ IdsUnique => ShippingTypeOK
  <2> SUFFICES ASSUME ShippingIInv, IdsUnique PROVE ShippingTypeOK
      OBVIOUS
  <2>1. /\ shipments \subseteq Shipment /\ shipmentsMade \in Nat
        /\ announced \cup cut \cup unchecked \subseteq ShipOrders /\ shipJob \in [Requests -> ShipJob]
      BY DEF ShippingIInv, RowsKept, WellKept, IdsUnique
  <2>2. PagesPartition
      BY PagesArePartition DEF ShippingIInv
  <2>3. \A t \in TrackingNumbers : \A s \in TrackShipment(t) : t = s.tracking /\ s.history # <<>>
      BY DEF TrackShipment, ShipmentByTracking, On, PgShipmentByTracking, MgShipmentByTracking, ShippingIInv,
             RowsKept, WellKept
  <2>4. \A c \in {Owner[o] : o \in ShipOrders}, o \in ShipOrders : HandleGetMyOrderShipment(c, o) # {} => Owner[o] = c
      BY RepositoryFacts DEF HandleGetMyOrderShipment, RowsOf
  <2> QED
      BY <1>3, <2>1, <2>2, <2>3, <2>4 DEF ShippingTypeOK
<1> QED
    BY <1>1, <1>2, <1>4, ShippingInitIInv, ShippingStep, PTL DEF ShippingSpec

-----------------------------------------------------------------------------
(* Carts.                                                                  *)

\* Types of the carts, the catalogue and the requests.
CartRowsOK ==
    /\ carts \in [Customers -> CartRow] /\ day \in Nat
    /\ listed \subseteq CartVariants
    /\ stock \in [CartVariants -> Nat] /\ peak \in [CartVariants -> Nat]
    /\ cartJob \in [Requests -> CartJob]

\* Lines and units are within the limits.
Within(items) ==
    /\ Cardinality(Lines(items)) <= MaxLines
    /\ \A v \in CartVariants : items[v] <= MaxUnits /\ items[v] <= peak[v]

\* What a request is about to save is within the limits, and what it has read and compares with
\* was so when it was read.
CopyWithin(q) ==
    /\ q.pc = "save" => Within(q.items)
    /\ q.pc = "lookup" => q.op \in {"add", "update"}
    /\ q.pc = "lookup" /\ q.op = "update" => Within(q.items) /\ q.items[q.v] > 0
    /\ q.pc \in {"lookup", "read", "reset"} /\ q.op = "update" => q.q <= MaxUnits
    /\ q.pc \in {"read", "reset"} /\ q.op = "add" => q.stock <= peak[q.v]

\* The inductive invariant of the carts: rows, stock and the copies requests hold.
CartIInv ==
    /\ CartRowsOK
    /\ \A c \in Customers : Within(carts[c].items)
    /\ \A v \in CartVariants : stock[v] <= peak[v]
    /\ \A r \in Requests : CopyWithin(cartJob[r])
-----------------------------------------------------------------------------
\* An idle request is one, and an empty cart is within the limits.
LEMMA CartShapes ==
    /\ NoCartJob \in CartJob /\ NoCartJob.pc = "idle" /\ NoCartJob.guest = NoCustomer
    /\ Empty \in Items /\ NoCart \in CartRow /\ NoCart.items = Empty
    /\ peak \in [CartVariants -> Nat] => Within(Empty)
<1>1. (CHOOSE c \in Customers : TRUE) \in Customers /\ (CHOOSE v \in CartVariants : TRUE) \in CartVariants
    BY CartAssumption
<1>2. Empty \in Items
    BY DEF Empty, Items
<1>3. NoCartJob \in CartJob /\ NoCartJob.pc = "idle" /\ NoCartJob.guest = NoCustomer
    BY <1>1, <1>2 DEF NoCartJob, CartJob
<1>4. NoCart \in CartRow /\ NoCart.items = Empty
    BY <1>2 DEF NoCart, CartRow
<1>5. ASSUME peak \in [CartVariants -> Nat] PROVE Within(Empty)
  <2>1. Lines(Empty) = {}
      BY DEF Lines, Empty
  <2>2. Cardinality(Lines(Empty)) = 0
      BY <2>1, FS_EmptySet
  <2> QED
      BY <1>5, <2>2, CartAssumption DEF Within, Empty
<1> QED
    BY <1>2, <1>3, <1>4, <1>5

\* The lines of a cart are counted.
LEMMA LinesCounted ==
    ASSUME NEW items
    PROVE  IsFiniteSet(Lines(items)) /\ Cardinality(Lines(items)) \in Nat
<1>1. Lines(items) \in SUBSET CartVariants
    BY DEF Lines
<1>2. IsFiniteSet(Lines(items))
    BY <1>1, CartAssumption, FS_Subset
<1> QED
    BY <1>2, FS_CardinalityType

\* A line set to a quantity within the limits leaves the cart within them, if it was a line
\* before, or nothing is left of it, or there was room for another.
LEMMA LineSet ==
    ASSUME NEW items \in Items, NEW v \in CartVariants, NEW n \in Nat, peak \in [CartVariants -> Nat],
           Within(items), n <= MaxUnits, n <= peak[v],
           n = 0 \/ items[v] > 0 \/ Cardinality(Lines(items)) < MaxLines
    PROVE  [items EXCEPT ![v] = n] \in Items /\ Within([items EXCEPT ![v] = n])
<1> DEFINE new == [items EXCEPT ![v] = n]
<1>1. new \in Items /\ \A w \in CartVariants : new[w] = IF w = v THEN n ELSE items[w]
    BY DEF Items
<1>2. Cardinality(Lines(new)) <= MaxLines
  <2>1. CASE n = 0 \/ items[v] > 0
    <3>1. Lines(new) \subseteq Lines(items)
        BY <1>1, <2>1 DEF Lines
    <3>2. Cardinality(Lines(new)) <= Cardinality(Lines(items))
        BY <3>1, LinesCounted, FS_Subset
    <3> QED
        BY <3>2, LinesCounted, CartAssumption DEF Within
  <2>2. CASE Cardinality(Lines(items)) < MaxLines
    <3>1. Lines(new) \subseteq Lines(items) \cup {v}
        BY <1>1 DEF Lines
    <3>2. /\ IsFiniteSet(Lines(items) \cup {v})
          /\ Cardinality(Lines(items) \cup {v}) \in {Cardinality(Lines(items)), Cardinality(Lines(items)) + 1}
        BY LinesCounted, FS_AddElement
    <3>3. Cardinality(Lines(new)) <= Cardinality(Lines(items) \cup {v})
        BY <3>1, <3>2, FS_Subset
    <3> HIDE DEF new
    <3> QED
        BY <2>2, <3>2, <3>3, LinesCounted, CartAssumption
  <2> QED
      BY <2>1, <2>2
<1>3. \A w \in CartVariants : new[w] <= MaxUnits /\ new[w] <= peak[w]
    BY <1>1 DEF Within
<1> QED
    BY <1>1, <1>2, <1>3 DEF Within

\* An operation that has ended leaves nothing to save.
LEMMA AfterOpKeeps ==
    ASSUME NEW q \in CartJob
    PROVE  AfterOp(q) \in CartJob /\ CopyWithin(AfterOp(q))
<1>1. CASE q.guest = NoCustomer
    BY <1>1, CartShapes DEF AfterOp, CopyWithin
<1>2. CASE q.guest # NoCustomer
  <2>1. [q EXCEPT !.pc = "merge"] \in CartJob /\ [q EXCEPT !.pc = "merge"].pc = "merge"
      BY DEF CartJob
  <2> QED
      BY <1>2, <2>1 DEF AfterOp, CopyWithin
<1> QED
    BY <1>1, <1>2

\* What an operation makes of a cart within the limits is within them.
LEMMA WithCartKeeps ==
    ASSUME NEW q \in CartJob, NEW items \in Items, peak \in [CartVariants -> Nat],
           q.pc \in {"read", "reset"}, CopyWithin(q), Within(items)
    PROVE  WithCart(q, items) \in CartJob /\ CopyWithin(WithCart(q, items))
<1>1. q.v \in CartVariants /\ q.q \in Nat /\ items[q.v] \in Nat /\ q.op \in {"get", "add", "update", "remove"}
      /\ q.stock \in Nat /\ peak[q.v] \in Nat
    BY DEF CartJob, Items
<1>2. CASE q.op = "get"
    BY <1>2, AfterOpKeeps DEF WithCart
<1>3. \A new \in Items : Within(new) =>
          [q EXCEPT !.pc = "save", !.items = new] \in CartJob /\ CopyWithin([q EXCEPT !.pc = "save", !.items = new])
  <2> SUFFICES ASSUME NEW new \in Items, Within(new)
               PROVE  [q EXCEPT !.pc = "save", !.items = new] \in CartJob /\ CopyWithin([q EXCEPT !.pc = "save", !.items = new])
      OBVIOUS
  <2> DEFINE s == [q EXCEPT !.pc = "save", !.items = new]
  <2>1. s \in CartJob /\ s.pc = "save" /\ s.items = new
      BY DEF CartJob
  <2> HIDE DEF s
  <2>2. CopyWithin(s)
      BY <2>1 DEF CopyWithin
  <2> QED
      BY <2>1, <2>2 DEF s
<1>4. CASE q.op = "add"
  <2> DEFINE target == q.q + items[q.v]
             full == items[q.v] = 0 /\ Cardinality(Lines(items)) >= MaxLines
  <2>1. CASE target > MaxUnits \/ target > q.stock \/ full
      BY <1>4, <2>1, AfterOpKeeps DEF WithCart, Added
  <2>2. CASE ~ (target > MaxUnits \/ target > q.stock \/ full)
    <3>1. target \in Nat /\ target <= MaxUnits /\ target <= peak[q.v]
        BY <1>1, <1>4, <2>2, CartAssumption DEF CopyWithin
    <3>2. items[q.v] > 0 \/ Cardinality(Lines(items)) < MaxLines
        BY <1>1, <2>2, LinesCounted, CartAssumption
    <3>3. [items EXCEPT ![q.v] = target] \in Items /\ Within([items EXCEPT ![q.v] = target])
        BY <1>1, <3>1, <3>2, LineSet
    <3>4. WithCart(q, items) = [q EXCEPT !.pc = "save", !.items = [items EXCEPT ![q.v] = target]]
        BY <1>4, <2>2 DEF WithCart, Added
    <3> QED
        BY <1>3, <3>3, <3>4
  <2> QED
      BY <2>1, <2>2
<1>5. CASE q.op = "update"
  <2>1. CASE items[q.v] = 0
      BY <1>5, <2>1, AfterOpKeeps DEF WithCart, Updated
  <2>2. CASE items[q.v] # 0
    <3> DEFINE s == [q EXCEPT !.pc = "lookup", !.items = items]
    <3>1. s \in CartJob /\ s.pc = "lookup" /\ s.items = items /\ s.op = "update" /\ s.q = q.q /\ s.v = q.v
        BY <1>5 DEF CartJob
    <3>2. items[q.v] > 0 /\ q.q <= MaxUnits
        BY <1>1, <1>5, <2>2 DEF CopyWithin
    <3>3. WithCart(q, items) = s
        BY <1>5, <2>2 DEF WithCart, Updated
    <3> HIDE DEF s
    <3> QED
        BY <3>1, <3>2, <3>3 DEF CopyWithin
  <2> QED
      BY <2>1, <2>2
<1>6. CASE q.op = "remove"
  <2>1. CASE items[q.v] = 0
      BY <1>6, <2>1, AfterOpKeeps DEF WithCart, Removed
  <2>2. CASE items[q.v] # 0
    <3>1. [items EXCEPT ![q.v] = 0] \in Items /\ Within([items EXCEPT ![q.v] = 0])
        BY <1>1, LineSet, CartAssumption
    <3>2. WithCart(q, items) = [q EXCEPT !.pc = "save", !.items = [items EXCEPT ![q.v] = 0]]
        BY <1>6, <2>2 DEF WithCart, Removed
    <3> QED
        BY <1>3, <3>1, <3>2
  <2> QED
      BY <2>1, <2>2
<1> QED
    BY <1>1, <1>2, <1>4, <1>5, <1>6

-----------------------------------------------------------------------------
(* Every step keeps the invariant.                                         *)

\* A request takes a step that stores at most a cart within the limits.
LEMMA RequestMoves ==
    ASSUME CartIInv, NEW r \in Requests, NEW q \in CartJob, CopyWithin(q), cartJob' = [cartJob EXCEPT ![r] = q],
           UNCHANGED <<day, listed, stock, peak>>,
           \/ UNCHANGED carts
           \/ \E c \in Customers, items \in Items :
                Within(items) /\ carts' = [carts EXCEPT ![c] = [items |-> items, updated |-> day, row |-> TRUE]]
           \/ \E c \in Customers : carts' = [carts EXCEPT ![c] = NoCart]
    PROVE  CartIInv'
<1>1. CartRowsOK /\ carts \in [Customers -> CartRow] /\ cartJob \in [Requests -> CartJob] /\ day \in Nat /\ peak \in [CartVariants -> Nat]
    BY DEF CartIInv, CartRowsOK
<1>2. cartJob' \in [Requests -> CartJob] /\ \A s \in Requests : cartJob'[s] = IF s = r THEN q ELSE cartJob[s]
    BY <1>1
<1>3. \A items : Within(items)' <=> Within(items)
    BY DEF Within
<1>4. \A s \in CartJob : CopyWithin(s)' <=> CopyWithin(s)
    BY <1>3 DEF CopyWithin
<1>5. carts' \in [Customers -> CartRow] /\ \A c \in Customers : Within(carts'[c].items)
  <2>1. CASE UNCHANGED carts
      BY <1>1, <2>1 DEF CartIInv
  <2>2. ASSUME NEW c \in Customers, NEW row \in CartRow, Within(row.items), carts' = [carts EXCEPT ![c] = row]
        PROVE  carts' \in [Customers -> CartRow] /\ \A k \in Customers : Within(carts'[k].items)
    <3>1. \A k \in Customers : carts'[k] = IF k = c THEN row ELSE carts[k]
        BY <1>1, <2>2
    <3> QED
        BY <1>1, <2>2, <3>1 DEF CartIInv
  <2>3. ASSUME NEW items \in Items
        PROVE  LET row == [items |-> items, updated |-> day, row |-> TRUE] IN row \in CartRow /\ row.items = items
      BY <1>1 DEF CartRow
  <2>4. NoCart \in CartRow /\ Within(NoCart.items)
      BY <1>1, CartShapes
  <2> QED
      BY <2>1, <2>2, <2>3, <2>4
<1>6. \A s \in Requests : CopyWithin(cartJob'[s])
    BY <1>1, <1>2 DEF CartIInv
<1>7. \A v \in CartVariants : stock'[v] <= peak'[v]
    BY DEF CartIInv
<1>8. CartRowsOK'
    BY <1>1, <1>2, <1>5 DEF CartRowsOK
<1>9. \A s \in Requests : CopyWithin(cartJob[s])'
    BY <1>6 DEF CopyWithin, Within
<1>10. \A c \in Customers : Within(carts[c].items)'
    BY <1>5 DEF Within
<1> QED
    BY <1>7, <1>8, <1>9, <1>10 DEF CartIInv

\* A request begins with nothing read.
LEMMA RequestStarts ==
    ASSUME CartIInv, NEW r \in Requests, NEW q \in CartJob, CartStart(r, q),
           q.pc \in {"read", "lookup", "merge"},
           q.pc = "lookup" => q.op = "add",
           q.pc = "read" => q.op \in {"get", "remove"} \/ (q.op = "update" /\ q.q <= MaxUnits),
           UNCHANGED <<backend, carts, day, Catalogue>>
    PROVE  CartIInv'
<1>1. CopyWithin(q)
    BY DEF CopyWithin
<1> QED
    BY <1>1, RequestMoves DEF CartStart, Catalogue

\* The handlers begin requests.
LEMMA KeepsHandlers ==
    ASSUME CartIInv, NEW r \in Requests,
           \/ HandleGetCart(r) \/ HandleGetCartCount(r) \/ HandleAddItem(r) \/ HandleUpdateItem(r)
           \/ HandleRemoveItem(r) \/ HandleMerge(r)
    PROVE  CartIInv'
<1>1. ASSUME NEW c \in Customers, GetCart(r, c), UNCHANGED <<backend, carts, day, Catalogue>> PROVE CartIInv'
  <2> DEFINE q == [NoCartJob EXCEPT !.pc = "read", !.cust = c]
  <2>1. q \in CartJob /\ q.pc = "read" /\ q.op = "get"
      BY CartShapes DEF CartJob, NoCartJob
  <2>2. CartStart(r, q)
      BY <1>1 DEF GetCart
  <2> HIDE DEF q
  <2> QED
      BY <1>1, <2>1, <2>2, RequestStarts
<1>2. ASSUME NEW c \in Customers, NEW v \in CartVariants, NEW n \in Quantities, AddItem(r, c, v, n),
             UNCHANGED <<backend, carts, day, Catalogue>>
      PROVE  CartIInv'
  <2> DEFINE q == [NoCartJob EXCEPT !.pc = "lookup", !.op = "add", !.cust = c, !.v = v, !.q = n]
  <2>1. n \in Nat
      BY CartAssumption
  <2>2. q \in CartJob /\ q.pc = "lookup" /\ q.op = "add"
      BY <2>1, CartShapes DEF CartJob, NoCartJob
  <2>3. CartStart(r, q)
      BY <1>2 DEF AddItem
  <2> HIDE DEF q
  <2> QED
      BY <1>2, <2>2, <2>3, RequestStarts
<1>3. ASSUME NEW c \in Customers, NEW v \in CartVariants, NEW n \in Quantities, UpdateItem(r, c, v, n),
             UNCHANGED <<backend, carts, day, Catalogue>>
      PROVE  CartIInv'
  <2> DEFINE q == [NoCartJob EXCEPT !.pc = "read", !.op = "update", !.cust = c, !.v = v, !.q = n]
  <2>1. n \in Nat
      BY CartAssumption
  <2>2. q \in CartJob /\ q.pc = "read" /\ q.op = "update" /\ q.q = n
      BY <2>1, CartShapes DEF CartJob, NoCartJob
  <2>3. CartStart(r, q) /\ n <= MaxUnits
      BY <1>3 DEF UpdateItem
  <2> HIDE DEF q
  <2> QED
      BY <1>3, <2>2, <2>3, RequestStarts
<1>4. ASSUME NEW c \in Customers, NEW v \in CartVariants, RemoveItem(r, c, v), UNCHANGED <<backend, carts, day, Catalogue>>
      PROVE  CartIInv'
  <2> DEFINE q == [NoCartJob EXCEPT !.pc = "read", !.op = "remove", !.cust = c, !.v = v]
  <2>1. q \in CartJob /\ q.pc = "read" /\ q.op = "remove"
      BY CartShapes DEF CartJob, NoCartJob
  <2>2. CartStart(r, q)
      BY <1>4 DEF RemoveItem
  <2> HIDE DEF q
  <2> QED
      BY <1>4, <2>1, <2>2, RequestStarts
<1>5. ASSUME NEW c \in Customers, NEW guest \in Customers, MergeGuestCartWithAccount(r, c, guest),
             UNCHANGED <<backend, carts, day, Catalogue>>
      PROVE  CartIInv'
  <2>1. CASE ~CartOf(guest).row
      BY <1>1, <1>5, <2>1 DEF MergeGuestCartWithAccount
  <2>2. CASE CartOf(guest).row
    <3> DEFINE q == [NoCartJob EXCEPT !.pc = "merge", !.cust = c, !.guest = guest, !.todo = CartOf(guest).items]
    <3>1. CartOf(guest).items \in Items
        BY DEF CartOf, On, PgCart, MgCart, CartIInv, CartRowsOK, CartRow
    <3>2. q \in CartJob /\ q.pc = "merge"
        BY <3>1, CartShapes DEF CartJob, NoCartJob
    <3>3. CartStart(r, q)
        BY <1>5, <2>2 DEF MergeGuestCartWithAccount
    <3> HIDE DEF q
    <3> QED
        BY <1>5, <3>2, <3>3, RequestStarts
  <2> QED
      BY <2>1, <2>2
<1> QED
    BY <1>1, <1>2, <1>3, <1>4, <1>5
       DEF HandleGetCart, HandleGetCartCount, HandleAddItem, HandleUpdateItem, HandleRemoveItem, HandleMerge

\* A cart is read, or emptied first when it has expired.
LEMMA KeepsGetRawCart ==
    ASSUME CartIInv, NEW r \in Requests, getRawCart(r)
    PROVE  CartIInv'
<1> DEFINE q == cartJob[r]
           c == CartOf(q.cust)
<1>1. q \in CartJob /\ q.pc = "read" /\ CopyWithin(q) /\ peak \in [CartVariants -> Nat]
    BY DEF CartIInv, CartRowsOK, getRawCart
<1>2. c.items \in Items /\ Within(c.items)
    BY <1>1 DEF CartOf, On, PgCart, MgCart, CartIInv, CartRowsOK, CartRow, CartJob
<1>3. WithCart(q, c.items) \in CartJob /\ CopyWithin(WithCart(q, c.items))
    BY <1>1, <1>2, WithCartKeeps
<1>4. [q EXCEPT !.pc = "reset"] \in CartJob /\ CopyWithin([q EXCEPT !.pc = "reset"])
  <2> DEFINE s == [q EXCEPT !.pc = "reset"]
  <2>1. s \in CartJob /\ s.pc = "reset" /\ s.op = q.op /\ s.q = q.q /\ s.stock = q.stock /\ s.v = q.v
      BY <1>1 DEF CartJob
  <2> HIDE DEF s
  <2>2. CopyWithin(s)
      BY <1>1, <2>1 DEF CopyWithin
  <2> QED
      BY <2>1, <2>2 DEF s
<1>5. UNCHANGED <<carts, day, listed, stock, peak>>
    BY DEF getRawCart, Catalogue
<1>6. \/ cartJob' = [cartJob EXCEPT ![r] = [q EXCEPT !.pc = "reset"]]
      \/ cartJob' = [cartJob EXCEPT ![r] = WithCart(q, c.items)]
    BY DEF getRawCart
<1> QED
    BY <1>3, <1>4, <1>5, <1>6, RequestMoves

\* An expired cart is emptied.
LEMMA KeepsResetCart ==
    ASSUME CartIInv, NEW r \in Requests, ResetCart(r)
    PROVE  CartIInv'
<1> DEFINE q == cartJob[r]
<1>1. q \in CartJob /\ q.pc = "reset" /\ CopyWithin(q) /\ peak \in [CartVariants -> Nat] /\ q.cust \in Customers
    BY DEF CartIInv, CartRowsOK, ResetCart, CartJob
<1>2. Empty \in Items /\ Within(Empty)
    BY <1>1, CartShapes
<1>3. WithCart(q, Empty) \in CartJob /\ CopyWithin(WithCart(q, Empty))
    BY <1>1, <1>2, WithCartKeeps
<1>4. \/ UNCHANGED carts
      \/ carts' = [carts EXCEPT ![q.cust] = [items |-> Empty, updated |-> day, row |-> TRUE]]
    BY DEF ResetCart, StoreCart, On, PgSaveCart, MgSaveCart
<1>5. cartJob' = [cartJob EXCEPT ![r] = WithCart(q, Empty)] /\ UNCHANGED <<day, listed, stock, peak>>
    BY DEF ResetCart, Catalogue
<1> QED
    BY <1>1, <1>2, <1>3, <1>4, <1>5, RequestMoves

\* The stock that is read is no more than the catalog has had.
LEMMA KeepsLookUp ==
    ASSUME CartIInv, NEW r \in Requests, LookUpVariant(r)
    PROVE  CartIInv'
<1> DEFINE q == cartJob[r]
<1>1. q \in CartJob /\ q.pc = "lookup" /\ CopyWithin(q) /\ q.v \in CartVariants /\ q.op \in {"add", "update"} /\ q.q \in Nat /\ q.items \in Items
    BY DEF CartIInv, CartRowsOK, LookUpVariant, CartJob, CopyWithin
<1>2. stock[q.v] \in Nat /\ peak[q.v] \in Nat /\ stock[q.v] <= peak[q.v] /\ peak \in [CartVariants -> Nat] /\ q.items[q.v] \in Nat
    BY <1>1 DEF CartIInv, CartRowsOK, Items
<1>3. UNCHANGED <<carts, day, listed, stock, peak>>
    BY DEF LookUpVariant, Catalogue
<1>4. CASE cartJob' = [cartJob EXCEPT ![r] = AfterOp(q)]
    BY <1>1, <1>3, <1>4, AfterOpKeeps, RequestMoves
<1>5. CASE q.op = "add" /\ cartJob' = [cartJob EXCEPT ![r] = [q EXCEPT !.pc = "read", !.stock = stock[q.v]]]
  <2> DEFINE s == [q EXCEPT !.pc = "read", !.stock = stock[q.v]]
  <2>1. s \in CartJob /\ s.pc = "read" /\ s.op = "add" /\ s.stock = stock[q.v] /\ s.v = q.v
      BY <1>1, <1>2, <1>5 DEF CartJob
  <2>2. cartJob' = [cartJob EXCEPT ![r] = s]
      BY <1>5
  <2> HIDE DEF s
  <2>3. CopyWithin(s)
      BY <1>2, <2>1 DEF CopyWithin
  <2> QED
      BY <1>3, <2>1, <2>2, <2>3, RequestMoves
<1>6. CASE q.op # "add" /\ q.q <= stock[q.v] /\ cartJob' = [cartJob EXCEPT ![r] = [q EXCEPT !.pc = "save", !.items[q.v] = q.q]]
  <2> DEFINE new == [q.items EXCEPT ![q.v] = q.q]
             s == [q EXCEPT !.pc = "save", !.items = new]
  <2>1. q.op = "update" /\ Within(q.items) /\ q.items[q.v] > 0 /\ q.q <= MaxUnits
      BY <1>1, <1>6 DEF CopyWithin
  <2>2. q.q <= peak[q.v]
      BY <1>1, <1>2, <1>6
  <2>3. new \in Items /\ Within(new)
      BY <1>1, <1>2, <2>1, <2>2, LineSet
  <2>4. s \in CartJob /\ s.pc = "save" /\ s.items = new
      BY <1>1, <2>3 DEF CartJob
  <2>5. cartJob' = [cartJob EXCEPT ![r] = s]
      BY <1>1, <1>6 DEF CartJob
  <2> HIDE DEF s
  <2>6. CopyWithin(s)
      BY <2>3, <2>4 DEF CopyWithin
  <2> QED
      BY <1>3, <2>4, <2>5, <2>6, RequestMoves
<1>7. \/ cartJob' = [cartJob EXCEPT ![r] = AfterOp(q)]
      \/ q.op = "add" /\ cartJob' = [cartJob EXCEPT ![r] = [q EXCEPT !.pc = "read", !.stock = stock[q.v]]]
      \/ q.op # "add" /\ ~ (q.q > stock[q.v]) /\ cartJob' = [cartJob EXCEPT ![r] = [q EXCEPT !.pc = "save", !.items[q.v] = q.q]]
    BY DEF LookUpVariant
<1>8. ~ (q.q > stock[q.v]) => q.q <= stock[q.v]
    BY <1>1, <1>2
<1> QED
    BY <1>4, <1>5, <1>6, <1>7, <1>8

\* The copy a request has checked is saved whole.
LEMMA KeepsSaveCart ==
    ASSUME CartIInv, NEW r \in Requests, SaveCart(r)
    PROVE  CartIInv'
<1> DEFINE q == cartJob[r]
<1>1. q \in CartJob /\ q.cust \in Customers /\ q.items \in Items /\ Within(q.items)
    BY DEF CartIInv, CartRowsOK, SaveCart, CartJob, CopyWithin
<1>2. carts' = [carts EXCEPT ![q.cust] = [items |-> q.items, updated |-> day, row |-> TRUE]]
    BY DEF SaveCart, StoreCart, On, PgSaveCart, MgSaveCart
<1>3. cartJob' = [cartJob EXCEPT ![r] = AfterOp(q)] /\ UNCHANGED <<day, listed, stock, peak>>
    BY DEF SaveCart, Catalogue
<1> QED
    BY <1>1, <1>2, <1>3, AfterOpKeeps, RequestMoves

\* A merge goes on with a line, or deletes the guest's cart, or a request fails.
LEMMA KeepsMerge ==
    ASSUME CartIInv, NEW r \in Requests, MergeLine(r) \/ DropGuest(r) \/ FailCart(r)
    PROVE  CartIInv'
<1> DEFINE q == cartJob[r]
<1>1. q \in CartJob /\ q.cust \in Customers /\ q.todo \in Items /\ q.guest \in Customers \cup {NoCustomer} /\ CopyWithin(q)
      /\ CartRowsOK
    BY DEF CartIInv, CartRowsOK, CartJob
<1>2. ASSUME MergeLine(r) PROVE CartIInv'
  <2>1. UNCHANGED <<carts, day, listed, stock, peak>>
      BY <1>2 DEF MergeLine, Catalogue
  <2>2. ASSUME NEW v \in Lines(q.todo),
               cartJob' = [cartJob EXCEPT ![r] = [q EXCEPT !.pc = "lookup", !.op = "add", !.v = v, !.q = q.todo[v], !.todo[v] = 0]]
        PROVE  CartIInv'
    <3> DEFINE rest == [q.todo EXCEPT ![v] = 0]
               s == [q EXCEPT !.pc = "lookup", !.op = "add", !.v = v, !.q = q.todo[v], !.todo = rest]
    <3>1. v \in CartVariants /\ q.todo[v] \in Nat /\ rest \in Items
        BY <1>1 DEF Lines, Items
    <3>2. s \in CartJob /\ s.pc = "lookup" /\ s.op = "add"
        BY <1>1, <3>1 DEF CartJob
    <3>3. cartJob' = [cartJob EXCEPT ![r] = s]
        BY <1>1, <2>2 DEF CartJob
    <3> HIDE DEF s
    <3>4. CopyWithin(s)
        BY <3>2 DEF CopyWithin
    <3> QED
        BY <2>1, <3>2, <3>3, <3>4, RequestMoves
  <2>3. ASSUME cartJob' = [cartJob EXCEPT ![r].pc = "drop"] PROVE CartIInv'
    <3> DEFINE s == [q EXCEPT !.pc = "drop"]
    <3>1. s \in CartJob /\ s.pc = "drop"
        BY <1>1 DEF CartJob
    <3>2. cartJob' = [cartJob EXCEPT ![r] = s]
        BY <1>1, <2>3 DEF CartRowsOK
    <3> HIDE DEF s
    <3>3. CopyWithin(s)
        BY <3>1 DEF CopyWithin
    <3> QED
        BY <2>1, <3>1, <3>2, <3>3, RequestMoves
  <2> QED
      BY <1>2, <2>2, <2>3 DEF MergeLine
<1>3. ASSUME DropGuest(r) PROVE CartIInv'
  <2> DEFINE s == [NoCartJob EXCEPT !.pc = "read", !.cust = q.cust]
  <2>1. s \in CartJob /\ s.pc = "read" /\ s.op = "get"
      BY <1>1, CartShapes DEF CartJob, NoCartJob
  <2>2. cartJob' = [cartJob EXCEPT ![r] = s] /\ UNCHANGED <<day, listed, stock, peak>>
      BY <1>3 DEF DropGuest, Catalogue
  <2>3. UNCHANGED carts \/ carts' = [carts EXCEPT ![q.guest] = NoCart]
      BY <1>3 DEF DropGuest, DeleteCart, On, PgDeleteCart, MgDeleteCart
  <2>4. UNCHANGED carts \/ \E c \in Customers : carts' = [carts EXCEPT ![c] = NoCart]
    <3>1. q.guest = NoCustomer => [carts EXCEPT ![q.guest] = NoCart] = carts
        BY <1>1, CartAssumption DEF CartRowsOK
    <3> QED
        BY <1>1, <2>3, <3>1
  <2> HIDE DEF s
  <2>5. CopyWithin(s)
      BY <2>1 DEF CopyWithin
  <2> QED
      BY <2>1, <2>2, <2>4, <2>5, RequestMoves
<1>4. ASSUME FailCart(r) PROVE CartIInv'
  <2>1. NoCartJob \in CartJob /\ CopyWithin(NoCartJob)
      BY CartShapes DEF CopyWithin
  <2>2. AfterOp(q) \in CartJob /\ CopyWithin(AfterOp(q))
      BY <1>1, AfterOpKeeps
  <2>3. UNCHANGED <<carts, day, listed, stock, peak>>
      BY <1>4 DEF FailCart, Catalogue
  <2>4. \/ cartJob' = [cartJob EXCEPT ![r] = NoCartJob]
        \/ cartJob' = [cartJob EXCEPT ![r] = AfterOp(q)]
      BY <1>4 DEF FailCart
  <2> QED
      BY <2>1, <2>2, <2>3, <2>4, RequestMoves
<1> QED
    BY <1>2, <1>3, <1>4

\* Steps of nobody's request: a cart is cleared, the catalog changes, a day passes.
LEMMA KeepsOthers ==
    ASSUME CartIInv, HandleClear \/ (\E v \in CartVariants : CatalogChanges(v)) \/ CartTick \/ UNCHANGED cartVars
    PROVE  CartIInv'
<1>1. CartRowsOK
    BY DEF CartIInv
<1>2. ASSUME UNCHANGED <<listed, cartJob>>, day' \in Nat, UNCHANGED <<stock, peak>>,
             UNCHANGED carts \/ \E c \in Customers : carts' = [carts EXCEPT ![c] = NoCart]
      PROVE  CartIInv'
  <2>1. carts' \in [Customers -> CartRow] /\ \A c \in Customers : Within(carts'[c].items)
    <3>1. NoCart \in CartRow /\ Within(NoCart.items)
        BY <1>1, CartShapes DEF CartRowsOK
    <3> QED
        BY <1>1, <1>2, <3>1 DEF CartIInv, CartRowsOK
  <2>2. CartRowsOK'
      BY <1>1, <1>2, <2>1 DEF CartRowsOK
  <2>3. \A c \in Customers : Within(carts[c].items)'
      BY <1>2, <2>1 DEF Within
  <2>4. \A r \in Requests : CopyWithin(cartJob[r])'
      BY <1>2 DEF CartIInv, CopyWithin, Within
  <2> QED
      BY <1>2, <2>2, <2>3, <2>4 DEF CartIInv
<1>3. ASSUME NEW v \in CartVariants, CatalogChanges(v) PROVE CartIInv'
  <2>1. UNCHANGED <<carts, day, cartJob>>
      BY <1>3 DEF CatalogChanges
  <2>2. /\ listed' \subseteq CartVariants /\ stock' \in [CartVariants -> Nat] /\ peak' \in [CartVariants -> Nat]
        /\ \A w \in CartVariants : stock'[w] <= peak'[w] /\ peak[w] <= peak'[w]
    <3>1. CASE UNCHANGED <<stock, peak>> /\ listed' = listed \ {v}
        BY <1>1, <3>1 DEF CartIInv, CartRowsOK
    <3>2. ASSUME NEW n \in Stocks, stock' = [stock EXCEPT ![v] = n], UNCHANGED listed,
                 peak' = [peak EXCEPT ![v] = IF n > @ THEN n ELSE @]
          PROVE  /\ listed' \subseteq CartVariants /\ stock' \in [CartVariants -> Nat] /\ peak' \in [CartVariants -> Nat]
                 /\ \A w \in CartVariants : stock'[w] <= peak'[w] /\ peak[w] <= peak'[w]
      <4>1. n \in Nat
          BY CartAssumption
      <4> QED
          BY <1>1, <3>2, <4>1 DEF CartIInv, CartRowsOK
    <3> QED
        BY <1>3, <3>1, <3>2 DEF CatalogChanges
  <2>3. \A items \in Items : Within(items) => Within(items)'
    <3>1. \A x \in Nat, w \in CartVariants : x <= peak[w] => x <= peak'[w]
        BY <1>1, <2>2 DEF CartRowsOK
    <3> QED
        BY <3>1 DEF Within, Items
  <2>4. CartRowsOK'
      BY <1>1, <2>1, <2>2 DEF CartRowsOK
  <2>5. \A c \in Customers : Within(carts[c].items)'
    <3>1. \A c \in Customers : carts[c].items \in Items /\ Within(carts[c].items)
        BY <1>1 DEF CartIInv, CartRowsOK, CartRow
    <3> QED
        BY <2>1, <2>3, <3>1 DEF Within
  <2>6. \A r \in Requests : CopyWithin(cartJob[r])'
    <3> SUFFICES ASSUME NEW r \in Requests PROVE CopyWithin(cartJob[r])'
        OBVIOUS
    <3> DEFINE q == cartJob[r]
    <3>1. CopyWithin(q) /\ q.items \in Items /\ q.stock \in Nat /\ q.v \in CartVariants
        BY <1>1 DEF CartIInv, CartRowsOK, CartJob
    <3>2. Within(q.items) => Within(cartJob[r].items)'
        BY <2>1, <2>3, <3>1 DEF Within
    <3>3. q.stock <= peak[q.v] => q.stock <= peak'[q.v]
        BY <1>1, <2>2, <3>1 DEF CartRowsOK
    <3> QED
        BY <2>1, <3>1, <3>2, <3>3 DEF CopyWithin
  <2> QED
      BY <2>2, <2>4, <2>5, <2>6 DEF CartIInv
<1>4. CASE HandleClear
    BY <1>1, <1>2, <1>4 DEF HandleClear, ClearCart, DeleteCart, On, PgDeleteCart, MgDeleteCart, Catalogue, CartRowsOK
<1>5. CASE CartTick
    BY <1>1, <1>2, <1>5 DEF CartTick, Catalogue, CartRowsOK
<1>6. CASE UNCHANGED cartVars
    BY <1>1, <1>2, <1>6 DEF cartVars, CartRowsOK
<1> QED
    BY <1>3, <1>4, <1>5, <1>6

\* The carts are empty at first.
LEMMA CartStarts == CartInit => CartIInv
<1> SUFFICES ASSUME CartInit PROVE CartIInv
    OBVIOUS
<1>1. stock \in [CartVariants -> Nat] /\ peak = stock
    BY CartAssumption DEF CartInit
<1>2. CartRowsOK
    BY <1>1, CartShapes DEF CartInit, CartRowsOK
<1>3. \A c \in Customers : Within(carts[c].items)
    BY <1>1, CartShapes DEF CartInit
<1>4. \A r \in Requests : CopyWithin(cartJob[r])
    BY CartShapes DEF CartInit, CopyWithin
<1> QED
    BY <1>1, <1>2, <1>3, <1>4 DEF CartIInv

\* Every step keeps the invariant.
LEMMA CartKeeps == CartIInv /\ [CartNext]_cartVars => CartIInv'
    BY KeepsHandlers, KeepsGetRawCart, KeepsResetCart, KeepsLookUp, KeepsSaveCart, KeepsMerge, KeepsOthers DEF CartNext

\* Whatever requests and merges race with each other and with the catalog, a stored cart is within the
\* limits: AddItem checks the sum with what it has read of the cart and saves the copy it has checked.
THEOREM CartsStayWithinLimits == CartSpec => []LinesWithinLimits
<1>1. CartIInv => LinesWithinLimits
    BY DEF CartIInv, Within, LinesWithinLimits
<1> QED
    BY <1>1, CartStarts, CartKeeps, PTL DEF CartSpec

\* A discount lowers the price of a variant, or leaves it.
LEMMA DiscountedIsLower ==
    ASSUME NEW v \in CartVariants
    PROVE  Price[v] \in Nat /\ DiscountedPrice(v) \in Int /\ DiscountedPrice(v) <= Price[v]
<1>1. Price[v] \in Nat /\ Discount[v].type \in {"none", "percentage", "fixed"} /\ Discount[v].value \in Nat
    BY CartAssumption
<1>2. CASE Discount[v].type = "percentage"
  <2> DEFINE p == Price[v]
             d == Discount[v].value
             n == p * (100 - d) + 50
  <2>1. p * (100 - d) <= p * 100 /\ p * (100 - d) \in Int
    <3>1. \A a \in Nat, b \in Nat : a * (100 - b) <= a * 100 /\ a * (100 - b) \in Int
        OBVIOUS
    <3>2. p \in Nat /\ d \in Nat
        BY <1>1
    <3> HIDE DEF p, d
    <3> QED
        BY <3>1, <3>2
  <2>2. n \in Int /\ n <= 100 * p + 50
      BY <1>1, <2>1
  <2> HIDE DEF n
  <2>3. n \div 100 \in Int /\ n \div 100 <= p
      BY <1>1, <2>2
  <2>4. DiscountedPrice(v) = n \div 100
      BY <1>2 DEF DiscountedPrice, n
  <2> QED
      BY <1>1, <2>3, <2>4
<1>3. CASE Discount[v].type # "percentage"
    BY <1>1, <1>3 DEF DiscountedPrice
<1> QED
    BY <1>2, <1>3

\* What a customer is shown of a well-typed cart adds up.
LEMMA CartAnswersRight ==
    ASSUME CartRowsOK
    PROVE  CartAnswersOK
<1> SUFFICES ASSUME NEW c \in Customers
             PROVE  LET items == carts[c].items
                        answer == enrichCart(items)
                    IN  /\ answer.discounted <= answer.total
                        /\ answer.items \cup answer.unavailable = Lines(items)
                        /\ CartCountDetailed(items).count >= CartCountDetailed(items).distinct
    BY DEF CartAnswersOK
<1> DEFINE items == carts[c].items
           shown == Lines(items) \cap listed
           full == [v \in CartVariants |-> Price[v] * items[v]]
           lower == [v \in CartVariants |-> DiscountedPrice(v) * items[v]]
<1>1. items \in [CartVariants -> Nat]
    BY DEF CartRowsOK, CartRow, Items
<1>2. /\ Lines(items) \in SUBSET CartVariants /\ shown \in SUBSET CartVariants
      /\ IsFiniteSet(Lines(items)) /\ IsFiniteSet(shown)
    BY CartAssumption, FS_Subset DEF Lines
<1>3. \A v \in CartVariants : full[v] \in Int /\ lower[v] \in Int /\ lower[v] <= full[v]
  <2>1. ASSUME NEW v \in CartVariants
        PROVE  Price[v] * items[v] \in Int /\ DiscountedPrice(v) * items[v] \in Int
               /\ DiscountedPrice(v) * items[v] <= Price[v] * items[v]
    <3>1. \A a \in Int, b \in Int, n \in Nat : a <= b => a * n \in Int /\ b * n \in Int /\ a * n <= b * n
        OBVIOUS
    <3>2. items[v] \in Nat
        BY <1>1
    <3> QED
        BY <3>1, <3>2, DiscountedIsLower
  <2> QED
      BY <2>1
<1> HIDE DEF shown
<1>4. Total(lower, shown) <= Total(full, shown)
  <2>1. full \in [CartVariants -> Int] /\ lower \in [CartVariants -> Int]
      BY <1>3
  <2> HIDE DEF full, lower
  <2> DEFINE f == [v \in shown |-> full[v]]
             l == [v \in shown |-> lower[v]]
  <2>2. Total(full, shown) = Total(f, shown) /\ Total(lower, shown) = Total(l, shown)
      BY <1>2, <2>1, TotalRestricted
  <2>3. f \in [shown -> Int] /\ l \in [shown -> Int] /\ \A v \in shown : l[v] <= f[v]
      BY <1>2, <1>3, <2>1
  <2> HIDE DEF f, l
  <2>4. Total(l, shown) <= Total(f, shown)
      BY <1>2, <2>3, TotalGrows
  <2> QED
      BY <2>2, <2>4
<1>5. Total(items, Lines(items)) >= Cardinality(Lines(items))
  <2> DEFINE L == Lines(items)
             some == [v \in L |-> items[v]]
             one == [v \in L |-> 1]
  <2>1. items \in [CartVariants -> Int]
      BY <1>1
  <2>2. some \in [L -> Int] /\ one \in [L -> Int] /\ \A v \in L : one[v] <= some[v]
      BY <1>1 DEF Lines
  <2>3. Total(items, L) = Total(some, L)
      BY <1>2, <2>1, TotalRestricted
  <2>4. Total(one, L) = 1 * Cardinality(L) /\ Cardinality(L) \in Nat
    <3> HIDE DEF L
    <3>1. IsFiniteSet(L)
        BY <1>2 DEF L
    <3> QED
        BY <3>1, TotalOfSame
  <2> HIDE DEF L, some, one
  <2>5. IsFiniteSet(L)
      BY <1>2 DEF L
  <2>6. Total(one, L) <= Total(some, L) /\ Total(some, L) \in Int
      BY <2>2, <2>5, TotalGrows, TotalIsNet
  <2> QED
      BY <2>3, <2>4, <2>6 DEF L
<1>6. enrichCart(items).discounted = Total(lower, shown) /\ enrichCart(items).total = Total(full, shown)
    BY DEF enrichCart, SumOver, Total, shown
<1>7. CartCountDetailed(items).count = Total(items, Lines(items))
      /\ CartCountDetailed(items).distinct = Cardinality(Lines(items))
    BY DEF CartCountDetailed, CartCount, SumOver, Total
<1>8. enrichCart(items).items \cup enrichCart(items).unavailable = Lines(items)
    BY DEF enrichCart
<1> HIDE DEF items, full, lower
<1> QED
    BY <1>4, <1>5, <1>6, <1>7, <1>8 DEF items

\* Every reachable cart is well typed, and what is shown of it adds up: a discount never raises a total, no
\* line is left out, and a cart has at least a unit of each line.
THEOREM CartTypes == CartSpec => []CartTypeOK
<1>1. CartIInv => CartTypeOK
    BY CartAnswersRight DEF CartIInv, CartRowsOK, CartTypeOK
<1> QED
    BY <1>1, CartStarts, CartKeeps, PTL DEF CartSpec

-----------------------------------------------------------------------------
(* Products.                                                               *)

\* Types of the product, its lists and the requests.
ProductRowsOK ==
    /\ backend \in Backends
    /\ product \in ProductRecord /\ variants \subseteq Variant /\ images \subseteq Image
    /\ madeVariants \in 0 .. MaxVariants /\ madeImages \in 0 .. MaxImages
    /\ productJob \in [Requests -> ProductJob]

\* A list of variants a document may hold: ids may stand twice in it.
VariantsFit(vs) == IsFiniteSet(vs) /\ \A v, w \in vs : v.sku = w.sku => v = w
\* The images of a product have distinct ids, none of them issued later.
ImagesFit(is, made) ==
    /\ \A i, j \in is : i.id = j.id => i = j
    /\ \A i \in is : i.id <= made

\* A list without images, or with a primary one.
HasPrimary(is) == is # {} => \E i \in is : i.primary

\* What a request writes may be stored, alone.
ListsFit(q, madeI) ==
    /\ VariantsFit(q.variants) /\ ImagesFit(q.images, madeI) /\ HasPrimary(q.images)
    /\ q.pc # "idle" /\ "variants" \in q.lists => q.variants # {}
    /\ "variants" \notin q.lists => q.variants = {}
    /\ "images" \notin q.lists => q.images = {}
    /\ q.pc # "insert" => q.leftV = {} /\ q.leftI = {}
    /\ q.pc = "update" => q.lists = {"variants", "images"}

\* The images a commit of q would keep: those others have committed since its delete.
Kept(is, q) == {i \in is : i.id \in q.leftI}

\* The inductive invariant: on Postgres no id stands twice, of the images a transaction would keep
\* one is primary, and of two transactions one has seen all the commits the other has seen.
ProductsIInv ==
    /\ ProductRowsOK
    /\ Live => variants # {}
    /\ VariantsFit(variants) /\ ImagesFit(images, madeImages) /\ HasPrimary(images)
    /\ backend = "postgres" => DistinctIds(variants)
    /\ \A r \in Requests : ListsFit(productJob[r], madeImages)
    /\ \A r \in Requests : productJob[r].pc = "insert" =>
          backend = "postgres" /\ HasPrimary(Kept(images, productJob[r]))
    /\ \A r, o \in Requests : productJob[r].pc = "insert" /\ productJob[o].pc = "insert" =>
          productJob[r].leftI \subseteq productJob[o].leftI \/ productJob[o].leftI \subseteq productJob[r].leftI
-----------------------------------------------------------------------------
\* A request that writes nothing is one, and what it writes may be stored.
LEMMA IdleProductJob ==
    /\ NoProductJob \in ProductJob /\ NoProductJob.pc = "idle"
    /\ \A n \in Nat : ListsFit(NoProductJob, n)
<1>1. NoProductJob \in ProductJob /\ NoProductJob.pc = "idle"
    BY DEF NoProductJob, ProductJob
<1>2. \A n \in Nat : ListsFit(NoProductJob, n)
    BY FS_EmptySet DEF NoProductJob, ListsFit, VariantsFit, ImagesFit, HasPrimary
<1> QED
    BY <1>1, <1>2

\* A product with another version and no discount is one.
LEMMA ProductReplaced ==
    \A p \in ProductRecord, n \in Nat :
        /\ [p EXCEPT !.version = n, !.discount = NoDiscount] \in ProductRecord
        /\ [p EXCEPT !.version = @ + 1, !.discount = NoDiscount] \in ProductRecord
<1> SUFFICES ASSUME NEW p \in ProductRecord, NEW n \in Nat
    PROVE  /\ [p EXCEPT !.version = n, !.discount = NoDiscount] \in ProductRecord
           /\ [p EXCEPT !.version = @ + 1, !.discount = NoDiscount] \in ProductRecord
    OBVIOUS
<1>1. p.version + 1 \in Nat
    BY DEF ProductRecord
<1>2. \A m \in Nat : [p EXCEPT !.version = m, !.discount = NoDiscount] \in ProductRecord
    BY DEF ProductRecord
<1> QED
    BY <1>1, <1>2

\* When as many SKUs as variants are counted, no two variants have the same.
LEMMA ValidVariants ==
    ASSUME NEW vs, IsFiniteSet(vs), ValidateVariants(vs)
    PROVE  \A v, w \in vs : v.sku = w.sku => v = w
<1> DEFINE sku == [v \in vs |-> v.sku]
<1>1. sku \in Surjection(vs, SkusOf(vs))
    BY DEF Surjection, SkusOf
<1>2. Cardinality(vs) = Cardinality(SkusOf(vs))
    BY DEF ValidateVariants
<1>3. sku \in Injection(vs, SkusOf(vs))
    BY <1>1, <1>2, FS_SurjSameCardinalityImpliesInj
<1> QED
    BY <1>3 DEF Injection, IsInjective

\* The variants of a payload may be stored when it is valid.
LEMMA PayloadFits ==
    ASSUME NEW ids, ids \subseteq 0 .. MaxVariants, NEW vs \in Payload(ids), ValidateProduct(vs)
    PROVE  vs \in SUBSET Variant /\ vs # {} /\ VariantsFit(vs)
<1>1. PICK v \in [id: ids, sku: Skus, stock: {0}], w \in [id: ids, sku: Skus, stock: {0}] : vs = {v, w}
    BY DEF Payload
<1>2. v \in Variant /\ w \in Variant
    BY ProductsAssumption DEF Variant
<1>3. IsFiniteSet(vs)
  <2>1. {v, w} = {v} \cup {w} /\ IsFiniteSet({v}) /\ IsFiniteSet({w})
      BY FS_Singleton
  <2>2. IsFiniteSet({v} \cup {w})
      BY <2>1, FS_Union
  <2> QED
      BY <1>1, <2>1, <2>2
<1>4. \A x, y \in vs : x.sku = y.sku => x = y
    BY <1>3, ValidVariants DEF ValidateProduct
<1> QED
    BY <1>1, <1>2, <1>3, <1>4 DEF VariantsFit

\* The tables are written in one statement and requests end, or go on as before: the invariant
\* stays when the images do, or go, or no transaction is open.
LEMMA TablesWritten ==
    ASSUME ProductsIInv, product' \in ProductRecord, backend' = backend,
           variants' \in SUBSET Variant, images' \in SUBSET Image,
           madeVariants' \in madeVariants .. MaxVariants, madeImages' = madeImages,
           Live' => variants' # {},
           VariantsFit(variants'), ImagesFit(images', madeImages), HasPrimary(images'),
           backend = "postgres" => DistinctIds(variants'),
           images' \in {images, {}} \/ backend = "mongo",
           productJob' \in [Requests -> ProductJob],
           \A o \in Requests : productJob'[o] \in {productJob[o], NoProductJob}
    PROVE  ProductsIInv'
<1> USE ProductsAssumption
<1>1. madeVariants \in Nat /\ madeImages \in Nat /\ madeVariants' \in Nat /\ madeVariants <= madeVariants'
    BY DEF ProductsIInv, ProductRowsOK
<1>2. ProductRowsOK'
    BY <1>1 DEF ProductsIInv, ProductRowsOK
<1>3. ASSUME NEW o \in Requests PROVE ListsFit(productJob'[o], madeImages')
  <2>1. CASE productJob'[o] = productJob[o]
    <3>1. ListsFit(productJob[o], madeImages)
        BY DEF ProductsIInv
    <3> QED
        BY <2>1, <3>1
  <2>2. CASE productJob'[o] = NoProductJob
      BY <2>2, <1>1, IdleProductJob
  <2> QED
      BY <2>1, <2>2
<1>4. ASSUME NEW o \in Requests, productJob'[o].pc = "insert"
      PROVE  productJob'[o] = productJob[o] /\ backend' = "postgres" /\ HasPrimary(Kept(images', productJob'[o]))
  <2>1. productJob'[o] = productJob[o]
      BY <1>4, IdleProductJob
  <2>2. backend = "postgres" /\ HasPrimary(Kept(images, productJob[o]))
      BY <1>4, <2>1 DEF ProductsIInv
  <2>3. CASE images' = images
      BY <2>1, <2>2, <2>3
  <2>4. CASE images' = {}
      BY <2>1, <2>2, <2>4 DEF HasPrimary, Kept
  <2> QED
      BY <2>1, <2>2, <2>3, <2>4
<1>5. ASSUME NEW r \in Requests, NEW o \in Requests, productJob'[r].pc = "insert", productJob'[o].pc = "insert"
      PROVE  \/ productJob'[r].leftI \subseteq productJob'[o].leftI
             \/ productJob'[o].leftI \subseteq productJob'[r].leftI
  <2>1. productJob'[r] = productJob[r] /\ productJob'[o] = productJob[o]
      BY <1>4, <1>5
  <2> QED
      BY <1>5, <2>1 DEF ProductsIInv
<1> QED
    BY <1>2, <1>3, <1>4, <1>5 DEF ProductsIInv

\* A request goes on to what may be stored and the tables stay.
LEMMA ProductJobMoves ==
    ASSUME ProductsIInv, NEW r \in Requests, NEW q \in ProductJob, backend' = backend, UNCHANGED ProductData,
           madeVariants' \in madeVariants .. MaxVariants, madeImages' \in madeImages .. MaxImages,
           ListsFit(q, madeImages'),
           q.pc = "insert" => backend = "postgres" /\ q.leftI = {},
           productJob' = [productJob EXCEPT ![r] = q]
    PROVE  ProductsIInv'
<1> USE ProductsAssumption
<1>1. /\ madeVariants \in Nat /\ madeVariants' \in Nat /\ madeVariants <= madeVariants'
      /\ madeImages \in Nat /\ madeImages' \in Nat /\ madeImages <= madeImages'
      /\ madeVariants' \in 0 .. MaxVariants /\ madeImages' \in 0 .. MaxImages
    BY DEF ProductsIInv, ProductRowsOK
<1>2. ProductRowsOK'
    BY <1>1 DEF ProductsIInv, ProductRowsOK, ProductData
<1>4. ASSUME NEW is \in SUBSET Image, ImagesFit(is, madeImages) PROVE ImagesFit(is, madeImages')
  <2>1. \A i \in is : i.id \in Nat
      BY DEF Image
  <2> QED
      BY <1>4, <1>1, <2>1 DEF ImagesFit
<1>5. \A o \in Requests : productJob'[o] = IF o = r THEN q ELSE productJob[o]
    BY DEF ProductsIInv, ProductRowsOK
<1>6. ASSUME NEW o \in Requests PROVE ListsFit(productJob'[o], madeImages')
  <2>1. CASE o = r
      BY <2>1, <1>5
  <2>2. CASE o # r
    <3>1. productJob[o].images \in SUBSET Image
        BY DEF ProductsIInv, ProductRowsOK, ProductJob
    <3>2. ListsFit(productJob[o], madeImages)
        BY DEF ProductsIInv
    <3>3. ImagesFit(productJob[o].images, madeImages')
        BY <3>1, <3>2, <1>4 DEF ListsFit
    <3> QED
        BY <2>2, <1>5, <3>2, <3>3 DEF ListsFit
  <2> QED
      BY <2>1, <2>2
<1>7. /\ VariantsFit(variants') /\ ImagesFit(images', madeImages')
      /\ HasPrimary(images') /\ (Live' => variants' # {})
      /\ backend' = "postgres" => DistinctIds(variants')
    BY <1>4 DEF ProductsIInv, ProductRowsOK, ProductData, Live, DistinctIds
<1>8. ASSUME NEW o \in Requests, productJob'[o].pc = "insert"
      PROVE  backend' = "postgres" /\ HasPrimary(Kept(images', productJob'[o]))
  <2>1. CASE o = r
      BY <2>1, <1>5, <1>8 DEF HasPrimary, Kept
  <2>2. CASE o # r
      BY <2>2, <1>5, <1>8 DEF ProductsIInv, ProductData
  <2> QED
      BY <2>1, <2>2
<1>9. ASSUME NEW x \in Requests, NEW o \in Requests, productJob'[x].pc = "insert", productJob'[o].pc = "insert"
      PROVE  \/ productJob'[x].leftI \subseteq productJob'[o].leftI
             \/ productJob'[o].leftI \subseteq productJob'[x].leftI
  <2>1. CASE x = r \/ o = r
      BY <2>1, <1>5, <1>9
  <2>2. CASE x # r /\ o # r
      BY <2>2, <1>5, <1>9 DEF ProductsIInv
  <2> QED
      BY <2>1, <2>2
<1> QED
    BY <1>2, <1>6, <1>7, <1>8, <1>9 DEF ProductsIInv

\* The images of a product after a commit, and those another transaction would keep of them.
LEMMA ListsCommitted ==
    ASSUME ProductsIInv, NEW r \in Requests, CommitLists(r), Live, ~Clashes(productJob[r])
    PROVE  ProductsIInv'
<1> USE ProductsAssumption
<1> DEFINE q == productJob[r]
<1>1. /\ q \in ProductJob /\ ListsFit(q, madeImages) /\ q.pc = "insert"
      /\ backend = "postgres" /\ HasPrimary(Kept(images, q))
    BY DEF ProductsIInv, ProductRowsOK, CommitLists
<1>2. /\ q.variants \in SUBSET Variant /\ q.images \in SUBSET Image
      /\ q.leftV \in SUBSET (0 .. MaxVariants) /\ q.leftI \in SUBSET (1 .. MaxImages)
    BY <1>1 DEF ProductJob
<1>3. /\ variants' = NewVariants(q) /\ images' = NewImages(q)
      /\ product' \in {product, [product EXCEPT !.version = @ + 1, !.discount = NoDiscount]}
      /\ productJob' = [LeftBy(q) EXCEPT ![r] = NoProductJob]
      /\ backend' = backend /\ madeVariants' = madeVariants /\ madeImages' = madeImages
    BY DEF CommitLists, ProductWritten
<1>4. /\ \A v \in q.variants, w \in variants : w.id \in q.leftV => v.id # w.id /\ v.sku # w.sku
      /\ \A i \in q.images, j \in images : j.id \in q.leftI => i.id # j.id
      /\ DistinctIds(q.variants)
  <2>1. ~Clashes(q)
      OBVIOUS
  <2> HIDE DEF q
  <2> QED
      BY <2>1 DEF Clashes, Ids
<1> HIDE DEF q
<1>5. /\ VariantsFit(variants) /\ ImagesFit(images, madeImages) /\ HasPrimary(images)
      /\ variants # {} /\ variants \in SUBSET Variant /\ images \in SUBSET Image /\ DistinctIds(variants)
    BY <1>1 DEF ProductsIInv, ProductRowsOK
<1>6. variants' \in SUBSET Variant /\ images' \in SUBSET Image
    BY <1>2, <1>3, <1>5 DEF NewVariants, NewImages
<1>7. variants' # {}
    BY <1>1, <1>3, <1>5 DEF NewVariants, ListsFit
<1>8. VariantsFit(variants') /\ DistinctIds(variants')
  <2>1. CASE "variants" \notin q.lists
      BY <2>1, <1>3, <1>5 DEF NewVariants, DistinctIds
  <2>2. CASE "variants" \in q.lists
    <3>1. variants' = q.variants \cup {v \in variants : v.id \in q.leftV}
        BY <2>2, <1>3 DEF NewVariants
    <3>2. VariantsFit(q.variants)
        BY <1>1 DEF ListsFit
    <3>3. IsFiniteSet({v \in variants : v.id \in q.leftV})
        BY <1>5, FS_Subset DEF VariantsFit
    <3>4. IsFiniteSet(variants')
        BY <3>1, <3>2, <3>3, FS_Union DEF VariantsFit
    <3>5. \A v, w \in variants' : v.sku = w.sku => v = w
        BY <3>1, <3>2, <1>4, <1>5 DEF VariantsFit
    <3>6. \A v, w \in variants' : v.id = w.id => v = w
        BY <3>1, <1>4, <1>5 DEF DistinctIds
    <3> QED
        BY <3>4, <3>5, <3>6 DEF VariantsFit, DistinctIds
  <2> QED
      BY <2>1, <2>2
<1>9. images' = q.images \cup Kept(images, q) \/ (images' = images /\ q.images = {})
  <2>1. "images" \notin q.lists => q.images = {}
      BY <1>1 DEF ListsFit
  <2>2. NewImages(q) = IF "images" \in q.lists THEN q.images \cup Kept(images, q) ELSE images
      BY DEF NewImages, Kept
  <2>3. images' = NewImages(q)
      BY <1>3
  <2>4. CASE "images" \in q.lists
      BY <2>2, <2>3, <2>4
  <2>5. CASE "images" \notin q.lists
      BY <2>1, <2>2, <2>3, <2>5
  <2> QED
      BY <2>4, <2>5
<1>10. ImagesFit(images', madeImages)
  <2>1. ImagesFit(q.images, madeImages)
      BY <1>1 DEF ListsFit
  <2> QED
      BY <2>1, <1>4, <1>5, <1>9 DEF ImagesFit, Kept
<1>11. HasPrimary(images')
  <2>1. HasPrimary(q.images)
      BY <1>1 DEF ListsFit
  <2> QED
      BY <2>1, <1>1, <1>5, <1>9 DEF HasPrimary
<1>12. product' \in ProductRecord
  <2>1. product \in ProductRecord
      BY DEF ProductsIInv, ProductRowsOK
  <2>2. [product EXCEPT !.version = @ + 1, !.discount = NoDiscount] \in ProductRecord
      BY <2>1, ProductReplaced
  <2> QED
      BY <2>1, <2>2, <1>3
<1>13. Ids(q.variants) \in SUBSET (0 .. MaxVariants) /\ Ids(q.images) \in SUBSET (1 .. MaxImages)
    BY <1>2 DEF Ids, Variant, Image
<1>14. ASSUME NEW o \in Requests
       PROVE  /\ productJob[o].pc = "insert" /\ o # r =>
                    productJob'[o] = [productJob[o] EXCEPT !.leftV = @ \cup Ids(q.variants),
                                                           !.leftI = @ \cup Ids(q.images)]
              /\ productJob[o].pc # "insert" /\ o # r => productJob'[o] = productJob[o]
              /\ o = r => productJob'[o] = NoProductJob
    BY <1>3 DEF LeftBy
<1>15. ASSUME NEW o \in Requests, productJob[o].pc = "insert", o # r
       PROVE  /\ productJob'[o] \in ProductJob /\ productJob'[o].pc = "insert"
              /\ productJob'[o].leftI = productJob[o].leftI \cup Ids(q.images)
              /\ productJob'[o].lists = productJob[o].lists /\ productJob'[o].variants = productJob[o].variants
              /\ productJob'[o].images = productJob[o].images
  <2> DEFINE j == productJob[o]
  <2>1. j \in ProductJob
      BY DEF ProductsIInv, ProductRowsOK
  <2>2. productJob'[o] = [j EXCEPT !.leftV = @ \cup Ids(q.variants), !.leftI = @ \cup Ids(q.images)]
      BY <1>14, <1>15
  <2>3. j.leftV \cup Ids(q.variants) \in SUBSET (0 .. MaxVariants) /\ j.leftI \cup Ids(q.images) \in SUBSET (1 .. MaxImages)
      BY <2>1, <1>13 DEF ProductJob
  <2>4. j.pc = "insert"
      BY <1>15
  <2> HIDE DEF j
  <2>5. /\ [j EXCEPT !.leftV = @ \cup Ids(q.variants), !.leftI = @ \cup Ids(q.images)] \in ProductJob
        /\ LET k == [j EXCEPT !.leftV = @ \cup Ids(q.variants), !.leftI = @ \cup Ids(q.images)] IN
               /\ k.pc = j.pc /\ k.lists = j.lists /\ k.variants = j.variants /\ k.images = j.images
               /\ k.leftI = j.leftI \cup Ids(q.images)
      BY <2>1, <2>3 DEF ProductJob
  <2> QED
      BY <2>2, <2>4, <2>5 DEF j
<1>16. productJob' \in [Requests -> ProductJob]
  <2>1. \A o \in Requests : productJob'[o] \in ProductJob
      BY <1>14, <1>15, IdleProductJob DEF ProductsIInv, ProductRowsOK
  <2> QED
      BY <2>1, <1>3 DEF LeftBy
<1>17. ASSUME NEW o \in Requests PROVE ListsFit(productJob'[o], madeImages)
  <2>0. ListsFit(productJob[o], madeImages) /\ madeVariants \in Nat /\ madeImages \in Nat
      BY DEF ProductsIInv, ProductRowsOK
  <2>1. CASE o = r
    <3>1. productJob'[o] = NoProductJob
        BY <2>1, <1>14
    <3> QED
        BY <2>0, <3>1, IdleProductJob
  <2>2. CASE o # r /\ productJob[o].pc # "insert"
      BY <2>0, <2>2, <1>14
  <2>3. CASE o # r /\ productJob[o].pc = "insert"
      BY <2>0, <2>3, <1>15 DEF ListsFit
  <2> QED
      BY <2>1, <2>2, <2>3
<1>18. ASSUME NEW o \in Requests, productJob'[o].pc = "insert"
       PROVE  o # r /\ productJob[o].pc = "insert"
    BY <1>14, <1>18, IdleProductJob
<1>19. ASSUME NEW o \in Requests, productJob'[o].pc = "insert"
       PROVE  HasPrimary(Kept(images', productJob'[o]))
  <2>1. o # r /\ productJob[o].pc = "insert" /\ productJob'[o].leftI = productJob[o].leftI \cup Ids(q.images)
      BY <1>15, <1>18, <1>19
  <2>2. HasPrimary(Kept(images, productJob[o]))
      BY <2>1 DEF ProductsIInv
  <2>3. CASE images' = images /\ q.images = {}
    <3>1. Ids(q.images) = {}
        BY <2>3 DEF Ids
    <3> QED
        BY <2>1, <2>2, <2>3, <3>1 DEF Kept
  <2>4. CASE images' = q.images \cup Kept(images, q)
    <3>1. \A i \in q.images : i.id \in Ids(q.images)
        BY DEF Ids
    <3>2. \A j \in Kept(images, q) : j.id \notin Ids(q.images)
        BY <1>4 DEF Kept, Ids
    <3>3. Kept(images', productJob'[o]) = q.images \cup {j \in images : j.id \in q.leftI /\ j.id \in productJob[o].leftI}
        BY <2>1, <2>4, <3>1, <3>2 DEF Kept
    <3>4. q.leftI \subseteq productJob[o].leftI \/ productJob[o].leftI \subseteq q.leftI
        BY <2>1, <1>1 DEF ProductsIInv, q
    <3>5. Kept(images', productJob'[o]) \in {q.images \cup Kept(images, q), q.images \cup Kept(images, productJob[o])}
        BY <3>3, <3>4 DEF Kept
    <3>6. HasPrimary(q.images)
        BY <1>1 DEF ListsFit
    <3> QED
        BY <2>2, <3>5, <3>6, <1>1 DEF HasPrimary
  <2> QED
      BY <2>3, <2>4, <1>9
<1>20. ASSUME NEW x \in Requests, NEW o \in Requests, productJob'[x].pc = "insert", productJob'[o].pc = "insert"
       PROVE  \/ productJob'[x].leftI \subseteq productJob'[o].leftI
              \/ productJob'[o].leftI \subseteq productJob'[x].leftI
  <2>1. /\ productJob[x].pc = "insert" /\ productJob'[x].leftI = productJob[x].leftI \cup Ids(q.images)
        /\ productJob[o].pc = "insert" /\ productJob'[o].leftI = productJob[o].leftI \cup Ids(q.images)
      BY <1>15, <1>18, <1>20
  <2>2. \/ productJob[x].leftI \subseteq productJob[o].leftI
        \/ productJob[o].leftI \subseteq productJob[x].leftI
      BY <2>1 DEF ProductsIInv
  <2> QED
      BY <2>1, <2>2
<1>21. ProductRowsOK'
    BY <1>3, <1>6, <1>12, <1>16 DEF ProductsIInv, ProductRowsOK
<1> QED
    BY <1>1, <1>3, <1>7, <1>8, <1>10, <1>11, <1>17, <1>19, <1>20, <1>21 DEF ProductsIInv

\* A request puts a list of variants, or of images, that may be stored.
LEMMA VariantsPut ==
    ASSUME ProductsIInv, NEW r \in Requests, NEW vs \in SUBSET Variant, PutVariants(r, vs), vs # {},
           madeVariants' \in madeVariants .. MaxVariants, VariantsFit(vs)
    PROVE  ProductsIInv'
<1> DEFINE q == [NoProductJob EXCEPT !.pc = "put", !.lists = {"variants"}, !.variants = vs]
<1>0. /\ NoProductJob \in ProductJob /\ NoProductJob.whole = FALSE /\ NoProductJob.images = {}
      /\ NoProductJob.leftV = {} /\ NoProductJob.leftI = {}
    BY IdleProductJob DEF NoProductJob
<1>1. /\ q \in ProductJob /\ q.pc = "put" /\ q.lists = {"variants"} /\ q.images = {} /\ q.variants = vs
      /\ q.leftV = {} /\ q.leftI = {}
  <2>1. SUFFICES \A j \in ProductJob :
            LET e == [j EXCEPT !.pc = "put", !.lists = {"variants"}, !.variants = vs]
            IN  e \in ProductJob /\ e.pc = "put" /\ e.lists = {"variants"} /\ e.images = j.images /\ e.variants = vs
                /\ e.leftV = j.leftV /\ e.leftI = j.leftI
      BY <1>0
  <2> QED
      BY DEF ProductJob
<1>2. /\ productJob' = [productJob EXCEPT ![r] = q] /\ backend' = backend /\ UNCHANGED ProductData
      /\ madeImages' = madeImages
    BY DEF PutVariants, EnterProduct
<1> HIDE DEF q
<1>4. ListsFit(q, madeImages')
    BY <1>1 DEF ListsFit, ImagesFit, HasPrimary
<1>5. madeImages' \in madeImages .. MaxImages
    BY <1>2, ProductsAssumption DEF ProductsIInv, ProductRowsOK
<1> QED
    BY <1>1, <1>2, <1>4, <1>5, ProductJobMoves

\* A request that puts a list of images.
LEMMA ImagesPut ==
    ASSUME ProductsIInv, NEW r \in Requests, NEW is \in SUBSET Image, PutImages(r, is), HasPrimary(is),
           madeImages' \in madeImages .. MaxImages, ImagesFit(is, madeImages')
    PROVE  ProductsIInv'
<1> DEFINE q == [NoProductJob EXCEPT !.pc = "put", !.lists = {"images"}, !.images = is]
<1>0. /\ NoProductJob \in ProductJob /\ NoProductJob.whole = FALSE /\ NoProductJob.variants = {}
      /\ NoProductJob.leftV = {} /\ NoProductJob.leftI = {}
    BY IdleProductJob DEF NoProductJob
<1>1. /\ q \in ProductJob /\ q.pc = "put" /\ q.lists = {"images"} /\ q.variants = {} /\ q.images = is
      /\ q.leftV = {} /\ q.leftI = {}
  <2>1. SUFFICES \A j \in ProductJob :
            LET e == [j EXCEPT !.pc = "put", !.lists = {"images"}, !.images = is]
            IN  e \in ProductJob /\ e.pc = "put" /\ e.lists = {"images"} /\ e.variants = j.variants /\ e.images = is
                /\ e.leftV = j.leftV /\ e.leftI = j.leftI
      BY <1>0
  <2> QED
      BY DEF ProductJob
<1>2. /\ productJob' = [productJob EXCEPT ![r] = q] /\ backend' = backend /\ UNCHANGED ProductData
      /\ madeVariants' = madeVariants
    BY DEF PutImages, EnterProduct
<1> HIDE DEF q
<1>4. ListsFit(q, madeImages')
    BY <1>1, FS_EmptySet DEF ListsFit, VariantsFit
<1>5. madeVariants' \in madeVariants .. MaxVariants
    BY <1>2, ProductsAssumption DEF ProductsIInv, ProductRowsOK
<1> QED
    BY <1>1, <1>2, <1>4, <1>5, ProductJobMoves

\* A request ends and nothing was written.
LEMMA ProductRefusals ==
    ASSUME ProductsIInv, NEW r \in Requests, ProductRefused(r), backend' = backend,
           madeVariants' = madeVariants, madeImages' = madeImages
    PROVE  ProductsIInv'
<1>1. productJob' = [productJob EXCEPT ![r] = NoProductJob] /\ UNCHANGED ProductData
    BY DEF ProductRefused, EndProduct
<1>2. /\ madeVariants \in Nat /\ madeVariants' \in madeVariants .. MaxVariants
      /\ madeImages \in Nat /\ madeImages' \in madeImages .. MaxImages
    BY ProductsAssumption DEF ProductsIInv, ProductRowsOK
<1>3. NoProductJob \in ProductJob /\ NoProductJob.pc # "insert" /\ ListsFit(NoProductJob, madeImages')
    BY <1>2, IdleProductJob
<1> QED
    BY <1>1, <1>2, <1>3, ProductJobMoves

\* The step of a request goes on and its lists stay.
LEMMA ProductStepMoves ==
    ASSUME ProductsIInv, NEW r \in Requests, NEW pc \in {"insert", "conflict"}, pc = "insert" => backend = "postgres",
           productJob[r].pc \in {"put", "update"}, productJob' = [productJob EXCEPT ![r].pc = pc],
           UNCHANGED ProductData, backend' = backend, madeVariants' = madeVariants, madeImages' = madeImages
    PROVE  ProductsIInv'
<1> DEFINE q == productJob[r]
           p == [q EXCEPT !.pc = pc]
<1>1. q \in ProductJob /\ ListsFit(q, madeImages) /\ q.pc \in {"put", "update"}
    BY DEF ProductsIInv, ProductRowsOK
<1>2. productJob' = [productJob EXCEPT ![r] = p]
    BY DEF ProductsIInv, ProductRowsOK
<1>3. /\ madeVariants' \in madeVariants .. MaxVariants /\ madeImages' \in madeImages .. MaxImages
    BY ProductsAssumption DEF ProductsIInv, ProductRowsOK
<1> HIDE DEF q
<1>4. /\ p \in ProductJob /\ p.pc = pc /\ p.leftI = q.leftI /\ p.leftV = q.leftV /\ p.lists = q.lists
      /\ p.variants = q.variants /\ p.images = q.images
    BY <1>1 DEF ProductJob
<1> HIDE DEF p
<1>5. ListsFit(p, madeImages') /\ p.leftI = {}
    BY <1>1, <1>4 DEF ListsFit
<1> QED
    BY <1>2, <1>3, <1>4, <1>5, ProductJobMoves

\* The list of a request is put: the transaction goes on, or the document has it.
LEMMA KeepsPutList ==
    ASSUME ProductsIInv, NEW r \in Requests, PutList(r)
    PROVE  ProductsIInv'
<1> DEFINE q == productJob[r]
<1>0. /\ q \in ProductJob /\ q.pc = "put" /\ ListsFit(q, madeImages)
      /\ backend' = backend /\ madeVariants' = madeVariants /\ madeImages' = madeImages
    BY DEF PutList, ProductsIInv, ProductRowsOK
<1>1. CASE backend # "mongo"
  <2>1. PgPutList(r) /\ backend = "postgres"
      BY <1>1 DEF PutList, On, ProductsIInv, ProductRowsOK, Backends
  <2>2. productJob' = [productJob EXCEPT ![r].pc = "insert"] /\ UNCHANGED ProductData
      BY <2>1 DEF PgPutList
  <2> QED
      BY <1>0, <2>1, <2>2, ProductStepMoves
<1>2. CASE backend = "mongo" /\ ~Live
  <2>1. ProductRefused(r)
      BY <1>2 DEF PutList, On, MgPutList
  <2> QED
      BY <1>0, <2>1, ProductRefusals
<1>3. CASE backend = "mongo" /\ Live
  <2>1. /\ variants' = NewVariants(q) /\ images' = NewImages(q) /\ product' = product
        /\ productJob' = [productJob EXCEPT ![r] = NoProductJob]
      BY <1>3 DEF PutList, On, MgPutList, ProductWritten
  <2> HIDE DEF q
  <2>2. /\ q.leftV = {} /\ q.leftI = {} /\ q.variants \in SUBSET Variant /\ q.images \in SUBSET Image
        /\ VariantsFit(q.variants) /\ ImagesFit(q.images, madeImages) /\ HasPrimary(q.images)
        /\ "variants" \in q.lists => q.variants # {}
      BY <1>0 DEF ListsFit, ProductJob
  <2>3. /\ variants' = IF "variants" \in q.lists THEN q.variants ELSE variants
        /\ images' = IF "images" \in q.lists THEN q.images ELSE images
      BY <2>1, <2>2 DEF NewVariants, NewImages
  <2>4. /\ VariantsFit(variants) /\ ImagesFit(images, madeImages) /\ HasPrimary(images)
        /\ variants # {} /\ variants \in SUBSET Variant /\ images \in SUBSET Image
        /\ product \in ProductRecord /\ madeVariants \in 0 .. MaxVariants
        /\ productJob \in [Requests -> ProductJob]
      BY <1>3 DEF ProductsIInv, ProductRowsOK
  <2>5. /\ variants' \in SUBSET Variant /\ variants' # {} /\ VariantsFit(variants')
      BY <2>2, <2>3, <2>4
  <2>6. /\ images' \in SUBSET Image /\ ImagesFit(images', madeImages) /\ HasPrimary(images')
      BY <2>2, <2>3, <2>4
  <2>7. /\ productJob' \in [Requests -> ProductJob]
        /\ \A o \in Requests : productJob'[o] \in {productJob[o], NoProductJob}
      BY <2>1, <2>4, IdleProductJob
  <2>8. madeVariants' \in madeVariants .. MaxVariants /\ product' \in ProductRecord
      BY <1>0, <2>1, <2>4, ProductsAssumption
  <2> QED
      BY <1>0, <1>3, <2>5, <2>6, <2>7, <2>8, TablesWritten
<1> QED
    BY <1>1, <1>2, <1>3

\* An update of the whole product is refused, conflicts, deletes the rows or sets the document.
LEMMA KeepsUpdateProductRow ==
    ASSUME ProductsIInv, NEW r \in Requests, UpdateProductRow(r)
    PROVE  ProductsIInv'
<1> DEFINE q == productJob[r]
<1>0. /\ q \in ProductJob /\ q.pc = "update" /\ ListsFit(q, madeImages)
      /\ backend' = backend /\ madeVariants' = madeVariants /\ madeImages' = madeImages
    BY DEF UpdateProductRow, ProductsIInv, ProductRowsOK
<1>1. CASE ProductRefused(r)
    BY <1>0, <1>1, ProductRefusals
<1>2. CASE productJob' = [productJob EXCEPT ![r].pc = "conflict"] /\ UNCHANGED ProductData
    BY <1>0, <1>2, ProductStepMoves
<1>3. CASE backend # "mongo" /\ productJob' = [productJob EXCEPT ![r].pc = "insert"] /\ UNCHANGED ProductData
  <2>1. backend = "postgres"
      BY <1>3 DEF ProductsIInv, ProductRowsOK, Backends
  <2> QED
      BY <1>0, <1>3, <2>1, ProductStepMoves
<1>4. CASE /\ backend = "mongo" /\ product' = [product EXCEPT !.version = PayloadVersion + 1, !.discount = NoDiscount]
           /\ variants' = q.variants /\ images' = q.images /\ productJob' = [productJob EXCEPT ![r] = NoProductJob]
  <2>1. /\ product \in ProductRecord /\ madeVariants \in 0 .. MaxVariants /\ productJob \in [Requests -> ProductJob]
      BY DEF ProductsIInv, ProductRowsOK
  <2>2. product' \in ProductRecord
    <3>1. PayloadVersion + 1 \in Nat
        BY DEF PayloadVersion
    <3> QED
        BY <1>4, <2>1, <3>1, ProductReplaced
  <2>3. /\ q.variants \in SUBSET Variant /\ q.images \in SUBSET Image /\ q.variants # {}
        /\ VariantsFit(q.variants) /\ ImagesFit(q.images, madeImages) /\ HasPrimary(q.images)
    <3> HIDE DEF q
    <3> QED
        BY <1>0 DEF ListsFit, ProductJob
  <2>4. /\ productJob' \in [Requests -> ProductJob]
        /\ \A o \in Requests : productJob'[o] \in {productJob[o], NoProductJob}
      BY <1>4, <2>1, IdleProductJob
  <2>5. madeVariants' \in madeVariants .. MaxVariants
      BY <1>0, <2>1, ProductsAssumption
  <2> HIDE DEF q
  <2> QED
      BY <1>0, <1>4, <2>2, <2>3, <2>4, <2>5, TablesWritten
<1> QED
  <2>1. CASE backend = "mongo"
    <3>1. MgUpdateProduct(r, PayloadVersion)
        BY <2>1 DEF UpdateProductRow, On
    <3> QED
        BY <2>1, <3>1, <1>1, <1>2, <1>4 DEF MgUpdateProduct, ProductWritten, ProductData
  <2>2. CASE backend # "mongo"
    <3>1. PgUpdateProduct(r, PayloadVersion)
        BY <2>2 DEF UpdateProductRow, On
    <3>2. CASE ~Live
        BY <3>1, <3>2, <1>1 DEF PgUpdateProduct
    <3>3. CASE Live /\ product.version = PayloadVersion
        BY <2>2, <3>1, <3>3, <1>3 DEF PgUpdateProduct
    <3>4. CASE Live /\ product.version # PayloadVersion
        BY <3>1, <3>4, <1>2 DEF PgUpdateProduct
    <3> QED
        BY <3>2, <3>3, <3>4
  <2> QED
      BY <2>1, <2>2

\* The rows of a transaction go in, or it is refused.
LEMMA KeepsCommitLists ==
    ASSUME ProductsIInv, NEW r \in Requests, CommitLists(r)
    PROVE  ProductsIInv'
<1>1. CASE ~Live \/ Clashes(productJob[r])
  <2>1. ProductRefused(r) /\ backend' = backend /\ madeVariants' = madeVariants /\ madeImages' = madeImages
      BY <1>1 DEF CommitLists
  <2> QED
      BY <2>1, ProductRefusals
<1> QED
    BY <1>1, ListsCommitted

\* What the rows are, and the lists the commands read.
LEMMA ProductRows ==
    ASSUME ProductsIInv
    PROVE  /\ product \in ProductRecord /\ variants \in SUBSET Variant /\ images \in SUBSET Image
           /\ madeVariants \in 0 .. MaxVariants /\ madeImages \in 0 .. MaxImages
           /\ VariantsFit(variants) /\ ImagesFit(images, madeImages) /\ HasPrimary(images)
           /\ (backend = "postgres" => DistinctIds(variants))
           /\ productJob \in [Requests -> ProductJob] /\ MaxVariants \in Nat /\ MaxImages \in Nat
    BY ProductsAssumption DEF ProductsIInv, ProductRowsOK

\* A command that edits the list of the variants.
LEMMA KeepsHandleUpdate ==
    ASSUME ProductsIInv, NEW r \in Requests, HandleUpdate(r)
    PROVE  ProductsIInv'
<1>1. PICK vs \in UpdatePayloads :
        /\ ValidateProduct(vs)
        /\ productJob' = [productJob EXCEPT ![r] =
              [NoProductJob EXCEPT !.pc = "update", !.lists = {"variants", "images"}, !.whole = TRUE, !.variants = vs]]
        /\ backend' = backend /\ UNCHANGED ProductData
        /\ madeVariants' = madeVariants /\ madeImages' = madeImages
    BY DEF HandleUpdate, UpdateProduct, EnterProduct
<1> DEFINE q == [NoProductJob EXCEPT !.pc = "update", !.lists = {"variants", "images"}, !.whole = TRUE, !.variants = vs]
<1>2. 0 .. madeVariants \subseteq 0 .. MaxVariants
    BY ProductRows
<1>3. vs \in SUBSET Variant /\ vs # {} /\ VariantsFit(vs)
    BY <1>1, <1>2, PayloadFits DEF UpdatePayloads
<1>4. /\ NoProductJob \in ProductJob /\ NoProductJob.images = {}
      /\ NoProductJob.leftV = {} /\ NoProductJob.leftI = {}
    BY IdleProductJob DEF NoProductJob
<1>5. /\ q \in ProductJob /\ q.pc = "update" /\ q.lists = {"variants", "images"} /\ q.images = {} /\ q.variants = vs
      /\ q.leftV = {} /\ q.leftI = {}
  <2>1. SUFFICES \A j \in ProductJob :
            LET e == [j EXCEPT !.pc = "update", !.lists = {"variants", "images"}, !.whole = TRUE, !.variants = vs]
            IN  e \in ProductJob /\ e.pc = "update" /\ e.lists = {"variants", "images"} /\ e.images = j.images
                /\ e.variants = vs /\ e.leftV = j.leftV /\ e.leftI = j.leftI
      BY <1>4
  <2> QED
      BY <1>3 DEF ProductJob
<1> HIDE DEF q
<1>6. ListsFit(q, madeImages')
    BY <1>1, <1>3, <1>5 DEF ListsFit, ImagesFit, HasPrimary
<1>7. madeVariants' \in madeVariants .. MaxVariants /\ madeImages' \in madeImages .. MaxImages
    BY <1>1, ProductRows
<1> QED
    BY <1>1, <1>5, <1>6, <1>7, ProductJobMoves DEF q

\* A variant is added, changed or removed.
LEMMA KeepsAddVariant ==
    ASSUME ProductsIInv, NEW r \in Requests, HandleAddVariant(r)
    PROVE  ProductsIInv'
<1>1. PICK sku \in Skus, n \in StockLevels :
        LET new == variants \cup {[id |-> madeVariants + 1, sku |-> sku, stock |-> n]} IN
        /\ madeVariants < MaxVariants /\ ValidateVariants(new)
        /\ madeVariants' = madeVariants + 1 /\ PutVariants(r, new)
    BY DEF HandleAddVariant, AddVariant
<1> DEFINE v == [id |-> madeVariants + 1, sku |-> sku, stock |-> n]
           new == variants \cup {v}
<1>2. v \in Variant
    BY <1>1, ProductRows DEF Variant
<1>4. new \in SUBSET Variant /\ new # {} /\ IsFiniteSet(new)
    BY <1>2, ProductRows, FS_AddElement DEF VariantsFit
<1>5. madeVariants' \in madeVariants .. MaxVariants /\ madeVariants' = madeVariants + 1
    BY <1>1, ProductRows
<1>6. ValidateVariants(new) /\ PutVariants(r, new)
    BY <1>1
<1> HIDE DEF new
<1>7. \A w, u \in new : w.sku = u.sku => w = u
    BY <1>4, <1>6, ValidVariants
<1>8. VariantsFit(new)
    BY <1>4, <1>7 DEF VariantsFit
<1> QED
    BY <1>4, <1>5, <1>6, <1>8, VariantsPut

\* A variant is changed in the list that was read.
LEMMA KeepsUpdateVariant ==
    ASSUME ProductsIInv, NEW r \in Requests, HandleUpdateVariant(r)
    PROVE  ProductsIInv'
<1>1. PICK old \in variants, sku \in Skus :
        LET new == (variants \ {old}) \cup {[id |-> old.id, sku |-> sku, stock |-> 0]} IN
        ValidateVariants(new) /\ PutVariants(r, new) /\ madeVariants' = madeVariants
    BY DEF HandleUpdateVariant, UpdateVariant
<1> DEFINE v == [id |-> old.id, sku |-> sku, stock |-> 0]
           new == (variants \ {old}) \cup {v}
<1>2. old \in Variant
    BY ProductRows
<1>3. v \in Variant
    BY <1>2, ProductsAssumption DEF Variant
<1>4. new \in SUBSET Variant /\ new # {} /\ IsFiniteSet(new)
    BY <1>3, ProductRows, FS_AddElement, FS_RemoveElement DEF VariantsFit
<1>5. madeVariants' \in madeVariants .. MaxVariants /\ madeVariants' = madeVariants
    BY <1>1, ProductRows
<1>6. ValidateVariants(new) /\ PutVariants(r, new)
    BY <1>1
<1> HIDE DEF new
<1>7. \A w, u \in new : w.sku = u.sku => w = u
    BY <1>4, <1>6, ValidVariants
<1>8. VariantsFit(new)
    BY <1>4, <1>7 DEF VariantsFit
<1> QED
    BY <1>4, <1>5, <1>6, <1>8, VariantsPut

\* A variant is taken from the list that was read.
LEMMA KeepsDeleteVariant ==
    ASSUME ProductsIInv, NEW r \in Requests, HandleDeleteVariant(r)
    PROVE  ProductsIInv'
<1>1. PICK v \in variants :
        /\ Cardinality(variants) > 1 /\ PutVariants(r, variants \ {v}) /\ madeVariants' = madeVariants
    BY DEF HandleDeleteVariant, DeleteVariant
<1>2. variants \ {v} # {}
  <2>1. SUFFICES ASSUME variants = {v} PROVE FALSE
      OBVIOUS
  <2>2. Cardinality(variants) = 1
      BY <2>1, FS_Singleton
  <2> QED
      BY <1>1, <2>2
<1>3. variants \ {v} \in SUBSET Variant /\ VariantsFit(variants \ {v})
    BY ProductRows, FS_RemoveElement DEF VariantsFit
<1>4. madeVariants' \in madeVariants .. MaxVariants
    BY <1>1, ProductRows
<1> QED
    BY <1>1, <1>2, <1>3, <1>4, VariantsPut

\* Images are registered, one is deleted, one becomes the primary one.
LEMMA KeepsRegisterImages ==
    ASSUME ProductsIInv, NEW r \in Requests, HandleRegisterImages(r)
    PROVE  ProductsIInv'
<1>1. PICK n \in {madeImages + 1, madeImages + 2}, flags \in [madeImages + 1 .. madeImages + 2 -> BOOLEAN] :
        LET new == {[id |-> i, primary |-> flags[i] \/ (images = {} /\ i = madeImages + 1)] : i \in madeImages + 1 .. n}
        IN  n <= MaxImages /\ madeImages' = n /\ PutImages(r, images \cup new)
    BY DEF HandleRegisterImages, RegisterUploadedImages
<1> DEFINE row(i) == [id |-> i, primary |-> flags[i] \/ (images = {} /\ i = madeImages + 1)]
           new == {row(i) : i \in madeImages + 1 .. n}
<1>2. madeImages \in Nat /\ n \in Nat /\ madeImages < n /\ n <= MaxImages /\ MaxImages \in Nat /\ madeImages' = n
      /\ PutImages(r, images \cup new)
    BY <1>1, ProductRows
<1>3. ASSUME NEW i \in madeImages + 1 .. n PROVE row(i) \in Image /\ row(i).id = i /\ (images = {} /\ i = madeImages + 1 => row(i).primary)
  <2>1. i \in 1 .. MaxImages
      BY <1>2
  <2>2. (flags[i] \/ (images = {} /\ i = madeImages + 1)) \in BOOLEAN
      OBVIOUS
  <2> QED
      BY <2>1, <2>2 DEF Image
<1>4. \A i \in images : i.id \in Nat /\ i.id <= madeImages
    BY ProductRows DEF Image, ImagesFit
<1> HIDE DEF row
<1>5. \A i, j \in images \cup new : i.id = j.id => i = j
    BY <1>2, <1>3, <1>4, ProductRows DEF ImagesFit
<1>6. \A i \in images \cup new : i.id <= n
    BY <1>2, <1>3, <1>4
<1>7. HasPrimary(images \cup new)
  <2>1. CASE images = {}
    <3>1. madeImages + 1 \in madeImages + 1 .. n
        BY <1>2
    <3> QED
        BY <2>1, <3>1, <1>3 DEF HasPrimary
  <2>2. CASE images # {}
      BY <2>2, ProductRows DEF HasPrimary
  <2> QED
      BY <2>1, <2>2
<1>8. images \cup new \in SUBSET Image
    BY <1>3, ProductRows
<1>9. madeImages' \in madeImages .. MaxImages
    BY <1>2
<1> HIDE DEF new
<1>10. ImagesFit(images \cup new, madeImages')
    BY <1>2, <1>5, <1>6 DEF ImagesFit
<1> QED
    BY <1>2, <1>7, <1>8, <1>9, <1>10, ImagesPut

\* An image is taken from the list that was read.
LEMMA KeepsDeleteImage ==
    ASSUME ProductsIInv, NEW r \in Requests, HandleDeleteImage(r)
    PROVE  ProductsIInv'
<1>1. PICK i \in images :
        /\ madeImages' = madeImages
        /\ IF i.primary /\ images \ {i} # {}
           THEN \E first \in images \ {i} :
                    PutImages(r, ((images \ {i}) \ {first}) \cup {[first EXCEPT !.primary = TRUE]})
           ELSE PutImages(r, images \ {i})
    BY DEF HandleDeleteImage, DeleteImage
<1>2. madeImages' \in madeImages .. MaxImages
    BY <1>1, ProductRows
<1>3. CASE i.primary /\ images \ {i} # {}
  <2>1. PICK first \in images \ {i} : PutImages(r, ((images \ {i}) \ {first}) \cup {[first EXCEPT !.primary = TRUE]})
      BY <1>1, <1>3
  <2> DEFINE top == [first EXCEPT !.primary = TRUE]
             new == ((images \ {i}) \ {first}) \cup {top}
  <2>2. top \in Image /\ top.primary /\ top.id = first.id
      BY ProductRows DEF Image
  <2> HIDE DEF top
  <2>3. new \in SUBSET Image /\ HasPrimary(new) /\ ImagesFit(new, madeImages')
      BY <1>1, <2>2, ProductRows DEF ImagesFit, HasPrimary
  <2> QED
      BY <1>2, <2>1, <2>3, ImagesPut DEF top
<1>4. CASE ~(i.primary /\ images \ {i} # {})
  <2>1. PutImages(r, images \ {i})
      BY <1>1, <1>4
  <2>2. images \ {i} \in SUBSET Image /\ ImagesFit(images \ {i}, madeImages')
      BY <1>1, ProductRows DEF ImagesFit
  <2>3. HasPrimary(images \ {i})
      BY <1>4, ProductRows DEF HasPrimary
  <2> QED
      BY <1>2, <2>1, <2>2, <2>3, ImagesPut
<1> QED
    BY <1>3, <1>4

\* Another image becomes the primary one.
LEMMA KeepsSetPrimary ==
    ASSUME ProductsIInv, NEW r \in Requests, HandleSetPrimary(r)
    PROVE  ProductsIInv'
<1>1. PICK i \in images :
        /\ PutImages(r, {[x EXCEPT !.primary = (x.id = i.id)] : x \in images}) /\ madeImages' = madeImages
    BY DEF HandleSetPrimary, SetPrimaryImage
<1> DEFINE new == {[x EXCEPT !.primary = (x.id = i.id)] : x \in images}
<1>2. ASSUME NEW x \in images
      PROVE  /\ [x EXCEPT !.primary = (x.id = i.id)] \in Image
             /\ [x EXCEPT !.primary = (x.id = i.id)].id = x.id
             /\ [x EXCEPT !.primary = (x.id = i.id)].primary = (x.id = i.id)
    BY ProductRows DEF Image
<1>3. new \in SUBSET Image
    BY <1>2
<1>4. ImagesFit(new, madeImages')
  <2>1. madeImages' = madeImages /\ ImagesFit(images, madeImages)
      BY <1>1, ProductRows
  <2>2. ASSUME NEW n \in new PROVE \E x \in images : n.id = x.id /\ n = [x EXCEPT !.primary = (x.id = i.id)]
    <3>1. PICK x \in images : n = [x EXCEPT !.primary = (x.id = i.id)]
        OBVIOUS
    <3>2. n.id = x.id
        BY <3>1, <1>2
    <3> QED
        BY <3>1, <3>2
  <2>3. \A n \in new : n.id <= madeImages
      BY <2>1, <2>2 DEF ImagesFit
  <2>4. ASSUME NEW n \in new, NEW m \in new, n.id = m.id PROVE n = m
    <3>1. PICK x \in images : n.id = x.id /\ n = [x EXCEPT !.primary = (x.id = i.id)]
        BY <2>2
    <3>2. PICK y \in images : m.id = y.id /\ m = [y EXCEPT !.primary = (y.id = i.id)]
        BY <2>2
    <3>3. x = y
        BY <2>1, <2>4, <3>1, <3>2 DEF ImagesFit
    <3> QED
        BY <3>1, <3>2, <3>3
  <2> QED
      BY <2>1, <2>3, <2>4 DEF ImagesFit
<1>5. HasPrimary(new)
  <2>1. [i EXCEPT !.primary = (i.id = i.id)] \in new /\ [i EXCEPT !.primary = (i.id = i.id)].primary
      BY <1>2
  <2> QED
      BY <2>1 DEF HasPrimary
<1>6. madeImages' \in madeImages .. MaxImages
    BY <1>1, ProductRows
<1> QED
    BY <1>1, <1>3, <1>4, <1>5, <1>6, ImagesPut

\* A request reports a conflict, or fails.
LEMMA KeepsProductEnd ==
    ASSUME ProductsIInv, NEW r \in Requests, ReportConflict(r) \/ FailProduct(r)
    PROVE  ProductsIInv'
    BY ProductRefusals DEF ReportConflict, FailProduct

\* A product is created in one statement, or a bulk of them in none.
LEMMA KeepsProductCreated ==
    ASSUME ProductsIInv, HandleCreate \/ HandleBulkCreate
    PROVE  ProductsIInv'
<1>1. PICK vs \in CreatePayloads :
        /\ AddProduct(vs)
        /\ \/ /\ product' = [product EXCEPT !.life = "live"] /\ variants' = vs /\ UNCHANGED images
              /\ backend = "postgres" => DistinctIds(vs)
           \/ UNCHANGED ProductData
    BY DEF HandleCreate, HandleBulkCreate, CreateRow, BulkCreateRows, On, PgCreateProduct, MgCreateProduct,
           PgBulkCreate, MgBulkCreate
<1> DEFINE ids == {0} \cup (madeVariants + 1 .. MaxVariants)
           n == Cardinality(Generated(vs))
<1>2. /\ vs \in Payload(ids) /\ Generated(vs) = madeVariants + 1 .. madeVariants + n
    BY DEF CreatePayloads
<1>3. ids \subseteq 0 .. MaxVariants
    BY ProductRows
<1>4. /\ product.life = "unborn" /\ ValidateProduct(vs) /\ madeVariants' = madeVariants + n
      /\ madeImages' = madeImages /\ backend' = backend /\ productJob' = productJob
    BY <1>1 DEF AddProduct, Wrote1
<1>5. vs \in SUBSET Variant /\ vs # {} /\ VariantsFit(vs)
    BY <1>2, <1>3, <1>4, PayloadFits
<1>6. n \in Nat
  <2>1. IsFiniteSet(Generated(vs))
    <3> DEFINE id == [v \in vs |-> v.id]
    <3>1. id \in Surjection(vs, Ids(vs)) /\ IsFiniteSet(vs)
        BY <1>5 DEF Surjection, Ids, VariantsFit
    <3>2. IsFiniteSet(Ids(vs))
        BY <3>1, FS_Surjection
    <3> QED
        BY <3>2, FS_Subset DEF Generated
  <2> QED
      BY <2>1, FS_CardinalityType
<1>7. madeVariants + n <= MaxVariants
  <2>1. CASE n = 0
      BY <2>1, ProductRows
  <2>2. CASE n > 0
    <3>1. madeVariants + n \in Generated(vs)
        BY <1>2, <1>6, <2>2, ProductRows
    <3>2. \A i \in Generated(vs) : i \in 0 .. MaxVariants
        BY <1>5 DEF Generated, Ids, Variant
    <3> QED
        BY <3>1, <3>2
  <2> QED
      BY <1>6, <2>1, <2>2
<1> HIDE DEF n
<1>8. \A o \in Requests : productJob'[o] \in {productJob[o], NoProductJob}
    BY <1>4
<1>9. /\ madeVariants' \in madeVariants .. MaxVariants /\ productJob' \in [Requests -> ProductJob]
    BY <1>4, <1>6, <1>7, ProductRows
<1>10. [product EXCEPT !.life = "live"] \in ProductRecord
    BY ProductRows DEF ProductRecord
<1>11. CASE /\ product' = [product EXCEPT !.life = "live"] /\ variants' = vs /\ UNCHANGED images
            /\ backend = "postgres" => DistinctIds(vs)
  <2>1. images' \in SUBSET Image /\ images' \in {images, {}} /\ ImagesFit(images', madeImages) /\ HasPrimary(images')
      BY <1>11, ProductRows
  <2>2. backend = "postgres" => DistinctIds(variants')
      BY <1>11 DEF DistinctIds
  <2> QED
      BY <1>4, <1>5, <1>8, <1>9, <1>10, <1>11, <2>1, <2>2, TablesWritten
<1>12. CASE UNCHANGED ProductData
  <2>1. product' = product /\ variants' = variants /\ images' = images
      BY <1>12 DEF ProductData
  <2>2. ~Live'
      BY <1>4, <2>1 DEF Live
  <2>3. images' \in SUBSET Image /\ images' \in {images, {}} /\ ImagesFit(images', madeImages) /\ HasPrimary(images')
      BY <2>1, ProductRows
  <2>4. backend = "postgres" => DistinctIds(variants')
      BY <2>1, ProductRows DEF DistinctIds
  <2> QED
      BY <1>4, <1>8, <1>9, <2>1, <2>2, <2>3, <2>4, ProductRows, TablesWritten
<1> QED
    BY <1>1, <1>11, <1>12

\* A product is replaced in bulk.
LEMMA KeepsBulkUpdate ==
    ASSUME ProductsIInv, HandleBulkUpdate
    PROVE  ProductsIInv'
<1>1. PICK vs \in UpdatePayloads :
        /\ ValidateProduct(vs) /\ Live /\ On(PgBulkUpdate(vs), MgBulkUpdate(vs))
        /\ madeVariants' = madeVariants /\ madeImages' = madeImages
        /\ backend' = backend /\ productJob' = productJob
    BY DEF HandleBulkUpdate, Wrote1
<1>2. 0 .. madeVariants \subseteq 0 .. MaxVariants
    BY ProductRows
<1>3. vs \in SUBSET Variant /\ vs # {} /\ VariantsFit(vs)
    BY <1>1, <1>2, PayloadFits DEF UpdatePayloads
<1>4. /\ madeVariants' \in madeVariants .. MaxVariants /\ productJob' \in [Requests -> ProductJob]
      /\ \A o \in Requests : productJob'[o] \in {productJob[o], NoProductJob}
    BY <1>1, ProductRows
<1>5. CASE backend = "mongo"
  <2>1. /\ product' = [product EXCEPT !.version = PayloadVersion, !.discount = NoDiscount]
        /\ variants' = vs /\ images' = {}
      BY <1>1, <1>5 DEF On, MgBulkUpdate
  <2>2. product' \in ProductRecord
      BY <2>1, ProductRows, ProductReplaced DEF PayloadVersion
  <2>3. ImagesFit({}, madeImages) /\ HasPrimary({})
      BY DEF ImagesFit, HasPrimary
  <2> QED
      BY <1>1, <1>3, <1>4, <1>5, <2>1, <2>2, <2>3, TablesWritten
<1>6. CASE backend # "mongo"
  <2>1. product' = product /\ variants' = variants /\ images' = images
      BY <1>1, <1>6 DEF On, PgBulkUpdate, ProductData
  <2>2. variants # {} /\ (backend = "postgres" => DistinctIds(variants'))
      BY <1>1, <2>1, ProductRows DEF ProductsIInv, DistinctIds
  <2> QED
      BY <1>1, <1>4, <2>1, <2>2, ProductRows, TablesWritten
<1> QED
    BY <1>5, <1>6

\* A product is deleted, alone or in bulk.
LEMMA KeepsProductDeleted ==
    ASSUME ProductsIInv, HandleDelete \/ HandleBulkDelete
    PROVE  ProductsIInv'
<1>1. /\ product' = [product EXCEPT !.life = "deleted"] /\ variants' = {} /\ images' = {}
      /\ madeVariants' = madeVariants /\ madeImages' = madeImages
      /\ backend' = backend /\ productJob' = productJob
    BY DEF HandleDelete, HandleBulkDelete, On, PgDeleteProduct, MgDeleteProduct, PgBulkDelete, MgBulkDelete, Wrote1
<1>2. product' \in ProductRecord /\ product'.life = "deleted"
    BY <1>1, ProductRows DEF ProductRecord
<1>3. ImagesFit({}, madeImages) /\ HasPrimary({}) /\ VariantsFit({}) /\ DistinctIds(variants')
    BY <1>1, FS_EmptySet DEF ImagesFit, HasPrimary, VariantsFit, DistinctIds
<1>4. /\ madeVariants' \in madeVariants .. MaxVariants /\ productJob' \in [Requests -> ProductJob]
      /\ \A o \in Requests : productJob'[o] \in {productJob[o], NoProductJob}
    BY <1>1, ProductRows
<1>5. ~Live'
    BY <1>2 DEF Live
<1> QED
    BY <1>1, <1>2, <1>3, <1>4, <1>5, TablesWritten

\* The discount changes.
LEMMA KeepsDiscount ==
    ASSUME ProductsIInv, HandleApplyDiscount \/ HandleRemoveDiscount
    PROVE  ProductsIInv'
<1>1. PICK d \in Discounts \cup {NoDiscount} :
        /\ Live /\ product' = [product EXCEPT !.discount = d] /\ variants' = variants /\ images' = images
        /\ madeVariants' = madeVariants /\ madeImages' = madeImages
        /\ backend' = backend /\ productJob' = productJob
    BY DEF HandleApplyDiscount, ApplyDiscount, HandleRemoveDiscount, RemoveDiscount, On, PgUpdateDiscount,
           MgUpdateDiscount, Wrote1
<1>2. product' \in ProductRecord
    BY <1>1, ProductRows DEF ProductRecord
<1>3. variants # {} /\ (backend = "postgres" => DistinctIds(variants'))
    BY <1>1, ProductRows DEF ProductsIInv, DistinctIds
<1>4. /\ madeVariants' \in madeVariants .. MaxVariants /\ productJob' \in [Requests -> ProductJob]
      /\ \A o \in Requests : productJob'[o] \in {productJob[o], NoProductJob}
    BY <1>1, ProductRows
<1> QED
    BY <1>1, <1>2, <1>3, <1>4, ProductRows, TablesWritten

\* The stock of a variant changes.
LEMMA KeepsStockEvents ==
    ASSUME ProductsIInv, SubscribeStockEvents
    PROVE  ProductsIInv'
<1>1. PICK n \in StockLevels, W \in SUBSET variants :
        /\ variants' = {IF v \in W THEN [v EXCEPT !.stock = n] ELSE v : v \in variants}
        /\ product' = product /\ images' = images
        /\ madeVariants' = madeVariants /\ madeImages' = madeImages
        /\ backend' = backend /\ productJob' = productJob
  <2>1. PICK id \in Ids(variants), n \in StockLevels :
          /\ On(PgUpdateVariantStock(id, n), MgUpdateVariantStock(id, n)) /\ Wrote1
          /\ UNCHANGED <<product, images, madeVariants, madeImages>>
      BY DEF SubscribeStockEvents
  <2>2. CASE backend = "mongo"
    <3>1. PICK x \in variants : variants' = {IF v = x THEN [v EXCEPT !.stock = n] ELSE v : v \in variants}
        BY <2>1, <2>2 DEF On, MgUpdateVariantStock
    <3> DEFINE W == {x}
    <3>2. W \in SUBSET variants /\ \A v \in variants : v \in W <=> v = x
        OBVIOUS
    <3>3. variants' = {IF v \in W THEN [v EXCEPT !.stock = n] ELSE v : v \in variants}
        BY <3>1
    <3> QED
        BY <2>1, <3>2, <3>3 DEF Wrote1
  <2>3. CASE backend # "mongo"
    <3> DEFINE W == {v \in variants : v.id = id}
    <3>1. variants' = {IF v.id = id THEN [v EXCEPT !.stock = n] ELSE v : v \in variants}
        BY <2>1, <2>3 DEF On, PgUpdateVariantStock
    <3>2. W \in SUBSET variants /\ variants' = {IF v \in W THEN [v EXCEPT !.stock = n] ELSE v : v \in variants}
        BY <3>1
    <3> QED
        BY <2>1, <3>2 DEF Wrote1
  <2> QED
      BY <2>2, <2>3
<1> DEFINE set(v) == IF v \in W THEN [v EXCEPT !.stock = n] ELSE v
<1>2. ASSUME NEW v \in variants PROVE set(v) \in Variant /\ set(v).id = v.id /\ set(v).sku = v.sku
    BY ProductRows DEF Variant
<1>3. variants' = {set(v) : v \in variants}
    BY <1>1
<1> HIDE DEF set
<1>4. IsFiniteSet(variants')
  <2>1. IsFiniteSet(variants)
      BY ProductRows DEF VariantsFit
  <2> DEFINE f == [v \in variants |-> set(v)]
  <2>2. f \in Surjection(variants, variants')
      BY <1>3 DEF Surjection
  <2> QED
      BY <2>1, <2>2, FS_Surjection
<1>5. variants' \in SUBSET Variant /\ VariantsFit(variants')
    BY <1>2, <1>3, <1>4, ProductRows DEF VariantsFit
<1>6. backend = "postgres" => DistinctIds(variants')
    BY <1>2, <1>3, ProductRows DEF DistinctIds
<1>7. Live' => variants' # {}
    BY <1>1, <1>3 DEF Live, ProductsIInv
<1>8. /\ madeVariants' \in madeVariants .. MaxVariants /\ productJob' \in [Requests -> ProductJob]
      /\ \A o \in Requests : productJob'[o] \in {productJob[o], NoProductJob}
    BY <1>1, ProductRows
<1> QED
    BY <1>1, <1>5, <1>6, <1>7, <1>8, ProductRows, TablesWritten

\* The invariant holds at first, every step keeps it, and it implies the property.
LEMMA ProductsStart == ProductsInit => ProductsIInv
<1> SUFFICES ASSUME ProductsInit PROVE ProductsIInv
    OBVIOUS
<1>1. \A r \in Requests : productJob[r] = NoProductJob
    BY DEF ProductsInit
<1>2. ProductRowsOK /\ ~Live
    BY IdleProductJob, ProductsAssumption DEF ProductsInit, ProductRowsOK, ProductRecord, Live
<1>3. VariantsFit(variants) /\ ImagesFit(images, madeImages) /\ HasPrimary(images)
      /\ DistinctIds(variants)
    BY FS_EmptySet DEF ProductsInit, VariantsFit, ImagesFit, HasPrimary, DistinctIds
<1>4. \A r \in Requests : ListsFit(productJob[r], madeImages) /\ productJob[r].pc # "insert"
    BY <1>1, IdleProductJob DEF ProductsInit
<1> QED
    BY <1>2, <1>3, <1>4 DEF ProductsIInv

\* Every step keeps the invariant.
LEMMA ProductsKeep == ProductsIInv /\ [ProductsNext]_productsVars => ProductsIInv'
<1> SUFFICES ASSUME ProductsIInv, [ProductsNext]_productsVars PROVE ProductsIInv'
    OBVIOUS
<1>1. ASSUME NEW r \in Requests,
             \/ HandleUpdate(r) \/ HandleAddVariant(r) \/ HandleUpdateVariant(r) \/ HandleDeleteVariant(r)
             \/ HandleRegisterImages(r) \/ HandleDeleteImage(r) \/ HandleSetPrimary(r)
      PROVE  ProductsIInv'
    BY <1>1, KeepsHandleUpdate, KeepsAddVariant, KeepsUpdateVariant, KeepsDeleteVariant, KeepsRegisterImages,
       KeepsDeleteImage, KeepsSetPrimary
<1>2. ASSUME NEW r \in Requests,
             PutList(r) \/ UpdateProductRow(r) \/ CommitLists(r) \/ ReportConflict(r) \/ FailProduct(r)
      PROVE  ProductsIInv'
    BY <1>2, KeepsPutList, KeepsUpdateProductRow, KeepsCommitLists, KeepsProductEnd
<1>3. CASE HandleCreate \/ HandleBulkCreate \/ HandleBulkUpdate \/ HandleDelete \/ HandleBulkDelete
           \/ HandleApplyDiscount \/ HandleRemoveDiscount \/ SubscribeStockEvents
    BY <1>3, KeepsProductCreated, KeepsBulkUpdate, KeepsProductDeleted, KeepsDiscount, KeepsStockEvents
<1>4. CASE UNCHANGED productsVars
  <2>1. backend' = backend /\ product' = product /\ variants' = variants /\ images' = images
        /\ madeVariants' = madeVariants /\ madeImages' = madeImages /\ productJob' = productJob
      BY <1>4 DEF productsVars
  <2> QED
      BY <2>1 DEF ProductsIInv, ProductRowsOK, Live, DistinctIds
<1> QED
    BY <1>1, <1>2, <1>3, <1>4 DEF ProductsNext

\* A live product has a variant, no SKU twice, on Postgres no variant id twice (MongoDB stores one
\* a client sends twice), no image id twice, and a primary image when it has images, whatever
\* edits of its lists race and whatever ids clients choose.
THEOREM ProductsStayWellFormed == ProductsSpec => []ProductWellFormed
<1>1. ProductsIInv => ProductWellFormed
    BY DEF ProductsIInv, ProductWellFormed, VariantsFit, ImagesFit, HasPrimary, DistinctIds
<1> QED
    BY <1>1, ProductsStart, ProductsKeep, PTL DEF ProductsSpec

\* The filters agree on every list of variants with a price and a stock, and for every filter.
LEMMA FiltersAlwaysAgree ==
    ASSUME NEW vs, \A v \in vs : v.price \in Int /\ v.stock \in Nat,
           NEW f, f.inStock \in {"any", "yes", "no"}
    PROVE  /\ f.inStock = "any" /\ f.attrs = {} => (PgSelects(vs, f) <=> FilterProducts(vs, f))
           /\ f.inStock = "any" /\ FilterProducts(vs, f) => MgSelects(vs, f)
           /\ f.attrs = {} /\ PgSelects(vs, f) => MgSelects(vs, f)
    BY DEF PgSelects, MgSelects, FilterProducts, matchVariant, StockMatches

\* A page begins where the one before it ends, whatever limit is asked for.
LEMMA PagesFollow ==
    ASSUME NEW limit \in Int, NEW page \in Nat \ {0}
    PROVE  PageOffset(page + 1, limit) = PageOffset(page, limit) + PageSize(limit)
<1>1. PageSize(limit) \in Nat
    BY DEF PageSize
<1>2. page + 1 > 1 /\ (page + 1) - 1 = page
    OBVIOUS
<1>3. PageOffset(page + 1, limit) = page * PageSize(limit)
    BY <1>2 DEF PageOffset
<1> DEFINE n == PageSize(limit)
<1>4. PageOffset(page, limit) = IF page > 1 THEN (page - 1) * n ELSE 0
    BY DEF PageOffset
<1> HIDE DEF n
<1>5. n \in Nat /\ PageOffset(page + 1, limit) = page * n
    BY <1>1, <1>3 DEF n
<1>6. CASE page > 1
  <2>1. (page - 1) * n + n = page * n
      BY <1>5
  <2> QED
      BY <1>4, <1>5, <1>6, <2>1 DEF n
<1>7. CASE page = 1
    BY <1>4, <1>5, <1>7 DEF n
<1> QED
    BY <1>6, <1>7

\* A discount ApplyDiscount accepts.
Accepted(d) ==
    d.type \in {"percentage", "fixed"} /\ d.value \in Nat /\ (d.type = "percentage" => d.value <= 100)

\* Such a discount never raises a price, and takes none below zero.
LEMMA DiscountsLower ==
    ASSUME NEW price \in Nat, NEW d, Accepted(d)
    PROVE  mapProductToResponse(price, d) \in 0 .. price * 100
<1>1. CASE d.type = "percentage"
  <2>1. d.value \in 0 .. 100
      BY <1>1 DEF Accepted
  <2>2. \A k \in 0 .. 100 : price * (100 - k) \in Int /\ 0 <= price * (100 - k) /\ price * (100 - k) <= price * 100
      OBVIOUS
  <2> QED
      BY <1>1, <2>1, <2>2 DEF mapProductToResponse
<1>2. CASE d.type = "fixed"
    BY <1>2 DEF mapProductToResponse, Accepted
<1> QED
    BY <1>1, <1>2 DEF Accepted

\* Whom a write has overtaken are requests, and the discount stored is one that was accepted.
TouchedAndDiscount ==
    touched \subseteq Requests /\ (product.discount # NoDiscount => Accepted(product.discount))

\* Only these change the discount: accepting one, removing it, and writing a whole product.
LEMMA DiscountMoves ==
    ASSUME product \in ProductRecord, touched \subseteq Requests, [ProductsNext]_productsVars
    PROVE  /\ touched' \subseteq Requests
           /\ \/ product'.discount \in {product.discount, NoDiscount}
              \/ Accepted(product'.discount)
<1>1. ASSUME NEW r \in Requests, NEW job, EnterProduct(r, job)
      PROVE  product' = product /\ touched' = touched
    BY <1>1 DEF EnterProduct, ProductData
<1>2. ASSUME NEW r \in Requests, ProductRefused(r)
      PROVE  product' = product /\ touched' \subseteq Requests
    BY <1>2 DEF ProductRefused, ProductData
<1>3. ASSUME NEW r \in Requests, NEW jobs, ProductWritten(r, jobs)
      PROVE  touched' \subseteq Requests
    BY <1>3 DEF ProductWritten, Others
<1>4. ASSUME Wrote1 PROVE touched' \subseteq Requests
    BY <1>4 DEF Wrote1
<1>5. \A n : [product EXCEPT !.version = n, !.discount = NoDiscount].discount = NoDiscount
    BY DEF ProductRecord
<1>6. [product EXCEPT !.version = @ + 1, !.discount = NoDiscount].discount = NoDiscount
    BY DEF ProductRecord
<1>7. \A d : [product EXCEPT !.discount = d].discount = d
    BY DEF ProductRecord
<1>8. \A l : [product EXCEPT !.life = l].discount = product.discount
    BY DEF ProductRecord
<1>9. ASSUME NEW r \in Requests, HandleUpdate(r) \/ HandleAddVariant(r) \/ HandleUpdateVariant(r) \/ HandleDeleteVariant(r)
      PROVE  product' = product /\ touched' = touched
    BY <1>1, <1>9 DEF HandleUpdate, UpdateProduct, HandleAddVariant, AddVariant, HandleUpdateVariant, UpdateVariant,
           HandleDeleteVariant, DeleteVariant, PutVariants
<1>10. ASSUME NEW r \in Requests, HandleRegisterImages(r) \/ HandleDeleteImage(r) \/ HandleSetPrimary(r)
      PROVE  product' = product /\ touched' = touched
    BY <1>1, <1>10 DEF HandleRegisterImages, RegisterUploadedImages, HandleDeleteImage, DeleteImage, HandleSetPrimary,
           SetPrimaryImage, PutImages
<1>11. ASSUME NEW r \in Requests, PutList(r)
      PROVE  product' = product /\ touched' \subseteq Requests
    BY <1>2, <1>3, <1>11 DEF PutList, On, PgPutList, MgPutList, ProductData
<1>12. ASSUME NEW r \in Requests, UpdateProductRow(r)
      PROVE  product'.discount \in {product.discount, NoDiscount} /\ touched' \subseteq Requests
    BY <1>2, <1>3, <1>5, <1>12 DEF UpdateProductRow, On, PgUpdateProduct, MgUpdateProduct, ProductData
<1>13. ASSUME NEW r \in Requests, CommitLists(r)
      PROVE  product'.discount \in {product.discount, NoDiscount} /\ touched' \subseteq Requests
    BY <1>2, <1>3, <1>6, <1>13 DEF CommitLists
<1>14. ASSUME NEW r \in Requests, ReportConflict(r) \/ FailProduct(r)
      PROVE  product' = product /\ touched' \subseteq Requests
    BY <1>2, <1>14 DEF ReportConflict, FailProduct
<1>15. ASSUME HandleCreate \/ HandleBulkCreate \/ HandleDelete \/ HandleBulkDelete
      PROVE  product'.discount = product.discount /\ touched' \subseteq Requests
    BY <1>4, <1>8, <1>15 DEF HandleCreate, HandleBulkCreate, HandleDelete, HandleBulkDelete, AddProduct, CreateRow, BulkCreateRows, On,
           PgCreateProduct, MgCreateProduct, PgBulkCreate, MgBulkCreate, PgDeleteProduct, MgDeleteProduct, PgBulkDelete,
           MgBulkDelete, ProductData
<1>16. ASSUME HandleBulkUpdate \/ HandleRemoveDiscount \/ SubscribeStockEvents
      PROVE  product'.discount \in {product.discount, NoDiscount} /\ touched' \subseteq Requests
    BY <1>4, <1>5, <1>7, <1>16 DEF HandleBulkUpdate, HandleRemoveDiscount, RemoveDiscount, SubscribeStockEvents, On,
           PgBulkUpdate, MgBulkUpdate, PgUpdateDiscount, MgUpdateDiscount, ProductData
<1>17. ASSUME HandleApplyDiscount
      PROVE  Accepted(product'.discount) /\ touched' \subseteq Requests
  <2>1. PICK d \in Discounts : ApplyDiscount(d) /\ Wrote1
      BY <1>17 DEF HandleApplyDiscount
  <2>2. d.value \in Nat /\ Accepted(d)
      BY <2>1, ProductsAssumption DEF ApplyDiscount, Accepted
  <2>3. product' = [product EXCEPT !.discount = d]
      BY <2>1 DEF ApplyDiscount, On, PgUpdateDiscount, MgUpdateDiscount
  <2> QED
      BY <1>4, <1>7, <2>1, <2>2, <2>3
<1>18. CASE UNCHANGED productsVars
    BY <1>18 DEF productsVars
<1> QED
    BY <1>9, <1>10, <1>11, <1>12, <1>13, <1>14, <1>15, <1>16, <1>17, <1>18 DEF ProductsNext

\* Every reachable product is well typed, and what the queries answer is right: the filters of the three
\* implementations agree, pages follow one another, and a stored discount never raises a price.
THEOREM ProductsTypes == ProductsSpec => []ProductsTypeOK
<1>1. ProductsInit => TouchedAndDiscount
    BY DEF ProductsInit, TouchedAndDiscount
<1>2. ProductsIInv /\ TouchedAndDiscount /\ [ProductsNext]_productsVars => TouchedAndDiscount'
    BY DiscountMoves DEF ProductsIInv, ProductRowsOK, TouchedAndDiscount
<1>3. FiltersAgree
  <2>1. SUFFICES ASSUME NEW vs \in SomeLists, NEW f \in SomeFilters
        PROVE  /\ f.inStock = "any" /\ f.attrs = {} => (PgSelects(vs, f) <=> FilterProducts(vs, f))
               /\ f.inStock = "any" /\ FilterProducts(vs, f) => MgSelects(vs, f)
               /\ f.attrs = {} /\ PgSelects(vs, f) => MgSelects(vs, f)
      BY DEF FiltersAgree
  <2>2. \A v \in vs : v.price \in Int /\ v.stock \in Nat
    <3>1. \A v \in SomeVariants : v.price \in Int /\ v.stock \in Nat
        BY DEF SomeVariants
    <3> QED
        BY <3>1 DEF SomeLists
  <2>3. f.inStock \in {"any", "yes", "no"}
      BY DEF SomeFilters
  <2> QED
      BY <2>2, <2>3, FiltersAlwaysAgree
<1>4. TouchedAndDiscount => ShownRight
  <2>1. \A limit \in {-1, 0, 20, 100, 101}, page \in 1 .. 3 : limit \in Int /\ page \in Nat \ {0}
      OBVIOUS
  <2>2. \A limit \in {-1, 0, 20, 100, 101}, page \in 1 .. 3 :
            PageOffset(page + 1, limit) = PageOffset(page, limit) + PageSize(limit)
      BY <2>1, PagesFollow
  <2>3. \A price \in 0 .. 5 : price \in Nat
      OBVIOUS
  <2> QED
      BY <2>2, <2>3, DiscountsLower DEF TouchedAndDiscount, ShownRight
<1>5. ProductsIInv /\ TouchedAndDiscount => ProductsTypeOK
    BY <1>3, <1>4 DEF ProductsIInv, ProductRowsOK, TouchedAndDiscount, ProductsTypeOK
<1> QED
    BY <1>1, <1>2, <1>5, ProductsStart, ProductsKeep, PTL DEF ProductsSpec

-----------------------------------------------------------------------------
(* Reviews.                                                                *)

\* Types of the reviews and the requests.
ReviewRowsOK ==
    /\ reviews \subseteq Review /\ IsFiniteSet(reviews)
    /\ reviewsMade \in Nat /\ erased \subseteq 1 .. reviewsMade
    /\ reviewJob \in [Requests -> ReviewJob]

\* The inductive invariant: ids are those made so far, and what is deleted had one of them, so
\* that no new review gets the id of a deleted one.
ReviewsIInv ==
    /\ ReviewRowsOK
    /\ \A v \in reviews : v.id \in 1 .. reviewsMade /\ v.id \notin erased
    /\ \A r \in Requests : reviewJob[r].pc = "delete" =>
          \A v \in reviewJob[r].review : v.id \in 1 .. reviewsMade

\* The ratings of a set of reviews add up to between one and five each.
LEMMA RatingsAddUp ==
    ASSUME NEW R \in SUBSET Review, IsFiniteSet(R)
    PROVE  /\ Cardinality(R) \in Nat
           /\ MapThenSumSet(LAMBDA v : v.rating, R) \in Cardinality(R) .. 5 * Cardinality(R)
<1> DEFINE f == [v \in R |-> v.rating]
           Ratings5(it) == [s \in SUBSET R |-> IF s = {} THEN 0
                                ELSE LET x == CHOOSE x \in s : TRUE IN x.rating + it[s \ {x}]]
           it == CHOOSE it : it = Ratings5(it)
<1>1. f \in [R -> 1 .. 5]
    BY DEF Review
<1>2. MapThenSumSet(LAMBDA v : v.rating, R) = it[R]
    BY DEF MapThenSumSet, MapThenFoldSet
<1>3. \A h : Ratings5(h) = Body(f, R, h)
  <2>1. SUFFICES ASSUME NEW h, NEW s \in SUBSET R
        PROVE  (IF s = {} THEN 0 ELSE LET x == CHOOSE x \in s : TRUE IN x.rating + h[s \ {x}])
               = IF s = {} THEN 0 ELSE LET x == CHOOSE x \in s : TRUE IN f[x] + h[s \ {x}]
      BY DEF Body
  <2>2. CASE s # {}
    <3> DEFINE x == CHOOSE x \in s : TRUE
    <3>1. x \in R
        BY <2>2
    <3>2. f[x] = x.rating
        BY <3>1
    <3> QED
        BY <2>2, <3>2
  <2> QED
      BY <2>2
<1>4. \E h : h = Ratings5(h)
  <2>1. f \in [R -> Int]
      BY <1>1
  <2> HIDE DEF f, Ratings5
  <2>2. PICK h : h = Body(f, R, h)
      BY <2>1, BodyHasNet
  <2> QED
      BY <1>3, <2>2
<1>5. it = Ratings5(it)
    BY <1>4
<1> HIDE DEF it, Ratings5
<1>6. f \in [R -> Int]
    BY <1>1
<1>7. it = Body(f, R, it)
    BY <1>3, <1>5
<1> HIDE DEF f
<1>8. it[R] = Total(f, R)
    BY <1>6, <1>7, BodyIsNet, TotalIsNet
<1>9. Cardinality(R) \in Nat /\ Total(f, R) \in Cardinality(R) .. 5 * Cardinality(R)
    BY <1>1, TotalBounds
<1> QED
    BY <1>2, <1>8, <1>9

\* A request goes on, or none, and the tables stay.
LEMMA ReviewJobMoves ==
    ASSUME ReviewsIInv, NEW r \in Requests, NEW q \in ReviewJob, reviewJob' = [reviewJob EXCEPT ![r] = q],
           UNCHANGED <<reviews, reviewsMade, erased>>,
           q.pc = "delete" => \A v \in q.review : v.id \in 1 .. reviewsMade
    PROVE  ReviewsIInv'
<1>1. \A o \in Requests : reviewJob'[o] = IF o = r THEN q ELSE reviewJob[o]
    BY DEF ReviewsIInv, ReviewRowsOK
<1>2. ReviewRowsOK'
    BY DEF ReviewsIInv, ReviewRowsOK
<1> QED
    BY <1>1, <1>2 DEF ReviewsIInv

\* A request that does nothing is one.
LEMMA IdleReviewJob == NoReviewJob \in ReviewJob /\ NoReviewJob.pc = "idle"
    BY DEF NoReviewJob, ReviewJob

\* A request ends without a write.
LEMMA ReviewEnds ==
    ASSUME ReviewsIInv, NEW r \in Requests, ReviewDone(r), UNCHANGED <<reviews, reviewsMade, erased>>
    PROVE  ReviewsIInv'
    BY IdleReviewJob, ReviewJobMoves DEF ReviewDone

\* The rows a look-up finds.
LEMMA FoundReview ==
    ASSUME ReviewsIInv, NEW i, NEW v \in ReviewByID(i)
    PROVE  v \in reviews /\ v.id = i /\ v \in Review
    BY DEF ReviewsIInv, ReviewRowsOK, ReviewByID, PgReviewByID, MgReviewByID, On

\* A request begins: it has checked a review, or read one.
LEMMA KeepsReviewBegin ==
    ASSUME ReviewsIInv, NEW r \in Requests,
           HandleSubmitReview(r) \/ HandleUpdateReview(r) \/ HandleSubmitReply(r) \/ HandleDeleteReview(r)
    PROVE  ReviewsIInv'
<1>1. ASSUME NEW pc \in {"list", "update", "delete"}, NEW v \in Review, ReviewGoto(r, pc, v),
             pc = "delete" => v.id \in 1 .. reviewsMade
      PROVE  ReviewsIInv'
  <2>1. /\ reviewJob' = [reviewJob EXCEPT ![r] = [pc |-> pc, review |-> {v}]]
        /\ UNCHANGED <<reviews, reviewsMade, erased>>
      BY <1>1 DEF ReviewGoto, ReviewTables
  <2>2. [pc |-> pc, review |-> {v}] \in ReviewJob
      BY DEF ReviewJob
  <2> QED
      BY <1>1, <2>1, <2>2, ReviewJobMoves
<1>2. CASE HandleSubmitReview(r)
  <2>1. PICK p \in Reviewed, u \in Reviewers, rating \in Ratings : AddReview(r, p, u, rating)
      BY <1>2 DEF HandleSubmitReview
  <2>2. [id |-> 0, product |-> p, user |-> u, rating |-> rating, reply |-> FALSE] \in Review
      BY <2>1 DEF AddReview, ValidateReview, Review
  <2> QED
      BY <2>1, <2>2, <1>1 DEF AddReview
<1>3. CASE HandleUpdateReview(r)
  <2>1. PICK i \in 1 .. reviewsMade, u \in Reviewers, rating \in Ratings : UpdateReview(r, i, u, rating)
      BY <1>3 DEF HandleUpdateReview
  <2>2. PICK v \in ReviewByID(i) : ValidateReview(rating) /\ ReviewGoto(r, "update", [v EXCEPT !.rating = rating])
      BY <2>1 DEF UpdateReview
  <2>3. [v EXCEPT !.rating = rating] \in Review
      BY <2>2, FoundReview DEF ValidateReview, Review
  <2> QED
      BY <2>2, <2>3, <1>1
<1>4. CASE HandleSubmitReply(r)
  <2>1. PICK i \in 1 .. reviewsMade : SubmitReply(r, i)
      BY <1>4 DEF HandleSubmitReply
  <2>2. PICK v \in ReviewByID(i) : ReviewGoto(r, "update", [v EXCEPT !.reply = TRUE])
      BY <2>1 DEF SubmitReply
  <2>3. v \in Review
      BY <2>2, FoundReview
  <2>4. [v EXCEPT !.reply = TRUE] \in Review
      BY <2>3 DEF Review
  <2> QED
      BY <2>2, <2>4, <1>1
<1>5. CASE HandleDeleteReview(r)
  <2>1. PICK i \in 1 .. reviewsMade, u \in Reviewers, isAdmin \in BOOLEAN : DeleteReview(r, i, u, isAdmin)
      BY <1>5 DEF HandleDeleteReview
  <2>2. PICK v \in ReviewByID(i) : ReviewGoto(r, "delete", v)
      BY <2>1 DEF DeleteReview
  <2>3. v \in Review /\ v.id = i
      BY <2>2, FoundReview
  <2> QED
      BY <2>2, <2>3, <1>1
<1> QED
    BY <1>2, <1>3, <1>4, <1>5

\* A request has listed the reviews of the product.
LEMMA KeepsCheckReviewed ==
    ASSUME ReviewsIInv, NEW r \in Requests, CheckReviewed(r)
    PROVE  ReviewsIInv'
<1>1. UNCHANGED <<reviews, reviewsMade, erased>>
    BY DEF CheckReviewed, ReviewTables
<1>2. CASE ReviewDone(r)
    BY <1>1, <1>2, ReviewEnds
<1>3. CASE reviewJob' = [reviewJob EXCEPT ![r].pc = "insert"]
  <2> DEFINE q == reviewJob[r]
             p == [q EXCEPT !.pc = "insert"]
  <2>1. q \in ReviewJob /\ reviewJob' = [reviewJob EXCEPT ![r] = p]
      BY <1>3 DEF ReviewsIInv, ReviewRowsOK
  <2> HIDE DEF q
  <2>2. p \in ReviewJob /\ p.pc = "insert"
      BY <2>1 DEF ReviewJob
  <2> HIDE DEF p
  <2> QED
      BY <1>1, <2>1, <2>2, ReviewJobMoves
<1> QED
    BY <1>2, <1>3 DEF CheckReviewed

\* The rows change, and the request that changes them ends.
LEMMA ReviewRowsMove ==
    ASSUME ReviewsIInv, NEW r \in Requests, ReviewDone(r),
           reviews' \in SUBSET Review, IsFiniteSet(reviews'), reviewsMade' \in Nat, reviewsMade' >= reviewsMade,
           erased' \in SUBSET (1 .. reviewsMade'),
           \A v \in reviews' : v.id \in 1 .. reviewsMade' /\ v.id \notin erased'
    PROVE  ReviewsIInv'
<1>1. \A o \in Requests : reviewJob'[o] = IF o = r THEN NoReviewJob ELSE reviewJob[o]
    BY DEF ReviewDone, ReviewsIInv, ReviewRowsOK
<1>2. reviewJob' \in [Requests -> ReviewJob]
    BY IdleReviewJob DEF ReviewDone, ReviewsIInv, ReviewRowsOK
<1>3. reviewsMade \in Nat
    BY DEF ReviewsIInv, ReviewRowsOK
<1>4. ASSUME NEW o \in Requests, reviewJob'[o].pc = "delete"
      PROVE  \A v \in reviewJob'[o].review : v.id \in 1 .. reviewsMade'
  <2>1. reviewJob'[o] = reviewJob[o]
      BY <1>1, <1>4, IdleReviewJob
  <2>2. \A v \in reviewJob[o].review : v.id \in 1 .. reviewsMade
      BY <1>4, <2>1 DEF ReviewsIInv
  <2> QED
      BY <1>3, <2>1, <2>2
<1> QED
    BY <1>2, <1>4 DEF ReviewsIInv, ReviewRowsOK

\* What a request carries.
LEMMA ReviewFacts ==
    ASSUME ReviewsIInv, NEW r \in Requests
    PROVE  /\ reviewJob[r].review \in SUBSET Review
           /\ reviews \in SUBSET Review /\ IsFiniteSet(reviews) /\ reviewsMade \in Nat
           /\ erased \in SUBSET (1 .. reviewsMade)
           /\ \A v \in reviews : v.id \in 1 .. reviewsMade /\ v.id \notin erased
    BY DEF ReviewsIInv, ReviewRowsOK, ReviewJob

\* A new review gets the next id.
LEMMA KeepsInsertReview ==
    ASSUME ReviewsIInv, NEW r \in Requests, InsertReview(r)
    PROVE  ReviewsIInv'
<1>1. PICK new \in reviewJob[r].review : reviews' = reviews \cup {[new EXCEPT !.id = reviewsMade + 1]}
    BY DEF InsertReview, On, PgCreateReview, MgCreateReview
<1>2. reviewsMade' = reviewsMade + 1 /\ ReviewDone(r) /\ erased' = erased
    BY DEF InsertReview
<1> DEFINE v == [new EXCEPT !.id = reviewsMade + 1]
<1>3. v \in Review /\ v.id = reviewsMade + 1
    BY <1>1, ReviewFacts DEF Review
<1> HIDE DEF v
<1>4. reviews' = reviews \cup {v}
    BY <1>1 DEF v
<1>5. reviews' \in SUBSET Review /\ IsFiniteSet(reviews')
    BY <1>3, <1>4, ReviewFacts, FS_AddElement
<1>6. reviewsMade' \in Nat /\ reviewsMade' >= reviewsMade /\ erased' \in SUBSET (1 .. reviewsMade')
    BY <1>2, ReviewFacts
<1>7. \A w \in reviews' : w.id \in 1 .. reviewsMade' /\ w.id \notin erased'
    BY <1>2, <1>3, <1>4, ReviewFacts
<1> QED
    BY <1>2, <1>5, <1>6, <1>7, ReviewRowsMove

\* A review is written back if its row is still there.
LEMMA KeepsSaveReview ==
    ASSUME ReviewsIInv, NEW r \in Requests, SaveReview(r)
    PROVE  ReviewsIInv'
<1>1. PICK v \in reviewJob[r].review : reviews' = {IF w.id = v.id THEN v ELSE w : w \in reviews}
    BY DEF SaveReview, On, PgUpdateReview, MgUpdateReview
<1>2. reviewsMade' = reviewsMade /\ ReviewDone(r) /\ erased' = erased
    BY DEF SaveReview
<1>3. reviews' \in SUBSET Review
    BY <1>1, ReviewFacts
<1>4. IsFiniteSet(reviews')
  <2> DEFINE put == [w \in reviews |-> IF w.id = v.id THEN v ELSE w]
  <2>1. put \in Surjection(reviews, reviews')
      BY <1>1 DEF Surjection
  <2> QED
      BY <2>1, ReviewFacts, FS_Surjection
<1>5. \A w \in reviews' : w.id \in 1 .. reviewsMade' /\ w.id \notin erased'
    BY <1>1, <1>2, ReviewFacts
<1>6. reviewsMade' \in Nat /\ reviewsMade' >= reviewsMade /\ erased' \in SUBSET (1 .. reviewsMade')
    BY <1>2, ReviewFacts
<1> QED
    BY <1>2, <1>3, <1>4, <1>5, <1>6, ReviewRowsMove

\* A review is deleted.
LEMMA KeepsEraseReview ==
    ASSUME ReviewsIInv, NEW r \in Requests, EraseReview(r)
    PROVE  ReviewsIInv'
<1>1. PICK v \in reviewJob[r].review :
        reviews' = {w \in reviews : w.id # v.id} /\ erased' = erased \cup {v.id}
    BY DEF EraseReview, On, PgDeleteReview, MgDeleteReview
<1>2. reviewsMade' = reviewsMade /\ ReviewDone(r)
    BY DEF EraseReview
<1>3. v.id \in 1 .. reviewsMade
    BY <1>1 DEF EraseReview, ReviewsIInv
<1>4. reviews' \in SUBSET Review /\ IsFiniteSet(reviews')
    BY <1>1, ReviewFacts, FS_Subset
<1>5. \A w \in reviews' : w.id \in 1 .. reviewsMade' /\ w.id \notin erased'
    BY <1>1, <1>2, ReviewFacts
<1>6. reviewsMade' \in Nat /\ reviewsMade' >= reviewsMade /\ erased' \in SUBSET (1 .. reviewsMade')
    BY <1>1, <1>2, <1>3, ReviewFacts
<1> QED
    BY <1>2, <1>4, <1>5, <1>6, ReviewRowsMove

\* The invariant holds at first and every step keeps it.
LEMMA ReviewsStart == ReviewsInit => ReviewsIInv
<1> SUFFICES ASSUME ReviewsInit PROVE ReviewsIInv
    OBVIOUS
<1>1. ReviewRowsOK
    BY IdleReviewJob, FS_EmptySet DEF ReviewsInit, ReviewRowsOK
<1> QED
    BY <1>1, IdleReviewJob DEF ReviewsInit, ReviewsIInv

\* Every step keeps the invariant.
LEMMA ReviewsKeep == ReviewsIInv /\ [ReviewsNext]_reviewsVars => ReviewsIInv'
<1> SUFFICES ASSUME ReviewsIInv, [ReviewsNext]_reviewsVars PROVE ReviewsIInv'
    OBVIOUS
<1>1. ASSUME NEW r \in Requests,
             HandleSubmitReview(r) \/ HandleUpdateReview(r) \/ HandleSubmitReply(r) \/ HandleDeleteReview(r)
      PROVE  ReviewsIInv'
    BY <1>1, KeepsReviewBegin
<1>2. ASSUME NEW r \in Requests, CheckReviewed(r) \/ InsertReview(r) \/ SaveReview(r) \/ EraseReview(r)
      PROVE  ReviewsIInv'
    BY <1>2, KeepsCheckReviewed, KeepsInsertReview, KeepsSaveReview, KeepsEraseReview
<1>3. ASSUME NEW r \in Requests, FailReview(r) PROVE ReviewsIInv'
    BY <1>3, ReviewEnds DEF FailReview, ReviewTables
<1>4. CASE UNCHANGED <<reviews, reviewsMade, erased, reviewJob>>
    BY <1>4 DEF ReviewsIInv, ReviewRowsOK
<1> QED
    BY <1>1, <1>2, <1>3, <1>4 DEF ReviewsNext, ProductGone, reviewsVars

\* It implies the property: an average is that of finitely many reviews.
LEMMA ReviewsImply == ReviewsIInv => DeletedReviewsStayDeleted
<1> SUFFICES ASSUME ReviewsIInv PROVE DeletedReviewsStayDeleted
    OBVIOUS
<1>1. \A v \in reviews : v.id \notin erased
    BY DEF ReviewsIInv
<1>2. ASSUME NEW p \in Reviewed
      PROVE  LET a == HandleGetRatingSummary(p) IN
             /\ a.count = Cardinality(HandleGetReviews(p))
             /\ a.sum \in a.count .. 5 * a.count
  <2> DEFINE R == GetReviewsByProductID(p)
  <2>1. R \in SUBSET Review /\ IsFiniteSet(R)
    <3>1. R \in SUBSET reviews
        BY DEF GetReviewsByProductID, ReviewsByProduct, PgReviewsByProduct, MgReviewsByProduct, On
    <3> HIDE DEF R
    <3> QED
        BY <3>1, FS_Subset DEF ReviewsIInv, ReviewRowsOK
  <2>2. /\ HandleGetRatingSummary(p).count = Cardinality(R) /\ HandleGetReviews(p) = R
        /\ HandleGetRatingSummary(p).sum = MapThenSumSet(LAMBDA v : v.rating, R)
      BY DEF HandleGetRatingSummary, GetAverageRating, HandleGetReviews
  <2> HIDE DEF R
  <2> QED
      BY <2>1, <2>2, RatingsAddUp
<1> QED
    BY <1>1, <1>2 DEF DeletedReviewsStayDeleted

\* A deleted review never comes back, and an average is that of the reviews.
THEOREM ErasedReviewsStayErased == ReviewsSpec => []DeletedReviewsStayDeleted
<1> QED
    BY ReviewsStart, ReviewsKeep, ReviewsImply, PTL DEF ReviewsSpec

\* Types of the reviews, of what is deleted and of the requests, and of the catalogue's products.
THEOREM ReviewsTypes == ReviewsSpec => []ReviewsTypeOK
<1>1. ReviewsInit => inCatalog \subseteq Reviewed
    BY DEF ReviewsInit
<1>2. inCatalog \subseteq Reviewed /\ [ReviewsNext]_reviewsVars => (inCatalog \subseteq Reviewed)'
    BY DEF ReviewsNext, reviewsVars, ProductGone, HandleSubmitReview, HandleUpdateReview, HandleSubmitReply, HandleDeleteReview,
           AddReview, UpdateReview, SubmitReply, DeleteReview, ReviewGoto, CheckReviewed, InsertReview,
           SaveReview, EraseReview, FailReview, ReviewTables, ReviewDone
<1>3. ReviewsIInv /\ inCatalog \subseteq Reviewed => ReviewsTypeOK
    BY DEF ReviewsIInv, ReviewRowsOK, ReviewsTypeOK
<1> QED
    BY <1>1, <1>2, <1>3, ReviewsStart, ReviewsKeep, PTL DEF ReviewsSpec

-----------------------------------------------------------------------------
(* Categories.                                                             *)

\* Types of the categories, the products and the requests.
CatalogRowsOK ==
    /\ backend \in Backends
    /\ tree \in [Cats -> CatRow] /\ inCat \in [CatProducts -> ProductRow]
    /\ catJob \in [Requests -> CatJob] /\ dirty \subseteq Requests /\ raced \in BOOLEAN

\* A set that has the parents of its members goes all the way up.
GoesUp(U) == \A x \in U : Parent(x) \in U \cup {NoCat}
\* Such a set shows that c is not above p.
NotAbove(c, p) == \E U \in SUBSET (Cats \cup {NoCat}) : p \in U /\ c \notin U /\ GoesUp(U)

\* What a walk has passed, from the parent the category is to get up to where it is.
Walked(q) ==
    LET passed == q.visited \ {q.cat} IN
    /\ q.op = "update" /\ q.cat \in q.visited
    /\ q.parent \in passed \cup {q.at}
    /\ \A x \in passed : Parent(x) \in passed \cup {q.at}

\* What a request has checked holds: of its parent, its place in the tree, the products and
\* children of what it deletes, and the category it files a product under.
ChecksHold(q) ==
    /\ q.pc \in {"walk", "write"} => Refers(q.parent)
    /\ q.pc = "walk" => Walked(q)
    /\ q.pc = "write" /\ q.op = "update" /\ q.parent # NoCat => NotAbove(q.cat, q.parent)
    /\ q.pc \in {"children", "erase"} => \A p \in LiveProducts : inCat[p].cat # q.cat
    /\ q.pc = "erase" => \A x \in LiveCats : tree[x].parent # q.cat
    /\ q.pc = "store" => q.cat \in LiveCats

\* A request is about what it has been asked for.
JobFits(q) ==
    /\ q.pc \in {"parent", "walk"} => q.parent \in Cats
    /\ q.pc \in {"parent", "walk", "write"} => q.slug \in Slugs /\ (q.op = "update" => q.cat \in Cats)
    /\ q.pc \in {"children", "erase", "store"} => q.cat \in Cats

\* The inductive invariant: the property, and the checks of every request during which no other
\* one has written.
CategoriesIInv ==
    /\ CatalogRowsOK /\ TreeSoundUnlessRaced
    /\ \A r \in Requests : JobFits(catJob[r])
    /\ \A r \in Requests \ dirty : ChecksHold(catJob[r])
-----------------------------------------------------------------------------
\* A request that does nothing is one, and has checked nothing.
LEMMA IdleCatJob ==
    NoCatJob \in CatJob /\ NoCatJob.pc = "idle" /\ ChecksHold(NoCatJob) /\ JobFits(NoCatJob)
    BY DEF NoCatJob, CatJob, ChecksHold, JobFits

\* A request moves, and no row changes but those of products that are deleted.
LEMMA CatJobMoves ==
    ASSUME CategoriesIInv, NEW r \in Requests, NEW q \in CatJob, JobFits(q),
           catJob' = [catJob EXCEPT ![r] = q], UNCHANGED <<backend, tree, inCat, raced>>,
           dirty' \subseteq dirty, dirty \subseteq dirty' \cup {r},
           r \notin dirty' => ChecksHold(q)
    PROVE  CategoriesIInv'
<1>1. CatalogRowsOK'
    BY DEF CategoriesIInv, CatalogRowsOK
<1>2. TreeSoundUnlessRaced'
  <2>1. LiveCats' = LiveCats /\ LiveProducts' = LiveProducts
      BY DEF LiveCats, LiveProducts
  <2>2. Acyclic' <=> Acyclic
      BY <2>1 DEF Acyclic, Parent
  <2>3. (NoneDangling' <=> NoneDangling) /\ (EveryProductFiled' <=> EveryProductFiled)
      BY <2>1 DEF NoneDangling, EveryProductFiled, Refers
  <2> QED
      BY <2>1, <2>2, <2>3 DEF CategoriesIInv, TreeSoundUnlessRaced
<1>3. \A o \in Requests : catJob'[o] = IF o = r THEN q ELSE catJob[o]
    BY DEF CategoriesIInv, CatalogRowsOK
<1>4. \A o \in Requests : JobFits(catJob'[o])
    BY <1>3 DEF CategoriesIInv
<1>5. ASSUME NEW o \in Requests \ dirty' PROVE ChecksHold(catJob'[o])
    BY <1>3, <1>5 DEF CategoriesIInv
<1>6. ASSUME NEW o \in Requests \ dirty' PROVE ChecksHold(catJob[o])'
  <2>1. LiveCats' = LiveCats /\ LiveProducts' = LiveProducts
      BY DEF LiveCats, LiveProducts
  <2>2. \A x : Parent(x)' = Parent(x)
      BY <2>1 DEF Parent
  <2>3. \A U : GoesUp(U)' <=> GoesUp(U)
      BY <2>2 DEF GoesUp
  <2>4. ChecksHold(catJob'[o])
      BY <1>5
  <2> QED
      BY <2>1, <2>2, <2>3, <2>4 DEF ChecksHold, Walked, NotAbove, Refers
<1> QED
    BY <1>1, <1>2, <1>4, <1>6 DEF CategoriesIInv, JobFits

\* A request writes: no other one that is under way counts from now on.
LEMMA AfterWrite ==
    ASSUME CategoriesIInv, NEW r \in Requests, Wrote(r), backend' = backend,
           tree' \in [Cats -> CatRow], inCat' \in [CatProducts -> ProductRow],
           TreeSoundUnlessRaced'
    PROVE  CategoriesIInv'
<1>1. catJob' = [catJob EXCEPT ![r] = NoCatJob]
    BY DEF Wrote, CatGoto
<1>2. \A o \in Requests : catJob'[o] = IF o = r THEN NoCatJob ELSE catJob[o]
    BY <1>1 DEF CategoriesIInv, CatalogRowsOK
<1>3. CatalogRowsOK'
    BY <1>1, IdleCatJob DEF CategoriesIInv, CatalogRowsOK, Wrote
<1>4. ASSUME NEW o \in Requests PROVE JobFits(catJob'[o])
    BY <1>2, IdleCatJob DEF CategoriesIInv
<1>5. ASSUME NEW o \in Requests \ dirty' PROVE catJob'[o].pc = "idle"
    BY <1>2, IdleCatJob DEF Wrote
<1>6. ASSUME NEW o \in Requests \ dirty' PROVE ChecksHold(catJob[o])'
    BY <1>5 DEF ChecksHold
<1> QED
    BY <1>3, <1>4, <1>6 DEF CategoriesIInv, JobFits
-----------------------------------------------------------------------------
\* A category is put where it is not above its parent: the tree stays a forest.
LEMMA ForestGrows ==
    ASSUME CatalogRowsOK, Acyclic, NEW c \in Cats, NEW slug, NEW p, PutCategory(c, slug, p),
           p # NoCat => NotAbove(c, p)
    PROVE  Acyclic'
<1>1. /\ tree'[c].life = "live" /\ tree'[c].parent = p
      /\ \A x \in Cats \ {c} : tree'[x] = tree[x]
    BY DEF PutCategory, CatalogRowsOK
<1>2. LiveCats' = LiveCats \cup {c}
    BY <1>1 DEF LiveCats
<1>3. Parent(c)' = p /\ \A x : x # c => Parent(x)' = Parent(x)
    BY <1>1, <1>2 DEF Parent, LiveCats
<1>4. SUFFICES ASSUME NEW S \in SUBSET (LiveCats'), S # {}, \A x \in S : Parent(x)' \in S PROVE FALSE
    BY DEF Acyclic
<1>5. NoCat \notin S
    BY CategoriesAssumption DEF LiveCats
<1>6. CASE c \notin S
  <2>1. S \in SUBSET LiveCats /\ \A x \in S : Parent(x) \in S
      BY <1>2, <1>3, <1>4, <1>6
  <2> QED
      BY <2>1, <1>4 DEF Acyclic
<1>7. CASE c \in S
  <2>1. p \in S /\ p # NoCat
      BY <1>3, <1>4, <1>5, <1>7
  <2>2. PICK U \in SUBSET (Cats \cup {NoCat}) : p \in U /\ c \notin U /\ GoesUp(U)
      BY <2>1 DEF NotAbove
  <2>3. S \cap U \in SUBSET LiveCats /\ S \cap U # {}
      BY <1>2, <2>1, <2>2
  <2>4. ASSUME NEW x \in S \cap U PROVE Parent(x) \in S \cap U
      BY <1>3, <1>4, <1>5, <2>2 DEF GoesUp
  <2> QED
      BY <2>3, <2>4 DEF Acyclic
<1> QED
    BY <1>6, <1>7

\* A category is put: references and slugs.
LEMMA CategoryPut ==
    ASSUME CatalogRowsOK, NEW c \in Cats, NEW slug \in Slugs, NEW p \in Cats \cup {NoCat}, PutCategory(c, slug, p),
           UNCHANGED <<backend, inCat>>
    PROVE  /\ tree' \in [Cats -> CatRow] /\ inCat' \in [CatProducts -> ProductRow]
           /\ NoneDangling /\ Refers(p) => NoneDangling'
           /\ EveryProductFiled => EveryProductFiled'
           /\ SlugFree(c, slug) /\ (\A d, e \in LiveCats : tree[d].slug = tree[e].slug => d = e)
                => (\A d, e \in LiveCats : tree[d].slug = tree[e].slug => d = e)'
<1>1. /\ tree'[c].life = "live" /\ tree'[c].parent = p /\ tree'[c].slug = slug
      /\ \A x \in Cats \ {c} : tree'[x] = tree[x]
    BY DEF PutCategory, CatalogRowsOK
<1>2. LiveCats' = LiveCats \cup {c} /\ LiveProducts' = LiveProducts
    BY <1>1 DEF LiveCats, LiveProducts
<1>3. tree' \in [Cats -> CatRow] /\ inCat' \in [CatProducts -> ProductRow]
    BY DEF PutCategory, CatalogRowsOK, CatRow, Lives
<1>4. ASSUME NoneDangling, Refers(p) PROVE NoneDangling'
    BY <1>1, <1>2, <1>4 DEF NoneDangling, Refers, LiveCats
<1>5. ASSUME EveryProductFiled PROVE EveryProductFiled'
    BY <1>2, <1>5 DEF EveryProductFiled
<1>6. ASSUME SlugFree(c, slug), \A d, e \in LiveCats : tree[d].slug = tree[e].slug => d = e
      PROVE  (\A d, e \in LiveCats : tree[d].slug = tree[e].slug => d = e)'
    BY <1>1, <1>2, <1>6 DEF SlugFree, LiveCats
<1> QED
    BY <1>3, <1>4, <1>5, <1>6

\* Nothing is above a category that has no row: no row refers to it.
LEMMA NewIsNotAbove ==
    ASSUME CatalogRowsOK, NoneDangling, NEW c \in Cats \ LiveCats, NEW p \in LiveCats
    PROVE  NotAbove(c, p)
<1>1. LiveCats \in SUBSET (Cats \cup {NoCat}) /\ c \notin LiveCats
    BY DEF LiveCats
<1>2. GoesUp(LiveCats)
    BY DEF GoesUp, Parent, NoneDangling, Refers
<1> QED
    BY <1>1, <1>2 DEF NotAbove

\* The property only speaks of rows and of `raced`.
LEMMA SameRows ==
    ASSUME CategoriesIInv, UNCHANGED <<backend, tree, inCat>>, raced \in BOOLEAN, raced' \in BOOLEAN, raced => raced'
    PROVE  TreeSoundUnlessRaced'
<1>1. LiveCats' = LiveCats /\ LiveProducts' = LiveProducts
    BY DEF LiveCats, LiveProducts
<1>2. Acyclic' <=> Acyclic
    BY <1>1 DEF Acyclic, Parent
<1>3. (NoneDangling' <=> NoneDangling) /\ (EveryProductFiled' <=> EveryProductFiled)
    BY <1>1 DEF NoneDangling, EveryProductFiled, Refers
<1> QED
    BY <1>1, <1>2, <1>3 DEF CategoriesIInv, TreeSoundUnlessRaced

\* What a request that writes has checked, if it has not raced.
LEMMA WriterChecked ==
    ASSUME CategoriesIInv, NEW r \in Requests, Wrote(r)
    PROVE  /\ raced' \in BOOLEAN /\ (raced => raced')
           /\ ~raced' => ChecksHold(catJob[r]) /\ Acyclic /\ NoneDangling /\ EveryProductFiled
           /\ backend = "postgres" => NoneDangling
           /\ catJob[r] \in CatJob /\ JobFits(catJob[r])
    BY DEF CategoriesIInv, CatalogRowsOK, TreeSoundUnlessRaced, Wrote

\* A request ends and writes nothing.
LEMMA KeepsRefused ==
    ASSUME CategoriesIInv, NEW r \in Requests, Refused(r), UNCHANGED CatTables
    PROVE  CategoriesIInv'
<1>1. /\ catJob' = [catJob EXCEPT ![r] = NoCatJob] /\ UNCHANGED <<backend, tree, inCat, raced>>
      /\ dirty' = dirty \ {r}
    BY DEF Refused, CatGoto, CatTables
<1> QED
    BY <1>1, IdleCatJob, CatJobMoves

\* A category is written, new or not.
LEMMA CategoryWritten ==
    ASSUME CategoriesIInv, NEW r \in Requests, WriteCategory(r), Wrote(r)
    PROVE  CategoriesIInv'
<1> DEFINE q == catJob[r]
<1>1. /\ q.pc = "write" /\ Wrote(r) /\ UNCHANGED <<backend, inCat>>
      /\ IF q.op = "add" THEN CreateCategory(q.slug, q.parent) ELSE StoreCategory(q.cat, q.slug, q.parent)
    BY DEF WriteCategory
<1>2. /\ q \in CatJob /\ q.slug \in Slugs /\ q.parent \in Cats \cup {NoCat} /\ (q.op = "update" => q.cat \in Cats)
      /\ q.op \in {"add", "update"}
    BY <1>1, WriterChecked DEF JobFits, CatJob
<1>3. ~raced' => /\ Refers(q.parent) /\ Acyclic /\ NoneDangling /\ EveryProductFiled
                 /\ q.op = "update" /\ q.parent # NoCat => NotAbove(q.cat, q.parent)
    BY <1>1, WriterChecked DEF ChecksHold
<1>4. CASE UNCHANGED tree
  <2>1. TreeSoundUnlessRaced'
      BY <1>1, <1>4, WriterChecked, SameRows DEF CategoriesIInv, CatalogRowsOK
  <2>2. tree' \in [Cats -> CatRow] /\ inCat' \in [CatProducts -> ProductRow]
      BY <1>1, <1>4 DEF CategoriesIInv, CatalogRowsOK
  <2> QED
      BY <1>1, <2>1, <2>2, AfterWrite
<1>5. ASSUME NEW c \in Cats, PutCategory(c, q.slug, q.parent), SlugFree(c, q.slug),
             backend = "postgres" => Refers(q.parent),
             c \notin LiveCats \/ (q.op = "update" /\ c = q.cat)
      PROVE  CategoriesIInv'
  <2>1. CatalogRowsOK /\ backend \in Backends
      BY DEF CategoriesIInv, CatalogRowsOK
  <2> HIDE DEF q
  <2>2. /\ tree' \in [Cats -> CatRow] /\ inCat' \in [CatProducts -> ProductRow]
        /\ NoneDangling /\ Refers(q.parent) => NoneDangling'
        /\ EveryProductFiled => EveryProductFiled'
        /\ (\A d, e \in LiveCats : tree[d].slug = tree[e].slug => d = e)'
      BY <1>1, <1>2, <1>5, <2>1, CategoryPut DEF CategoriesIInv, TreeSoundUnlessRaced
  <2>3. ASSUME ~raced' PROVE Acyclic'
    <3>1. q.parent # NoCat => NotAbove(c, q.parent)
        BY <1>3, <1>5, <2>1, <2>3, NewIsNotAbove DEF Refers
    <3> QED
        BY <1>2, <1>3, <1>5, <2>1, <2>3, <3>1, ForestGrows
  <2>4. backend = "postgres" => NoneDangling
      BY DEF CategoriesIInv, TreeSoundUnlessRaced
  <2>5. TreeSoundUnlessRaced'
      BY <1>1, <1>3, <1>5, <2>2, <2>3, <2>4 DEF TreeSoundUnlessRaced
  <2> QED
      BY <1>1, <2>2, <2>5, AfterWrite
<1>6. CASE q.op = "add"
  <2>1. PICK c \in Cats : tree[c].life = "unborn" /\ On(PgPutCategory(c, q.slug, q.parent), MgPutCategory(c, q.slug, q.parent))
      BY <1>1, <1>6 DEF CreateCategory
  <2>2. c \notin LiveCats
      BY <2>1 DEF LiveCats
  <2>3. \/ UNCHANGED tree
        \/ /\ PutCategory(c, q.slug, q.parent) /\ SlugFree(c, q.slug)
           /\ backend = "postgres" => Refers(q.parent)
      BY <2>1 DEF On, PgPutCategory, MgPutCategory, Backends
  <2> QED
      BY <1>4, <1>5, <2>2, <2>3
<1>7. CASE q.op = "update"
  <2>1. \/ UNCHANGED tree
        \/ /\ PutCategory(q.cat, q.slug, q.parent) /\ SlugFree(q.cat, q.slug)
           /\ backend = "postgres" => Refers(q.parent)
      BY <1>1, <1>7 DEF StoreCategory, On, PgPutCategory, MgPutCategory, Backends
  <2> QED
      BY <1>2, <1>4, <1>5, <1>7, <2>1
<1> QED
    BY <1>2, <1>6, <1>7

\* A category is written, or the database refuses it.
LEMMA KeepsWriteCategory ==
    ASSUME CategoriesIInv, NEW r \in Requests, WriteCategory(r)
    PROVE  CategoriesIInv'
<1>1. UNCHANGED <<backend, inCat>> /\ IF UNCHANGED tree THEN Refused(r) ELSE Wrote(r)
    BY DEF WriteCategory
<1> QED
    BY <1>1, CategoryWritten, KeepsRefused DEF CatTables

\* A category is deleted.  Without a race it has no children and no products; on Postgres
\* those it may have lose their reference.
LEMMA KeepsEraseCategory ==
    ASSUME CategoriesIInv, NEW r \in Requests, EraseCategory(r)
    PROVE  CategoriesIInv'
<1> DEFINE q == catJob[r]  c == q.cat
<1>1. q.pc = "erase" /\ Wrote(r) /\ backend' = backend /\ On(PgDeleteCategory(c), MgDeleteCategory(c))
    BY DEF EraseCategory, RemoveCategory
<1>2. CatalogRowsOK /\ c \in Cats
    BY <1>1, WriterChecked DEF JobFits, CategoriesIInv
<1>3. ~raced' => /\ Acyclic /\ NoneDangling /\ EveryProductFiled
                 /\ \A p \in LiveProducts : inCat[p].cat # c
                 /\ \A x \in LiveCats : tree[x].parent # c
    BY <1>1, WriterChecked DEF ChecksHold
<1> HIDE DEF q, c
<1>4. /\ tree'[c].life = "deleted" /\ tree' \in [Cats -> CatRow] /\ inCat' \in [CatProducts -> ProductRow]
      /\ \A x \in Cats \ {c} :
            /\ tree'[x].life = tree[x].life /\ tree'[x].slug = tree[x].slug
            /\ tree'[x].parent = IF tree[x].parent = c /\ backend # "mongo" THEN NoCat ELSE tree[x].parent
      /\ \A p \in CatProducts :
            /\ inCat'[p].life = inCat[p].life
            /\ inCat'[p].cat = IF inCat[p].cat = c /\ backend # "mongo" THEN NoCat ELSE inCat[p].cat
  <2>1. CASE backend = "mongo"
      BY <1>1, <1>2, <2>1 DEF On, MgDeleteCategory, CatalogRowsOK, NoRow, CatRow, Lives
  <2>2. CASE backend # "mongo"
    <3>1. PgDeleteCategory(c)
        BY <1>1, <2>2 DEF On
    <3>2. /\ tree'[c] = NoRow("deleted")
          /\ \A x \in Cats \ {c} : tree'[x] = [tree[x] EXCEPT !.parent = IF @ = c THEN NoCat ELSE @]
          /\ \A p \in CatProducts : inCat'[p] = [inCat[p] EXCEPT !.cat = IF @ = c THEN NoCat ELSE @]
        BY <1>2, <3>1 DEF PgDeleteCategory
    <3>3. NoRow("deleted") \in CatRow /\ NoRow("deleted").life = "deleted"
        BY DEF NoRow, CatRow, Lives
    <3>4. ASSUME NEW x \in Cats \ {c}
          PROVE  /\ tree'[x] \in CatRow /\ tree'[x].life = tree[x].life /\ tree'[x].slug = tree[x].slug
                 /\ tree'[x].parent = IF tree[x].parent = c THEN NoCat ELSE tree[x].parent
      <4>1. tree[x] \in CatRow
          BY <1>2 DEF CatalogRowsOK
      <4>2. tree'[x] = [tree[x] EXCEPT !.parent = IF tree[x].parent = c THEN NoCat ELSE tree[x].parent]
          BY <3>2
      <4> QED
          BY <4>1, <4>2 DEF CatRow
    <3>5. ASSUME NEW p \in CatProducts
          PROVE  /\ inCat'[p] \in ProductRow /\ inCat'[p].life = inCat[p].life
                 /\ inCat'[p].cat = IF inCat[p].cat = c THEN NoCat ELSE inCat[p].cat
      <4>1. inCat[p] \in ProductRow
          BY <1>2 DEF CatalogRowsOK
      <4>2. inCat'[p] = [inCat[p] EXCEPT !.cat = IF inCat[p].cat = c THEN NoCat ELSE inCat[p].cat]
          BY <3>2
      <4> QED
          BY <4>1, <4>2 DEF ProductRow
    <3>6. tree' \in [Cats -> CatRow] /\ inCat' \in [CatProducts -> ProductRow]
        BY <3>1, <3>2, <3>3, <3>4, <3>5 DEF PgDeleteCategory
    <3> QED
        BY <2>2, <3>2, <3>3, <3>4, <3>5, <3>6
  <2> QED
      BY <2>1, <2>2
<1>5. LiveCats' = LiveCats \ {c} /\ LiveProducts' = LiveProducts
    BY <1>2, <1>4 DEF LiveCats, LiveProducts
<1>6. ASSUME ~raced' PROVE Acyclic' /\ NoneDangling' /\ EveryProductFiled'
  <2>1. \A x \in LiveCats' : tree'[x].parent = tree[x].parent /\ Parent(x)' = Parent(x)
      BY <1>3, <1>4, <1>5, <1>6 DEF Parent, LiveCats
  <2>2. Acyclic'
      BY <1>3, <1>5, <1>6, <2>1 DEF Acyclic
  <2>3. \A p \in LiveProducts : inCat'[p].cat = inCat[p].cat /\ inCat[p].cat # c
      BY <1>3, <1>4, <1>6 DEF LiveProducts
  <2>4. NoneDangling' /\ EveryProductFiled'
      BY <1>3, <1>5, <1>6, <2>1, <2>3 DEF NoneDangling, EveryProductFiled, Refers
  <2> QED
      BY <2>2, <2>4
<1>7. ASSUME backend = "postgres" PROVE NoneDangling'
  <2>1. NoneDangling
      BY <1>7 DEF CategoriesIInv, TreeSoundUnlessRaced
  <2>2. ASSUME NEW x \in LiveCats' PROVE Refers(tree[x].parent)'
      BY <1>4, <1>5, <1>7, <2>1 DEF NoneDangling, Refers, LiveCats
  <2>3. ASSUME NEW p \in LiveProducts' PROVE Refers(inCat[p].cat)'
      BY <1>4, <1>5, <1>7, <2>1 DEF NoneDangling, Refers, LiveProducts
  <2> QED
      BY <2>2, <2>3 DEF NoneDangling
<1>8. (\A d, e \in LiveCats : tree[d].slug = tree[e].slug => d = e)'
    BY <1>4, <1>5 DEF CategoriesIInv, TreeSoundUnlessRaced, LiveCats
<1>9. TreeSoundUnlessRaced'
    BY <1>1, <1>6, <1>7, <1>8 DEF TreeSoundUnlessRaced
<1> QED
    BY <1>1, <1>4, <1>9, AfterWrite

\* A product is written, or deleted: the categories stay as they are.
LEMMA ProductPut ==
    ASSUME CategoriesIInv, UNCHANGED <<backend, tree>>, raced' \in BOOLEAN, raced => raced', NEW p \in CatProducts,
           NEW row \in ProductRow, inCat' = [inCat EXCEPT ![p] = row],
           row.life = "live" => /\ backend = "postgres" => Refers(row.cat)
                                /\ ~raced' => row.cat \in LiveCats
    PROVE  TreeSoundUnlessRaced' /\ inCat' \in [CatProducts -> ProductRow]
<1>1. inCat' \in [CatProducts -> ProductRow] /\ \A o \in CatProducts : inCat'[o] = IF o = p THEN row ELSE inCat[o]
    BY DEF CategoriesIInv, CatalogRowsOK
<1>2. LiveCats' = LiveCats
    BY DEF LiveCats
<1>3. Acyclic' <=> Acyclic
    BY <1>2 DEF Acyclic, Parent
<1>4. ASSUME NEW o \in LiveProducts'
      PROVE  \/ o \in LiveProducts /\ inCat'[o] = inCat[o]
             \/ inCat'[o] = row /\ row.life = "live"
  <2>1. o \in CatProducts /\ inCat'[o].life = "live"
      BY DEF LiveProducts
  <2> QED
      BY <1>1, <2>1 DEF LiveProducts
<1>5. ASSUME NoneDangling, row.life = "live" => Refers(row.cat) PROVE NoneDangling'
    BY <1>2, <1>4, <1>5 DEF NoneDangling, Refers
<1>6. ASSUME EveryProductFiled, ~raced' PROVE EveryProductFiled'
    BY <1>2, <1>4, <1>6 DEF EveryProductFiled
<1>7. raced \in BOOLEAN
    BY DEF CategoriesIInv, CatalogRowsOK
<1> QED
    BY <1>1, <1>2, <1>3, <1>5, <1>6, <1>7 DEF TreeSoundUnlessRaced, CategoriesIInv, Refers

\* A product is stored in the category its request has found.
LEMMA ProductStored ==
    ASSUME CategoriesIInv, NEW r \in Requests, StoreProduct(r), Wrote(r)
    PROVE  CategoriesIInv'
<1> DEFINE q == catJob[r]
<1>1. q.pc = "store" /\ Wrote(r) /\ UNCHANGED <<backend, tree>>
    BY DEF StoreProduct
<1>2. q \in CatJob /\ q.cat \in Cats /\ q.product \in SUBSET CatProducts /\ (~raced' => q.cat \in LiveCats)
    BY <1>1, WriterChecked DEF JobFits, ChecksHold, CatJob
<1>3. PICK p \in q.product : \/ UNCHANGED inCat
                             \/ On(PgPutProduct(p, q.cat), MgPutProduct(p, q.cat))
    BY DEF StoreProduct
<1>4. tree' \in [Cats -> CatRow]
    BY <1>1 DEF CategoriesIInv, CatalogRowsOK
<1>5. CASE UNCHANGED inCat
  <2>1. TreeSoundUnlessRaced'
      BY <1>1, <1>5, WriterChecked, SameRows DEF CategoriesIInv, CatalogRowsOK
  <2>2. inCat' \in [CatProducts -> ProductRow]
      BY <1>5 DEF CategoriesIInv, CatalogRowsOK
  <2> QED
      BY <1>1, <1>4, <2>1, <2>2, AfterWrite
<1>6. CASE PutProduct(p, q.cat) /\ (backend = "postgres" => Refers(q.cat))
  <2> DEFINE row == [life |-> "live", cat |-> q.cat]
  <2>1. row \in ProductRow /\ row.cat = q.cat /\ inCat' = [inCat EXCEPT ![p] = row]
      BY <1>2, <1>6 DEF ProductRow, Lives, PutProduct
  <2> HIDE DEF row
  <2>2. TreeSoundUnlessRaced' /\ inCat' \in [CatProducts -> ProductRow]
      BY <1>1, <1>2, <1>6, <2>1, WriterChecked, ProductPut
  <2> QED
      BY <1>1, <1>4, <2>2, AfterWrite
<1> QED
    BY <1>3, <1>5, <1>6 DEF On, PgPutProduct, MgPutProduct

\* A product is stored, or the database refuses it.
LEMMA KeepsStoreProduct ==
    ASSUME CategoriesIInv, NEW r \in Requests, StoreProduct(r)
    PROVE  CategoriesIInv'
<1>1. UNCHANGED <<backend, tree>> /\ IF UNCHANGED inCat THEN Refused(r) ELSE Wrote(r)
    BY DEF StoreProduct
<1> QED
    BY <1>1, ProductStored, KeepsRefused DEF CatTables

\* A product is deleted, at any time.
LEMMA KeepsDeleteProduct ==
    ASSUME CategoriesIInv, NEW p \in CatProducts, DeleteProduct(p)
    PROVE  CategoriesIInv'
<1> DEFINE row == [life |-> "deleted", cat |-> NoCat]
<1>1. row \in ProductRow /\ row.life # "live"
    BY DEF ProductRow, Lives
<1>2. inCat' = [inCat EXCEPT ![p] = row] /\ UNCHANGED <<backend, tree, catJob, dirty, raced>>
    BY DEF DeleteProduct
<1> HIDE DEF row
<1>3. TreeSoundUnlessRaced' /\ inCat' \in [CatProducts -> ProductRow]
    BY <1>1, <1>2, ProductPut DEF CategoriesIInv, CatalogRowsOK
<1>4. CatalogRowsOK'
    BY <1>2, <1>3 DEF CategoriesIInv, CatalogRowsOK
<1>5. LiveCats' = LiveCats /\ LiveProducts' \subseteq LiveProducts /\ \A o \in LiveProducts' : inCat'[o] = inCat[o]
    BY <1>1, <1>2 DEF LiveCats, LiveProducts, CategoriesIInv, CatalogRowsOK
<1>6. ASSUME NEW r \in Requests \ dirty' PROVE ChecksHold(catJob[r])'
  <2>1. ChecksHold(catJob[r])
      BY <1>2, <1>6 DEF CategoriesIInv
  <2>2. \A x : Parent(x)' = Parent(x)
      BY <1>2, <1>5 DEF Parent
  <2>3. \A U : GoesUp(U)' <=> GoesUp(U)
      BY <2>2 DEF GoesUp
  <2> QED
      BY <1>2, <1>5, <2>1, <2>2, <2>3 DEF ChecksHold, Walked, NotAbove, Refers
<1> QED
    BY <1>2, <1>3, <1>4, <1>6 DEF CategoriesIInv, JobFits
-----------------------------------------------------------------------------
\* A request begins.
LEMMA KeepsEnter ==
    ASSUME CategoriesIInv, NEW r \in Requests, NEW q \in CatJob, Enter(r, q), Reading, JobFits(q), ChecksHold(q)
    PROVE  CategoriesIInv'
<1>1. catJob' = [catJob EXCEPT ![r] = q] /\ UNCHANGED <<backend, tree, inCat, raced>> /\ dirty' = dirty
    BY DEF Enter, Reading, CatTables
<1> QED
    BY <1>1, CatJobMoves

\* A request about a category begins, with its parent to be looked up or none.
LEMMA CategoryBegins ==
    ASSUME CategoriesIInv, NEW r \in Requests, NEW q \in CatJob, Enter(r, q), Reading,
           q.pc = AfterSlug(q.parent), q.slug \in Slugs, q.op = "update" => q.cat \in Cats
    PROVE  CategoriesIInv'
<1>1. \/ q.pc = "write" /\ q.parent = NoCat
      \/ q.pc = "parent" /\ q.parent \in Cats
  <2>1. q.parent \in Cats \cup {NoCat}
      BY DEF CatJob
  <2> QED
      BY <2>1 DEF AfterSlug
<1>2. JobFits(q) /\ ChecksHold(q)
    BY <1>1 DEF JobFits, ChecksHold, Refers
<1> QED
    BY <1>2, KeepsEnter

\* A category is to be created or changed.
LEMMA KeepsHandleCategory ==
    ASSUME CategoriesIInv, NEW r \in Requests, HandleCreateCategory(r) \/ HandleUpdateCategory(r)
    PROVE  CategoriesIInv'
<1>1. CASE HandleCreateCategory(r)
  <2>1. PICK s \in Slugs, p \in LiveCats \cup {NoCat}, wasListed \in BOOLEAN :
          AddCategory(r, s, p, wasListed) /\ Reading
      BY <1>1 DEF HandleCreateCategory
  <2> DEFINE q == [NoCatJob EXCEPT !.pc = AfterSlug(p), !.op = "add", !.slug = s, !.parent = p]
  <2>2. q \in CatJob /\ q.pc = AfterSlug(p) /\ q.op = "add" /\ q.slug = s /\ q.parent = p
      BY DEF NoCatJob, CatJob, AfterSlug, LiveCats
  <2>3. Enter(r, q)
      BY <2>1 DEF AddCategory
  <2> HIDE DEF q
  <2> QED
      BY <2>1, <2>2, <2>3, CategoryBegins
<1>2. CASE HandleUpdateCategory(r)
  <2>1. PICK c \in LiveCats, s \in Slugs, p \in LiveCats \cup {NoCat}, wasListed \in BOOLEAN :
          UpdateCategory(r, c, s, p, wasListed) /\ Reading
      BY <1>2 DEF HandleUpdateCategory
  <2> DEFINE q == [NoCatJob EXCEPT !.pc = AfterSlug(p), !.op = "update", !.cat = c, !.slug = s, !.parent = p]
  <2>2. /\ q \in CatJob /\ q.pc = AfterSlug(p) /\ q.op = "update" /\ q.slug = s /\ q.parent = p
        /\ q.cat = c /\ c \in Cats
      BY DEF NoCatJob, CatJob, AfterSlug, LiveCats
  <2>3. Enter(r, q)
      BY <2>1 DEF UpdateCategory
  <2> HIDE DEF q
  <2> QED
      BY <2>1, <2>2, <2>3, CategoryBegins
<1> QED
    BY <1>1, <1>2

\* A category is to be deleted, once its products have been looked for.
LEMMA KeepsHandleDelete ==
    ASSUME CategoriesIInv, NEW r \in Requests, HandleDeleteCategory(r)
    PROVE  CategoriesIInv'
<1>1. PICK c \in LiveCats : DeleteCategory(r, c) /\ Reading
    BY DEF HandleDeleteCategory
<1> DEFINE q == [NoCatJob EXCEPT !.pc = "children", !.cat = c]
<1>2. q \in CatJob /\ q.pc = "children" /\ q.cat = c /\ c \in Cats
    BY DEF NoCatJob, CatJob, LiveCats
<1>3. Enter(r, q)
    BY <1>1 DEF DeleteCategory
<1> HIDE DEF q
<1>4. \A p \in LiveProducts : inCat[p].cat # c
    BY <1>1, <1>2, CategoriesAssumption DEF DeleteCategory, ListProducts, PgListProducts, MgListProducts, On
<1>5. JobFits(q) /\ ChecksHold(q)
    BY <1>2, <1>4 DEF JobFits, ChecksHold
<1> QED
    BY <1>1, <1>2, <1>3, <1>5, KeepsEnter

\* A product is to be stored in a category that has been found.
LEMMA KeepsHandleProduct ==
    ASSUME CategoriesIInv, NEW r \in Requests, HandleCreateProduct(r) \/ HandleUpdateProduct(r)
    PROVE  CategoriesIInv'
<1>1. PICK op \in {"add", "update"}, p \in CatProducts, c \in Cats :
        /\ CategoryByID(c) # {} /\ Reading
        /\ Enter(r, [NoCatJob EXCEPT !.pc = "store", !.op = op, !.cat = c, !.product = {p}])
    BY DEF HandleCreateProduct, HandleUpdateProduct, FileProduct, RefileProduct, LiveProducts
<1> DEFINE q == [NoCatJob EXCEPT !.pc = "store", !.op = op, !.cat = c, !.product = {p}]
<1>2. q \in CatJob /\ q.pc = "store" /\ q.cat = c
    BY DEF NoCatJob, CatJob
<1> HIDE DEF q
<1>3. c \in LiveCats
    BY <1>1 DEF CategoryByID, PgCategoryByID, MgCategoryByID, On
<1>4. JobFits(q) /\ ChecksHold(q)
    BY <1>2, <1>3 DEF JobFits, ChecksHold
<1>5. Enter(r, q)
    BY <1>1 DEF q
<1> QED
    BY <1>1, <1>2, <1>4, <1>5, KeepsEnter

\* A request goes on with what it has, at another place.
LEMMA CatJobGoes ==
    ASSUME CategoriesIInv, NEW r \in Requests, NEW q \in CatJob, catJob' = [catJob EXCEPT ![r] = q], Reading,
           JobFits(q), ChecksHold(catJob[r]) => ChecksHold(q)
    PROVE  CategoriesIInv'
<1>1. UNCHANGED <<backend, tree, inCat, raced>> /\ dirty' = dirty
    BY DEF Reading, CatTables
<1>2. r \notin dirty' => ChecksHold(q)
    BY <1>1 DEF CategoriesIInv
<1> QED
    BY <1>1, <1>2, CatJobMoves

\* The parent is looked up, and for a category that exists the walk begins at it.
LEMMA KeepsCheckParent ==
    ASSUME CategoriesIInv, NEW r \in Requests, CheckParent(r)
    PROVE  CategoriesIInv'
<1> DEFINE o == catJob[r]
           q == [o EXCEPT !.pc = "walk", !.at = o.parent, !.visited = {o.cat}]
           w == [o EXCEPT !.pc = "write"]
<1>1. CASE Refused(r) /\ UNCHANGED CatTables
    BY <1>1, KeepsRefused
<1>2. CASE CategoryByID(o.parent) # {} /\ catJob' = [catJob EXCEPT ![r] = IF o.op = "add" THEN w ELSE q] /\ Reading
  <2>1. o \in CatJob /\ JobFits(o) /\ o.pc = "parent" /\ o.op \in {"add", "update"}
      BY DEF CategoriesIInv, CatalogRowsOK, CheckParent, CatJob
  <2>2. o.parent \in LiveCats
      BY <1>2 DEF CategoryByID, PgCategoryByID, MgCategoryByID, On
  <2>3. CASE o.op = "add"
    <3>1. w \in CatJob /\ w.pc = "write" /\ w.op = "add" /\ w.slug = o.slug /\ w.parent = o.parent
        BY <2>1, <2>3 DEF CatJob
    <3> HIDE DEF o, w
    <3>2. JobFits(w) /\ ChecksHold(w)
        BY <2>1, <2>2, <3>1 DEF JobFits, ChecksHold, Refers
    <3> QED
        BY <1>2, <2>3, <3>1, <3>2, CatJobGoes
  <2>4. CASE o.op # "add"
    <3>1. /\ q \in CatJob /\ q.pc = "walk" /\ q.op = "update" /\ q.slug = o.slug /\ q.parent = o.parent
          /\ q.at = o.parent /\ q.visited = {o.cat} /\ q.cat = o.cat
        BY <2>1, <2>4 DEF CatJob, JobFits
    <3> HIDE DEF o, q
    <3>2. JobFits(q) /\ ChecksHold(q)
        BY <2>1, <2>2, <2>4, <3>1 DEF JobFits, ChecksHold, Refers, Walked
    <3> QED
        BY <1>2, <2>4, <3>1, <3>2, CatJobGoes
  <2> QED
      BY <2>3, <2>4
<1> QED
    BY <1>1, <1>2 DEF CheckParent

\* The walk goes up one category, or is over: the categories passed and the last one show that
\* the category is not above its parent.
LEMMA KeepsWalk ==
    ASSUME CategoriesIInv, NEW r \in Requests, detectCategoryCycle(r)
    PROVE  CategoriesIInv'
<1> DEFINE o == catJob[r]
           up == tree[o.at].parent
           q == [o EXCEPT !.at = up, !.visited = @ \cup {o.at}]
           w == [o EXCEPT !.pc = "write"]
<1>1. /\ o \in CatJob /\ JobFits(o) /\ o.pc = "walk"
      /\ catJob \in [Requests -> CatJob] /\ tree \in [Cats -> CatRow]
    BY DEF CategoriesIInv, CatalogRowsOK, detectCategoryCycle
<1>2. CASE Refused(r) /\ UNCHANGED CatTables
    BY <1>2, KeepsRefused
<1>3. CASE /\ o.at \notin o.visited /\ Reading
           /\ CategoryByID(o.at) = {} \/ up = NoCat
           /\ CatGoto(r, "write")
  <2>1. Parent(o.at) = NoCat
      BY <1>3 DEF Parent, CategoryByID, PgCategoryByID, MgCategoryByID, On, LiveCats
  <2>2. /\ w \in CatJob /\ w.pc = "write" /\ w.op = o.op /\ w.slug = o.slug /\ w.parent = o.parent
        /\ w.cat = o.cat /\ catJob' = [catJob EXCEPT ![r] = w]
      BY <1>1, <1>3 DEF CatJob, CatGoto
  <2>3. o.visited \in SUBSET Cats /\ o.at \in Cats \cup {NoCat}
      BY <1>1 DEF CatJob
  <2> HIDE DEF o, w
  <2>4. JobFits(w)
      BY <1>1, <2>2 DEF JobFits
  <2>5. ASSUME ChecksHold(o) PROVE ChecksHold(w)
    <3> DEFINE U == (o.visited \ {o.cat}) \cup {o.at}
    <3>1. U \in SUBSET (Cats \cup {NoCat}) /\ o.parent \in U /\ o.cat \notin U /\ GoesUp(U)
        BY <1>1, <1>3, <2>1, <2>3, <2>5 DEF ChecksHold, Walked, GoesUp
    <3>2. NotAbove(o.cat, o.parent)
        BY <3>1 DEF NotAbove
    <3> QED
        BY <1>1, <2>2, <2>5, <3>2 DEF ChecksHold
  <2> QED
      BY <1>3, <2>2, <2>4, <2>5, CatJobGoes DEF o
<1>4. CASE /\ o.at \notin o.visited /\ Reading
           /\ CategoryByID(o.at) # {} /\ up # NoCat
           /\ catJob' = [catJob EXCEPT ![r].at = up, ![r].visited = @ \cup {o.at}]
  <2>1. o.at \in LiveCats /\ o.at \in Cats /\ Parent(o.at) = up /\ up \in Cats \cup {NoCat}
      BY <1>1, <1>4 DEF Parent, CategoryByID, PgCategoryByID, MgCategoryByID, On, LiveCats, CatRow
  <2>2. /\ q \in CatJob /\ q.pc = "walk" /\ q.op = o.op /\ q.slug = o.slug /\ q.parent = o.parent
        /\ q.cat = o.cat /\ q.at = up /\ q.visited = o.visited \cup {o.at}
      BY <1>1, <2>1 DEF CatJob
  <2>3. catJob' = [catJob EXCEPT ![r] = q]
      BY <1>1, <1>4
  <2> HIDE DEF o, q, up
  <2>4. JobFits(q)
      BY <1>1, <2>2 DEF JobFits
  <2>5. ASSUME ChecksHold(o) PROVE ChecksHold(q)
    <3>1. Refers(q.parent) /\ Walked(o)
        BY <1>1, <2>2, <2>5 DEF ChecksHold
    <3>2. Walked(q)
        BY <1>4, <2>1, <2>2, <3>1 DEF Walked
    <3> QED
        BY <2>2, <3>1, <3>2 DEF ChecksHold
  <2> QED
      BY <1>4, <2>2, <2>3, <2>4, <2>5, CatJobGoes DEF o
<1> QED
    BY <1>2, <1>3, <1>4 DEF detectCategoryCycle

\* The children of a category that is to be deleted are looked for.
LEMMA KeepsCheckChildren ==
    ASSUME CategoriesIInv, NEW r \in Requests, CheckChildren(r)
    PROVE  CategoriesIInv'
<1> DEFINE o == catJob[r]
           q == [o EXCEPT !.pc = "erase"]
<1>1. o \in CatJob /\ JobFits(o) /\ o.pc = "children"
    BY DEF CategoriesIInv, CatalogRowsOK, CheckChildren
<1>2. CASE Refused(r) /\ UNCHANGED CatTables
    BY <1>2, KeepsRefused
<1>3. CASE Children(o.cat) = {} /\ CatGoto(r, "erase") /\ Reading
  <2>1. q \in CatJob /\ q.pc = "erase" /\ q.cat = o.cat /\ catJob' = [catJob EXCEPT ![r] = q]
      BY <1>1, <1>3 DEF CatJob, CatGoto
  <2>2. \A x \in LiveCats : tree[x].parent # o.cat
      BY <1>3 DEF Children, ListCategories, PgListCategories, MgListCategories, On
  <2> HIDE DEF o, q
  <2>3. JobFits(q) /\ (ChecksHold(o) => ChecksHold(q))
      BY <1>1, <2>1, <2>2 DEF JobFits, ChecksHold
  <2> QED
      BY <1>3, <2>1, <2>3, CatJobGoes DEF o
<1> QED
    BY <1>2, <1>3 DEF CheckChildren

\* There is nothing at first.
LEMMA CategoriesStart == CategoriesInit => CategoriesIInv
<1> SUFFICES ASSUME CategoriesInit PROVE CategoriesIInv
    OBVIOUS
<1>1. \A r \in Requests : catJob[r] = NoCatJob
    BY DEF CategoriesInit
<1>2. LiveCats = {} /\ LiveProducts = {}
    BY DEF CategoriesInit, LiveCats, LiveProducts, NoRow
<1>3. CatalogRowsOK
    BY IdleCatJob DEF CategoriesInit, CatalogRowsOK, NoRow, CatRow, ProductRow, Lives
<1>4. TreeSoundUnlessRaced
    BY <1>2 DEF TreeSoundUnlessRaced, Acyclic, NoneDangling, EveryProductFiled
<1> QED
    BY <1>1, <1>3, <1>4, IdleCatJob DEF CategoriesIInv

\* Every step keeps the invariant.
LEMMA CategoriesKeep == CategoriesIInv /\ [CategoriesNext]_categoriesVars => CategoriesIInv'
<1> SUFFICES ASSUME CategoriesIInv, [CategoriesNext]_categoriesVars PROVE CategoriesIInv'
    OBVIOUS
<1>1. ASSUME NEW r \in Requests,
             \/ HandleCreateCategory(r) \/ HandleUpdateCategory(r) \/ HandleDeleteCategory(r)
             \/ HandleCreateProduct(r) \/ HandleUpdateProduct(r)
      PROVE  CategoriesIInv'
    BY <1>1, KeepsHandleCategory, KeepsHandleDelete, KeepsHandleProduct
<1>2. ASSUME NEW r \in Requests,
             \/ CheckParent(r) \/ detectCategoryCycle(r) \/ WriteCategory(r)
             \/ CheckChildren(r) \/ EraseCategory(r) \/ StoreProduct(r) \/ FailCatalog(r)
      PROVE  CategoriesIInv'
    BY <1>2, KeepsCheckParent, KeepsWalk, KeepsWriteCategory, KeepsCheckChildren, KeepsEraseCategory,
       KeepsStoreProduct, KeepsRefused DEF FailCatalog
<1>3. CASE HandleDeleteProduct
    BY <1>3, KeepsDeleteProduct DEF HandleDeleteProduct
<1>4. CASE UNCHANGED categoriesVars
  <2>1. CatalogRowsOK' /\ TreeSoundUnlessRaced'
      BY <1>4, SameRows DEF categoriesVars, CategoriesIInv, CatalogRowsOK
  <2>2. LiveCats' = LiveCats /\ LiveProducts' = LiveProducts
      BY <1>4 DEF categoriesVars, LiveCats, LiveProducts
  <2>3. \A x : Parent(x)' = Parent(x)
      BY <1>4, <2>2 DEF categoriesVars, Parent
  <2>4. \A U : GoesUp(U)' <=> GoesUp(U)
      BY <2>3 DEF GoesUp
  <2>5. ASSUME NEW r \in Requests \ dirty PROVE ChecksHold(catJob[r])'
    <3>1. ChecksHold(catJob[r])
        BY DEF CategoriesIInv
    <3> QED
        BY <1>4, <2>2, <2>3, <2>4, <3>1 DEF categoriesVars, ChecksHold, Walked, NotAbove, Refers
  <2> QED
      BY <1>4, <2>1, <2>5 DEF categoriesVars, CategoriesIInv, JobFits
<1> QED
    BY <1>1, <1>2, <1>3, <1>4 DEF CategoriesNext

\* The inductive invariant of the categories holds in every reachable state.
THEOREM CategoriesInvariant == CategoriesSpec => []CategoriesIInv
    BY CategoriesStart, CategoriesKeep, PTL DEF CategoriesSpec

\* The checks of the commands keep the categories a forest, and every product in it, for any
\* number of requests of which none writes after another has written under its checks.
THEOREM TreeStaysSound == CategoriesSpec => []TreeSoundUnlessRaced
<1>1. CategoriesIInv => TreeSoundUnlessRaced
    BY DEF CategoriesIInv
<1> QED
    BY <1>1, CategoriesInvariant, PTL

\* From x up to y in m steps, each to the parent.
Paths(x, y, m) ==
    {q \in [0 .. m -> Cats \cup {NoCat}] :
        q[0] = x /\ q[m] = y /\ \A i \in 0 .. m - 1 : q[i + 1] = Parent(q[i])}
Reaches(x, y, n) == \E m \in 0 .. n : Paths(x, y, m) # {}

\* A parent is a category or none; there is nothing above none.
LEMMA ParentFacts ==
    ASSUME CatalogRowsOK
    PROVE  /\ \A x \in Cats \cup {NoCat} : Parent(x) \in Cats \cup {NoCat}
           /\ Parent(NoCat) = NoCat
    BY CategoriesAssumption DEF CatalogRowsOK, CatRow, Parent, LiveCats

\* In no steps one is where one was.
LEMMA ReachesItself ==
    ASSUME NEW x \in Cats \cup {NoCat}, NEW y
    PROVE  Reaches(x, y, 0) <=> x = y
<1>1. ASSUME x = y PROVE Paths(x, y, 0) # {}
  <2>1. [i \in 0 .. 0 |-> x] \in Paths(x, y, 0)
      BY <1>1 DEF Paths
  <2> QED
      BY <2>1
<1>2. ASSUME Reaches(x, y, 0) PROVE x = y
    BY <1>2 DEF Reaches, Paths
<1> QED
    BY <1>1, <1>2 DEF Reaches

\* One more step at the end.
LEMMA ReachesLast ==
    ASSUME CatalogRowsOK, NEW x \in Cats \cup {NoCat}, NEW y \in Cats \cup {NoCat}, NEW n \in Nat \ {0}
    PROVE  Reaches(x, y, n) <=>
               \/ Reaches(x, y, n - 1)
               \/ \E z \in Cats \cup {NoCat} : Reaches(x, z, n - 1) /\ y = Parent(z)
<1> DEFINE C == Cats \cup {NoCat}
<1>1. ASSUME Reaches(x, y, n), ~Reaches(x, y, n - 1)
      PROVE  \E z \in C : Reaches(x, z, n - 1) /\ y = Parent(z)
  <2>1. PICK q \in Paths(x, y, n) : TRUE
    <3>1. PICK m \in 0 .. n : Paths(x, y, m) # {}
        BY <1>1 DEF Reaches
    <3>2. m = n
        BY <1>1, <3>1 DEF Reaches
    <3> QED
        BY <3>1, <3>2
  <2>2. [i \in 0 .. n - 1 |-> q[i]] \in Paths(x, q[n - 1], n - 1)
      BY <2>1 DEF Paths
  <2>3. y = Parent(q[n - 1]) /\ q[n - 1] \in C
    <3>1. n - 1 \in 0 .. n - 1 /\ n - 1 \in 0 .. n /\ (n - 1) + 1 = n
        OBVIOUS
    <3>2. q[(n - 1) + 1] = Parent(q[n - 1]) /\ q[n] = y /\ q \in [0 .. n -> C]
        BY <2>1, <3>1 DEF Paths
    <3> QED
        BY <3>1, <3>2
  <2>4. Reaches(x, q[n - 1], n - 1)
    <3>1. n - 1 \in 0 .. n - 1
        OBVIOUS
    <3> QED
        BY <2>2, <3>1 DEF Reaches
  <2> QED
      BY <2>3, <2>4
<1>2. ASSUME Reaches(x, y, n - 1) PROVE Reaches(x, y, n)
    BY <1>2 DEF Reaches
<1>3. ASSUME NEW z \in C, Reaches(x, z, n - 1), y = Parent(z) PROVE Reaches(x, y, n)
  <2>1. PICK m \in 0 .. n - 1 : Paths(x, z, m) # {}
      BY <1>3 DEF Reaches
  <2>2. PICK q \in Paths(x, z, m) : TRUE
      BY <2>1
  <2> DEFINE p == [i \in 0 .. m + 1 |-> IF i <= m THEN q[i] ELSE y]
  <2>3. p \in [0 .. m + 1 -> C] /\ p[0] = x /\ p[m + 1] = y
      BY <2>2 DEF Paths
  <2>4. ASSUME NEW i \in 0 .. (m + 1) - 1 PROVE p[i + 1] = Parent(p[i])
    <3>1. CASE i < m
      <4>1. i \in 0 .. m - 1 /\ p[i] = q[i] /\ p[i + 1] = q[i + 1]
          BY <3>1
      <4> QED
          BY <2>2, <4>1 DEF Paths
    <3>2. CASE i = m
      <4>1. p[i] = q[m] /\ p[i + 1] = y
          BY <3>2
      <4> QED
          BY <1>3, <2>2, <4>1 DEF Paths
    <3> QED
        BY <3>1, <3>2
  <2>5. p \in Paths(x, y, m + 1) /\ m + 1 \in 0 .. n
    <3> HIDE DEF p
    <3> QED
        BY <2>3, <2>4 DEF Paths
  <2> QED
      BY <2>5 DEF Reaches
<1> QED
    BY <1>1, <1>2, <1>3

\* One more step at the start.
LEMMA ReachesFirst ==
    ASSUME CatalogRowsOK, NEW x \in Cats \cup {NoCat}, NEW y \in Cats \cup {NoCat}, NEW n \in Nat \ {0}
    PROVE  Reaches(x, y, n) <=> Reaches(x, y, n - 1) \/ Reaches(Parent(x), y, n - 1)
<1> DEFINE C == Cats \cup {NoCat}
<1>1. ASSUME Reaches(x, y, n), ~Reaches(x, y, n - 1) PROVE Reaches(Parent(x), y, n - 1)
  <2>1. PICK q \in Paths(x, y, n) : TRUE
    <3>1. PICK m \in 0 .. n : Paths(x, y, m) # {}
        BY <1>1 DEF Reaches
    <3>2. m = n
        BY <1>1, <3>1 DEF Reaches
    <3> QED
        BY <3>1, <3>2
  <2> DEFINE p == [i \in 0 .. n - 1 |-> q[i + 1]]
  <2>2. p \in [0 .. n - 1 -> C] /\ p[n - 1] = y
      BY <2>1 DEF Paths
  <2>3. p[0] = Parent(x)
    <3>1. 0 \in 0 .. n - 1 /\ q[0 + 1] = Parent(q[0]) /\ q[0] = x
        BY <2>1 DEF Paths
    <3> QED
        BY <3>1
  <2>4. ASSUME NEW i \in 0 .. (n - 1) - 1 PROVE p[i + 1] = Parent(p[i])
    <3>1. i + 1 \in 0 .. n - 1 /\ p[i] = q[i + 1] /\ p[i + 1] = q[(i + 1) + 1]
        OBVIOUS
    <3> QED
        BY <2>1, <3>1 DEF Paths
  <2>5. p \in Paths(Parent(x), y, n - 1) /\ n - 1 \in 0 .. n - 1
    <3> HIDE DEF p
    <3> QED
        BY <2>2, <2>3, <2>4 DEF Paths
  <2> QED
      BY <2>5 DEF Reaches
<1>2. ASSUME Reaches(x, y, n - 1) PROVE Reaches(x, y, n)
    BY <1>2 DEF Reaches
<1>3. ASSUME Reaches(Parent(x), y, n - 1) PROVE Reaches(x, y, n)
  <2>1. PICK m \in 0 .. n - 1 : Paths(Parent(x), y, m) # {}
      BY <1>3 DEF Reaches
  <2>2. PICK q \in Paths(Parent(x), y, m) : TRUE
      BY <2>1
  <2> DEFINE p == [i \in 0 .. m + 1 |-> IF i = 0 THEN x ELSE q[i - 1]]
  <2>3. p \in [0 .. m + 1 -> C] /\ p[0] = x /\ p[m + 1] = y
      BY <2>2 DEF Paths
  <2>4. ASSUME NEW i \in 0 .. (m + 1) - 1 PROVE p[i + 1] = Parent(p[i])
    <3>1. CASE i = 0
        BY <2>2, <3>1 DEF Paths
    <3>2. CASE i # 0
      <4>1. i - 1 \in 0 .. m - 1 /\ p[i] = q[i - 1] /\ p[i + 1] = q[(i - 1) + 1]
          BY <3>2
      <4> QED
          BY <2>2, <4>1 DEF Paths
    <3> QED
        BY <3>1, <3>2
  <2>5. p \in Paths(x, y, m + 1) /\ m + 1 \in 0 .. n
    <3> HIDE DEF p
    <3> QED
        BY <2>3, <2>4 DEF Paths
  <2> QED
      BY <2>5 DEF Reaches
<1> QED
    BY <1>1, <1>2, <1>3

\* From nowhere one reaches no category: the first step out of it would leave NoCat.
LEMMA NoneReaches ==
    ASSUME CatalogRowsOK, NEW c \in Cats, NEW n \in Nat
    PROVE  ~Reaches(NoCat, c, n)
<1> SUFFICES ASSUME NEW m \in 0 .. n, NEW q \in Paths(NoCat, c, m) PROVE FALSE
    BY DEF Reaches
<1> DEFINE Out == {i \in Nat : i \in 0 .. m /\ q[i] # NoCat}
<1>1. m \in Out
    BY CategoriesAssumption DEF Paths
<1>2. PICK i \in Out : \A j \in Out : ~(<<j, i>> \in OpToRel(<, Nat))
    BY <1>1, NatLessThanWellFounded, WFMin
<1>3. i # 0
    BY DEF Paths
<1>4. i - 1 \in 0 .. m - 1 /\ i - 1 \in Nat /\ q[(i - 1) + 1] = q[i]
    BY <1>3
<1>5. q[i - 1] = NoCat
  <2>1. <<i - 1, i>> \in OpToRel(<, Nat)
      BY <1>4 DEF OpToRel
  <2>2. i - 1 \notin Out
      BY <1>2, <2>1
  <2>3. i - 1 \in 0 .. m
      BY <1>4
  <2> QED
      BY <1>4, <2>2, <2>3
<1>6. q[(i - 1) + 1] = Parent(NoCat)
    BY <1>4, <1>5 DEF Paths
<1> QED
    BY <1>4, <1>6, ParentFacts

\* The two recursions, and what they compute.
DownBody(c, d) ==
    [n \in 0 .. Cardinality(Cats) |->
        IF n = 0 THEN {c} ELSE d[n - 1] \cup {x \in ListCategories : tree[x].parent \in d[n - 1]}]
UpBody(k, u) ==
    [n \in 0 .. Cardinality(Cats) |->
        IF n = 0 THEN {k} ELSE u[n - 1] \cup {Parent(x) : x \in u[n - 1]}]
Below(c, n) == {x \in Cats : Reaches(x, c, n)}
AtOrAbove(k, n) == {y \in Cats \cup {NoCat} : Reaches(k, y, n)}

\* What lies below c satisfies the recursion of getCategoryDescendants.
LEMMA BelowRecursion ==
    ASSUME CatalogRowsOK, NEW c \in LiveCats, NEW n \in Nat
    PROVE  Below(c, n) = IF n = 0 THEN {c}
                         ELSE Below(c, n - 1) \cup {x \in ListCategories : tree[x].parent \in Below(c, n - 1)}
<1>1. c \in Cats /\ c \in Cats \cup {NoCat}
    BY DEF LiveCats
<1>2. CASE n = 0
    BY <1>1, <1>2, ReachesItself DEF Below
<1>3. CASE n # 0
  <2>1. n \in Nat \ {0} /\ n - 1 \in Nat
      BY <1>3
  <2>2. ASSUME NEW x \in Cats
        PROVE  Reaches(x, c, n) <=> Reaches(x, c, n - 1) \/ (x \in LiveCats /\ tree[x].parent \in Below(c, n - 1))
    <3>1. Reaches(x, c, n) <=> Reaches(x, c, n - 1) \/ Reaches(Parent(x), c, n - 1)
        BY <1>1, <2>1, ReachesFirst
    <3>2. Parent(x) = NoCat => ~Reaches(Parent(x), c, n - 1)
        BY <1>1, <2>1, NoneReaches
    <3>3. x \notin LiveCats => Parent(x) = NoCat
        BY DEF Parent
    <3>4. x \in LiveCats => Parent(x) = tree[x].parent
        BY DEF Parent
    <3>5. Parent(x) \in Cats \cup {NoCat}
        BY ParentFacts
    <3> QED
        BY <3>1, <3>2, <3>3, <3>4, <3>5, CategoriesAssumption DEF Below
  <2>3. ListCategories = LiveCats /\ LiveCats \subseteq Cats
      BY DEF ListCategories, On, PgListCategories, MgListCategories, LiveCats
  <2>4. Below(c, n) = Below(c, n - 1) \cup {x \in LiveCats : tree[x].parent \in Below(c, n - 1)}
    <3>1. \A x : x \in Below(c, n) <=> x \in Cats /\ Reaches(x, c, n)
        BY DEF Below
    <3>2. \A x : x \in Below(c, n - 1) <=> x \in Cats /\ Reaches(x, c, n - 1)
        BY DEF Below
    <3> QED
        BY <2>2, <2>3, <3>1, <3>2
  <2> QED
      BY <1>3, <2>3, <2>4
<1> QED
    BY <1>2, <1>3

\* What lies above k satisfies that of Above.
LEMMA AboveRecursion ==
    ASSUME CatalogRowsOK, NEW k \in Cats \cup {NoCat}, NEW n \in Nat
    PROVE  AtOrAbove(k, n) = IF n = 0 THEN {k}
                             ELSE AtOrAbove(k, n - 1) \cup {Parent(x) : x \in AtOrAbove(k, n - 1)}
<1>1. CASE n = 0
    BY <1>1, ReachesItself DEF AtOrAbove
<1>2. CASE n # 0
  <2>1. n \in Nat \ {0} /\ n - 1 \in Nat
      BY <1>2
  <2>2. ASSUME NEW y \in Cats \cup {NoCat}
        PROVE  Reaches(k, y, n) <=> Reaches(k, y, n - 1) \/ \E z \in AtOrAbove(k, n - 1) : y = Parent(z)
    <3>1. Reaches(k, y, n) <=>
              \/ Reaches(k, y, n - 1)
              \/ \E z \in Cats \cup {NoCat} : Reaches(k, z, n - 1) /\ y = Parent(z)
        BY <2>1, ReachesLast
    <3> QED
        BY <3>1 DEF AtOrAbove
  <2>3. \A x \in AtOrAbove(k, n - 1) : Parent(x) \in Cats \cup {NoCat}
      BY ParentFacts DEF AtOrAbove
  <2>4. \A y : y \in AtOrAbove(k, n) <=> y \in Cats \cup {NoCat} /\ Reaches(k, y, n)
      BY DEF AtOrAbove
  <2>5. \A y : y \in AtOrAbove(k, n - 1) <=> y \in Cats \cup {NoCat} /\ Reaches(k, y, n - 1)
      BY DEF AtOrAbove
  <2> QED
      BY <1>2, <2>2, <2>3, <2>4, <2>5
<1> QED
    BY <1>1, <1>2

\* Whatever satisfies the recursion agrees with it, up to a smallest place where it would not.
LEMMA DownIsBelow ==
    ASSUME CatalogRowsOK, NEW c \in LiveCats
    PROVE  getCategoryDescendants(c) = Below(c, Cardinality(Cats))
<1> DEFINE N == Cardinality(Cats)
           d == CHOOSE d : d = DownBody(c, d)
<1>1. N \in Nat
    BY CategoriesAssumption, FS_CardinalityType
<1>2. getCategoryDescendants(c) = d[N]
    BY DEF getCategoryDescendants, DownBody
<1>3. \E e : e = DownBody(c, e)
  <2> DEFINE e == [n \in 0 .. N |-> Below(c, n)]
  <2>1. ASSUME NEW n \in 0 .. N
        PROVE  e[n] = IF n = 0 THEN {c} ELSE e[n - 1] \cup {x \in ListCategories : tree[x].parent \in e[n - 1]}
    <3>1. n \in Nat /\ (n # 0 => n - 1 \in 0 .. N)
        BY <1>1
    <3>2. e[n] = Below(c, n) /\ (n # 0 => e[n - 1] = Below(c, n - 1))
        BY <3>1
    <3> HIDE DEF e
    <3> QED
        BY <3>1, <3>2, BelowRecursion
  <2>2. e = [n \in 0 .. N |-> e[n]]
      OBVIOUS
  <2> HIDE DEF e
  <2>3. e = DownBody(c, e)
      BY <2>1, <2>2 DEF DownBody
  <2> QED
      BY <2>3
<1>4. d = DownBody(c, d)
    BY <1>3
<1> HIDE DEF d
<1>5. \A n \in 0 .. N :
        d[n] = IF n = 0 THEN {c} ELSE d[n - 1] \cup {x \in ListCategories : tree[x].parent \in d[n - 1]}
    BY <1>4 DEF DownBody
<1> DEFINE Off == {n \in Nat : n \in 0 .. N /\ d[n] # Below(c, n)}
<1>6. Off = {}
  <2>1. SUFFICES ASSUME Off # {} PROVE FALSE
      OBVIOUS
  <2>2. PICK n \in Off : \A j \in Off : ~(<<j, n>> \in OpToRel(<, Nat))
      BY <2>1, NatLessThanWellFounded, WFMin
  <2>3. n # 0
      BY <1>5, BelowRecursion
  <2>4. n - 1 \in Nat /\ n - 1 \in 0 .. N /\ n - 1 < n
      BY <1>1, <2>3
  <2>5. <<n - 1, n>> \in OpToRel(<, Nat)
      BY <2>4 DEF OpToRel
  <2>6. d[n - 1] = Below(c, n - 1)
      BY <2>2, <2>4, <2>5
  <2>7. d[n] = d[n - 1] \cup {x \in ListCategories : tree[x].parent \in d[n - 1]}
      BY <1>5, <2>3
  <2>8. Below(c, n) = Below(c, n - 1) \cup {x \in ListCategories : tree[x].parent \in Below(c, n - 1)}
      BY <2>3, BelowRecursion
  <2> QED
      BY <2>6, <2>7, <2>8
<1> QED
    BY <1>1, <1>2, <1>6

\* Likewise upwards.
LEMMA UpIsAbove ==
    ASSUME CatalogRowsOK, NEW k \in Cats \cup {NoCat}
    PROVE  Above(k) = AtOrAbove(k, Cardinality(Cats)) \ {NoCat}
<1> DEFINE N == Cardinality(Cats)
           u == CHOOSE u : u = UpBody(k, u)
<1>1. N \in Nat
    BY CategoriesAssumption, FS_CardinalityType
<1>2. Above(k) = u[N] \ {NoCat}
    BY DEF Above, UpBody
<1>3. \E e : e = UpBody(k, e)
  <2> DEFINE e == [n \in 0 .. N |-> AtOrAbove(k, n)]
  <2>1. ASSUME NEW n \in 0 .. N
        PROVE  e[n] = IF n = 0 THEN {k} ELSE e[n - 1] \cup {Parent(x) : x \in e[n - 1]}
    <3>1. n \in Nat /\ (n # 0 => n - 1 \in 0 .. N)
        BY <1>1
    <3>2. e[n] = AtOrAbove(k, n) /\ (n # 0 => e[n - 1] = AtOrAbove(k, n - 1))
        BY <3>1
    <3> HIDE DEF e
    <3> QED
        BY <3>1, <3>2, AboveRecursion
  <2>2. e = [n \in 0 .. N |-> e[n]]
      OBVIOUS
  <2> HIDE DEF e
  <2>3. e = UpBody(k, e)
      BY <2>1, <2>2 DEF UpBody
  <2> QED
      BY <2>3
<1>4. u = UpBody(k, u)
    BY <1>3
<1> HIDE DEF u
<1>5. \A n \in 0 .. N : u[n] = IF n = 0 THEN {k} ELSE u[n - 1] \cup {Parent(x) : x \in u[n - 1]}
    BY <1>4 DEF UpBody
<1> DEFINE Off == {n \in Nat : n \in 0 .. N /\ u[n] # AtOrAbove(k, n)}
<1>6. Off = {}
  <2>1. SUFFICES ASSUME Off # {} PROVE FALSE
      OBVIOUS
  <2>2. PICK n \in Off : \A j \in Off : ~(<<j, n>> \in OpToRel(<, Nat))
      BY <2>1, NatLessThanWellFounded, WFMin
  <2>3. n # 0
      BY <1>5, AboveRecursion
  <2>4. n - 1 \in Nat /\ n - 1 \in 0 .. N /\ n - 1 < n
      BY <1>1, <2>3
  <2>5. <<n - 1, n>> \in OpToRel(<, Nat)
      BY <2>4 DEF OpToRel
  <2>6. u[n - 1] = AtOrAbove(k, n - 1)
      BY <2>2, <2>4, <2>5
  <2>7. u[n] = u[n - 1] \cup {Parent(x) : x \in u[n - 1]}
      BY <1>5, <2>3
  <2>8. AtOrAbove(k, n) = AtOrAbove(k, n - 1) \cup {Parent(x) : x \in AtOrAbove(k, n - 1)}
      BY <2>3, AboveRecursion
  <2> QED
      BY <2>6, <2>7, <2>8
<1> QED
    BY <1>1, <1>2, <1>6

\* A path that goes down from c to a product's category goes up from there to c.
LEMMA CategoryAnswersRight == CatalogRowsOK => CategoryAnswersOK
<1> SUFFICES ASSUME CatalogRowsOK, NEW c \in LiveCats
             PROVE  /\ HandleListProducts(c).ok
                    /\ HandleListProducts(c).products =
                           {p \in LiveProducts : inCat[p].cat # NoCat /\ c \in Above(inCat[p].cat)}
    BY DEF CategoryAnswersOK
<1> DEFINE D == Below(c, Cardinality(Cats))
<1>1. c \in Cats /\ c # NoCat
    BY CategoriesAssumption DEF LiveCats
<1>2. HandleListProducts(c) = ListProducts(D)
    BY <1>1, DownIsBelow DEF HandleListProducts, GetProducts
<1>3. NoCat \notin D
    BY CategoriesAssumption DEF Below
<1> HIDE DEF D
<1>4. HandleListProducts(c) = [ok |-> TRUE, products |-> {p \in LiveProducts : inCat[p].cat \in D}]
    BY <1>2, <1>3 DEF ListProducts, On, PgListProducts, MgListProducts
<1>5. ASSUME NEW p \in LiveProducts
      PROVE  inCat[p].cat \in D <=> inCat[p].cat # NoCat /\ c \in Above(inCat[p].cat)
  <2> DEFINE k == inCat[p].cat
  <2>1. k \in Cats \cup {NoCat}
      BY DEF CatalogRowsOK, LiveProducts, ProductRow
  <2>2. k \in D <=> k # NoCat /\ Reaches(k, c, Cardinality(Cats))
      BY <2>1, CategoriesAssumption DEF D, Below
  <2>3. c \in Above(k) <=> Reaches(k, c, Cardinality(Cats))
      BY <1>1, <2>1, UpIsAbove DEF AtOrAbove
  <2> QED
      BY <2>2, <2>3
<1> QED
    BY <1>4, <1>5

\* Every reachable category and product is well typed, and the list of a category is that of the products filed at
\* it or below it, also when racing requests have closed a loop.
THEOREM CategoriesTypes == CategoriesSpec => []CategoriesTypeOK
<1>1. CategoriesIInv => CategoriesTypeOK
    BY CategoryAnswersRight DEF CategoriesIInv, CatalogRowsOK, CategoriesTypeOK
<1> QED
    BY <1>1, CategoriesInvariant, PTL
-----------------------------------------------------------------------------
(* The storefront: all of them side by side.                               *)

\* The storefront keeps every part's types and every query's answer: a step of one part leaves
\* the other parts as they are, so each part behaves as it does by itself.
THEOREM StorefrontTypes == Spec => []TypeOK
<1>1. Init => ShippingInit /\ CartInit /\ CategoriesInit /\ ProductsInit /\ ReviewsInit
  BY DEF Init
<1>2. [Next]_vars => [ShippingNext]_shippingVars
  BY DEF Next, vars, ShippingMoves, CartMoves, CategoriesMove, ProductsMove, ReviewsMove
<1>3. [Next]_vars => [CartNext]_cartVars
  BY DEF Next, vars, ShippingMoves, CartMoves, CategoriesMove, ProductsMove, ReviewsMove
<1>4. [Next]_vars => [CategoriesNext]_categoriesVars
  BY DEF Next, vars, ShippingMoves, CartMoves, CategoriesMove, ProductsMove, ReviewsMove
<1>5. [Next]_vars => [ProductsNext]_productsVars
  BY DEF Next, vars, ShippingMoves, CartMoves, CategoriesMove, ProductsMove, ReviewsMove
<1>6. [Next]_vars => [ReviewsNext]_reviewsVars
  BY DEF Next, vars, ShippingMoves, CartMoves, CategoriesMove, ProductsMove, ReviewsMove
<1>7. TypeOK <=> ShippingTypeOK /\ CartTypeOK /\ CategoriesTypeOK /\ ProductsTypeOK /\ ReviewsTypeOK
  BY DEF TypeOK
<1>8. QED
  BY <1>1, <1>2, <1>3, <1>4, <1>5, <1>6, <1>7, ShippingTypes, CartTypes, CategoriesTypes,
     ProductsTypes, ReviewsTypes, PTL
     DEF Spec, ShippingSpec, CartSpec, CategoriesSpec, ProductsSpec, ReviewsSpec
=============================================================================
