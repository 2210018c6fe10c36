--------------------------- MODULE InventoryProofs ---------------------------
(***************************************************************************)
(* Proofs about Inventory, for any number of locations, reservations,      *)
(* goroutines and failures and any quantities: types, how far below zero a *)
(* row can be, and the conservation of units.  The invariant has to speak  *)
(* of the copies goroutines hold, since any may be what is saved next.     *)
(***************************************************************************)
EXTENDS Inventory, SumProofs

\* Whatever p may still save is covered by a limit its row has had or gets
\* with that save.
Covered(p) ==
    /\ Above(p.item.qty, allowed[p.loc] \cup {p.item.limit})
    /\ Above(p.old, allowed[p.loc])
    /\ Above(p.dest.qty, allowed[p.to])
    /\ p.at \in {"readStock", "readDest"} => p.n >= 0
    /\ p.op = "reserve" => p.n \in Amounts
    /\ p.at = "create" => p.op = "reserve"

\* The copies of all goroutines.
CopiesCovered == \A w \in Workers : Covered(proc[w])

\* The inductive invariant of the quantities.
IInv == TypeOK /\ BelowZeroIsBackordered /\ CopiesCovered

-----------------------------------------------------------------------------
\* The goroutine that does nothing is well typed and holds no copy.
LEMMA IdleFacts ==
    /\ Idle \in ProcState
    /\ Idle.item.qty = 0 /\ Idle.old = 0 /\ Idle.dest.qty = 0 /\ Idle.n = 0
    /\ Idle.at = "idle" /\ Idle.op = "idle"
    /\ Missing \in Row /\ Missing.qty = 0
    /\ Nothing \in Row /\ Nothing.qty = 0
    /\ AnyLocation \in Locations /\ AnyReservation \in Reservations
<1>1. AnyLocation \in Locations BY InventoryAssumption DEF AnyLocation
<1>2. AnyReservation \in Reservations BY InventoryAssumption DEF AnyReservation
<1> QED BY <1>1, <1>2, InventoryAssumption
        DEF Idle, ProcState, Ops, Labels, Missing, Nothing, Row

\* More limits cover no less, and more units need no more cover.
LEMMA AboveMonotone ==
    ASSUME NEW q \in Int, NEW r \in Int, q <= r,
           NEW L \in SUBSET Int, NEW M \in SUBSET Int, L \subseteq M, Above(q, L)
    PROVE  Above(r, M)
BY DEF Above

-----------------------------------------------------------------------------
\* The invariant holds initially.
LEMMA InitInv == Init => IInv
<1> SUFFICES ASSUME Init PROVE IInv OBVIOUS
<1> USE InventoryAssumption, IdleFacts
<1>1. InitialStock * Cardinality(Locations) \in Int BY FS_CardinalityType
<1>2. AnyLocation \in Locations BY DEF AnyLocation
<1>3. TypeOK
  <2>1. stock \in [Locations -> Row] BY DEF Init, Row
  <2>2. resv \in [Reservations -> Reservation] BY <1>2 DEF Init, Reservation
  <2>3. proc \in [Workers -> ProcState] BY DEF Init
  <2>4. pending \in [Quantities -> Nat] /\ catalog \in Quantities BY DEF Init
  <2>5. ledger \in Int /\ damaged \in BOOLEAN BY <1>1 DEF Init
  <2>6. allowed \in [Locations -> SUBSET (Limits \cup {0})] BY DEF Init
  <2>7. requests \in 0..MaxRequests /\ faults \in 0..MaxFaults BY DEF Init
  <2> QED BY <2>1, <2>2, <2>3, <2>4, <2>5, <2>6, <2>7 DEF TypeOK
<1>4. BelowZeroIsBackordered BY DEF Init, BelowZeroIsBackordered, Above
<1>5. CopiesCovered BY DEF Init, CopiesCovered, Covered, Above
<1> QED BY <1>3, <1>4, <1>5 DEF IInv

\* Limits are only added to, so a copy that was covered stays so.
Kept == \A q \in ProcState : Covered(q) => Covered(q)'

\* A step that saves no row keeps every copy covered.
LEMMA NoSave == UNCHANGED allowed => Kept
BY DEF Kept, Covered

\* A save of a covered row keeps rows and copies covered.
LEMMA SaveCovered ==
    ASSUME IInv, NEW k \in Locations, NEW row \in Row, SaveStock(k, row),
           Above(row.qty, allowed[k] \cup {row.limit})
    PROVE  /\ BelowZeroIsBackordered' /\ Kept
           /\ stock' \in [Locations -> Row]
           /\ allowed' \in [Locations -> SUBSET (Limits \cup {0})]
<1> USE InventoryAssumption
<1>1. stock' \in [Locations -> Row] BY DEF IInv, TypeOK, SaveStock, Row
<1>2. allowed' \in [Locations -> SUBSET (Limits \cup {0})]
  BY DEF IInv, TypeOK, SaveStock, Row
<1>3. \A j \in Locations : allowed[j] \subseteq allowed'[j]
  BY DEF IInv, TypeOK, SaveStock
<1>4. BelowZeroIsBackordered'
  <2> SUFFICES ASSUME NEW j \in Locations PROVE Above(stock'[j].qty, allowed'[j])
    BY DEF BelowZeroIsBackordered
  <2>1. CASE j = k BY <2>1 DEF IInv, TypeOK, SaveStock, Row, Above
  <2>2. CASE j # k BY <2>2 DEF IInv, TypeOK, SaveStock, BelowZeroIsBackordered, Above
  <2> QED BY <2>1, <2>2
<1>5. Kept
  <2> SUFFICES ASSUME NEW q \in ProcState, Covered(q) PROVE Covered(q)'
    BY DEF Kept
  <2>1. q.loc \in Locations /\ q.to \in Locations BY DEF ProcState
  <2> QED BY <2>1, <1>3 DEF Covered, Above
<1> QED BY <1>1, <1>2, <1>4, <1>5

\* One goroutine changes its copies; the others keep theirs.
LEMMA OneCopy ==
    ASSUME IInv, NEW w \in Workers, proc' \in [Workers -> ProcState],
           \A v \in Workers \ {w} : proc'[v] = proc[v], Covered(proc[w])', Kept
    PROVE  CopiesCovered'
<1> SUFFICES ASSUME NEW v \in Workers PROVE Covered(proc[v])' BY DEF CopiesCovered
<1>1. CASE v = w BY <1>1
<1>2. CASE v # w
  <2>1. proc'[v] = proc[v] BY <1>2
  <2>2. proc[v] \in ProcState /\ Covered(proc[v]) BY DEF IInv, TypeOK, CopiesCovered
  <2> QED BY <2>1, <2>2 DEF Kept, Covered
<1> QED BY <1>1, <1>2

\* A goroutine that ends, or goes to its next step, holds nothing new.
LEMMA SameCopy ==
    ASSUME IInv, NEW w \in Workers, Kept,
           \/ Finish(w)
           \/ \E l \in Labels \ {"readStock", "readDest"} :
                 Goto(w, l) /\ (l = "create" => proc[w].op = "reserve")
    PROVE  CopiesCovered' /\ proc' \in [Workers -> ProcState]
<1> USE IdleFacts
<1>1. proc[w] \in ProcState /\ Covered(proc[w]) BY DEF IInv, TypeOK, CopiesCovered
<1>2. CASE Finish(w)
  <2>1. proc' \in [Workers -> ProcState] BY <1>2 DEF Finish, IInv, TypeOK
  <2>2. \A v \in Workers \ {w} : proc'[v] = proc[v] BY <1>2 DEF Finish, IInv, TypeOK
  <2>3. Covered(proc[w])' BY <1>2 DEF Finish, IInv, TypeOK, Covered, Above
  <2> QED BY <2>1, <2>2, <2>3, OneCopy
<1>3. ASSUME NEW l \in Labels \ {"readStock", "readDest"}, Goto(w, l),
             l = "create" => proc[w].op = "reserve"
      PROVE  CopiesCovered' /\ proc' \in [Workers -> ProcState]
  <2>1. proc'[w] = [proc[w] EXCEPT !.at = l] BY <1>3 DEF Goto, IInv, TypeOK
  <2>2. proc' \in [Workers -> ProcState] BY <1>1, <1>3 DEF Goto, IInv, TypeOK, ProcState
  <2>3. \A v \in Workers \ {w} : proc'[v] = proc[v] BY <1>3 DEF Goto, IInv, TypeOK
  <2>4. Covered(proc[w])' 
    <3>1. /\ proc'[w].loc = proc[w].loc /\ proc'[w].to = proc[w].to
          /\ proc'[w].item = proc[w].item /\ proc'[w].dest = proc[w].dest
          /\ proc'[w].old = proc[w].old /\ proc'[w].at = l
          /\ proc'[w].op = proc[w].op /\ proc'[w].n = proc[w].n
      BY <1>1, <2>1 DEF ProcState
    <3> QED BY <1>1, <1>3, <3>1 DEF Kept, Covered
  <2> QED BY <2>2, <2>3, <2>4, OneCopy
<1> QED BY <1>2, <1>3

\* A request that reaches a free goroutine and changes no row.
LEMMA NewCopy ==
    ASSUME IInv, NEW w \in Workers, NEW p \in ProcState, Request(w, p),
           UNCHANGED <<rowVars, historyVars, resv, pending, catalog>>,
           NoFault \/ Fault, Covered(p)
    PROVE  IInv'
<1> USE InventoryAssumption
<1>1. proc' \in [Workers -> ProcState] /\ proc'[w] = p BY DEF IInv, TypeOK, Request
<1>2. \A v \in Workers \ {w} : proc'[v] = proc[v] BY DEF IInv, TypeOK, Request
<1>3. Kept BY NoSave DEF rowVars
<1>4. Covered(proc[w])' BY <1>1, <1>3 DEF Kept, Covered
<1>5. CopiesCovered' BY <1>1, <1>2, <1>3, <1>4, OneCopy
<1>6. BelowZeroIsBackordered' BY DEF IInv, BelowZeroIsBackordered, rowVars
<1>7. requests' \in 0..MaxRequests BY DEF IInv, TypeOK, Request
<1>8. faults' \in 0..MaxFaults BY DEF IInv, TypeOK, NoFault, Fault
<1>9. TypeOK' BY <1>1, <1>7, <1>8 DEF IInv, TypeOK, rowVars, historyVars
<1> QED BY <1>5, <1>6, <1>9 DEF IInv

\* The row of a location is well typed and covered.
LEMMA RowFacts ==
    ASSUME IInv, NEW k \in Locations
    PROVE  /\ stock[k] \in Row /\ stock[k].qty \in Int /\ stock[k].limit \in Int
           /\ Above(stock[k].qty, allowed[k])
           /\ allowed[k] \in SUBSET Int
BY InventoryAssumption DEF IInv, TypeOK, BelowZeroIsBackordered, Row

\* ReserveStock: its check covers the copy by the limit it saves.
LEMMA ReserveKeeps ==
    ASSUME IInv, NEW w \in Workers, NEW k \in Locations, NEW n \in Amounts, ReserveStock(w, k, n)
    PROVE  IInv'
<1> USE InventoryAssumption, IdleFacts, RowFacts
<1> DEFINE p == [Idle EXCEPT !.op = "reserve", !.at = "save", !.loc = k, !.n = n,
                             !.item = [stock[k] EXCEPT !.qty = @ - n], !.old = stock[k].qty]
<1>1. [stock[k] EXCEPT !.qty = @ - n] \in Row BY DEF ReserveStock, Row
<1>2. p \in ProcState
  <2>1. stock[k].qty \in Quantities /\ n \in Int BY DEF IInv, TypeOK, Row
  <2> QED BY <1>1, <2>1 DEF Idle, ProcState, Ops, Labels
<1>3. Covered(p)
  BY <1>2 DEF ReserveStock, CanReserve, Covered, Above, Idle, Row
<1>4. /\ Request(w, p) /\ NoFault
      /\ UNCHANGED <<rowVars, historyVars, resv, pending, catalog>>
  BY DEF ReserveStock, NoFault
<1> HIDE DEF p
<1> QED BY <1>2, <1>3, <1>4, NewCopy

\* ReleaseReservation: nothing in hand yet but a positive amount.
LEMMA ReleaseKeeps ==
    ASSUME IInv, NEW w \in Workers, NEW r \in Reservations, ReleaseReservation(w, r)
    PROVE  IInv'
<1> USE InventoryAssumption, IdleFacts
<1> DEFINE p == [Idle EXCEPT !.op = "release", !.at = "readStock", !.res = r,
                             !.loc = resv[r].loc, !.n = resv[r].qty]
<1>1. resv[r].loc \in Locations /\ resv[r].qty \in Int /\ resv[r].qty >= 0
  <2>1. resv[r] \in Reservation BY DEF IInv, TypeOK
  <2>2. resv[r].loc \in Locations /\ resv[r].qty \in Amounts \cup {0} BY <2>1 DEF Reservation
  <2>3. \A a \in Amounts \cup {0} : a \in Int /\ a >= 0 BY InventoryAssumption
  <2> QED BY <2>2, <2>3
<1>2. p \in ProcState BY <1>1 DEF Idle, ProcState, Ops, Labels
<1>3. Covered(p) BY <1>1 DEF Covered, Above, Idle
<1>4. /\ Request(w, p) /\ NoFault
      /\ UNCHANGED <<rowVars, historyVars, resv, pending, catalog>>
  BY DEF ReleaseReservation, NoFault
<1> HIDE DEF p
<1> QED BY <1>2, <1>3, <1>4, NewCopy

\* SetStock: what is set is not negative.
LEMMA SetKeeps ==
    ASSUME IInv, NEW w \in Workers, NEW k \in Locations, NEW q \in Levels, SetStock(w, k, q)
    PROVE  IInv'
<1> USE InventoryAssumption, IdleFacts, RowFacts
<1>1. PICK row \in {stock[k], Missing} : \E l \in Limits \cup {row.limit} :
       /\ ReadOrDefault(k, row)
       /\ Request(w, [Idle EXCEPT !.op = "set", !.at = "save", !.loc = k,
                                  !.item = [row EXCEPT !.qty = q, !.limit = l], !.old = row.qty])
       /\ UNCHANGED <<rowVars, historyVars, resv, pending, catalog>>
  BY DEF SetStock
<1>2. PICK l \in Limits \cup {row.limit} :
       /\ ReadOrDefault(k, row)
       /\ Request(w, [Idle EXCEPT !.op = "set", !.at = "save", !.loc = k,
                                  !.item = [row EXCEPT !.qty = q, !.limit = l], !.old = row.qty])
       /\ UNCHANGED <<rowVars, historyVars, resv, pending, catalog>>
  BY <1>1
<1> DEFINE p == [Idle EXCEPT !.op = "set", !.at = "save", !.loc = k,
                             !.item = [row EXCEPT !.qty = q, !.limit = l], !.old = row.qty]
<1>3. row \in Row /\ row.qty \in Quantities /\ Above(row.qty, allowed[k]) BY DEF Row, Above
<1>4. [row EXCEPT !.qty = q, !.limit = l] \in Row BY <1>3 DEF Row
<1>5. p \in ProcState BY <1>3, <1>4 DEF Idle, ProcState, Ops, Labels
<1>6. Covered(p)
  <2>1. q >= 0 OBVIOUS
  <2>2. /\ p.item.qty = q /\ p.old = row.qty /\ p.dest.qty = 0 /\ p.loc = k /\ p.at = "save" /\ p.op = "set"
    BY <1>3 DEF Idle, Row
  <2> QED BY <1>3, <2>1, <2>2 DEF Covered, Above
<1>7. NoFault \/ Fault BY <1>2 DEF ReadOrDefault
<1> HIDE DEF p
<1> QED BY <1>2, <1>5, <1>6, <1>7, NewCopy DEF p

\* ConfigureStock: the quantity is covered by an earlier limit.
LEMMA ConfigureKeeps ==
    ASSUME IInv, NEW w \in Workers, NEW k \in Locations, NEW l \in Limits, ConfigureStock(w, k, l)
    PROVE  IInv'
<1> USE InventoryAssumption, IdleFacts, RowFacts
<1>1. PICK row \in {stock[k], Missing} :
       /\ ReadOrDefault(k, row)
       /\ Request(w, [Idle EXCEPT !.op = "configure", !.at = "save", !.loc = k,
                                  !.item = [row EXCEPT !.limit = l], !.old = row.qty])
       /\ UNCHANGED <<rowVars, historyVars, resv, pending, catalog>>
  BY DEF ConfigureStock
<1> DEFINE p == [Idle EXCEPT !.op = "configure", !.at = "save", !.loc = k,
                             !.item = [row EXCEPT !.limit = l], !.old = row.qty]
<1>2. row \in Row /\ row.qty \in Quantities /\ Above(row.qty, allowed[k]) BY DEF Row, Above
<1>3. [row EXCEPT !.limit = l] \in Row BY <1>2 DEF Row
<1>4. p \in ProcState BY <1>2, <1>3 DEF Idle, ProcState, Ops, Labels
<1>5. Covered(p) BY <1>2 DEF Covered, Above, Idle, Row
<1>6. NoFault \/ Fault BY <1>1 DEF ReadOrDefault
<1> HIDE DEF p
<1> QED BY <1>1, <1>4, <1>5, <1>6, NewCopy DEF p

\* AdjustStock: a negative result is refused.
LEMMA AdjustKeeps ==
    ASSUME IInv, NEW w \in Workers, NEW k \in Locations, NEW n \in Int, AdjustStock(w, k, n)
    PROVE  IInv'
<1> USE InventoryAssumption, IdleFacts, RowFacts
<1>1. PICK row \in {stock[k], Missing} :
       /\ ReadOrDefault(k, row)
       /\ row.qty + n \in Quantities \cap Nat
       /\ Request(w, [Idle EXCEPT !.op = "adjust", !.at = "save", !.loc = k, !.n = n,
                                  !.item = [row EXCEPT !.qty = @ + n], !.old = row.qty])
       /\ UNCHANGED <<rowVars, historyVars, resv, pending, catalog>>
  BY DEF AdjustStock
<1> DEFINE p == [Idle EXCEPT !.op = "adjust", !.at = "save", !.loc = k, !.n = n,
                             !.item = [row EXCEPT !.qty = @ + n], !.old = row.qty]
<1>2. row \in Row /\ row.qty \in Quantities /\ Above(row.qty, allowed[k]) BY DEF Row, Above
<1>3. [row EXCEPT !.qty = @ + n] \in Row BY <1>1, <1>2 DEF Row
<1>4. p \in ProcState BY <1>2, <1>3 DEF Idle, ProcState, Ops, Labels
<1>5. Covered(p) BY <1>1, <1>2 DEF Covered, Above, Idle, Row
<1>6. NoFault \/ Fault BY <1>1 DEF ReadOrDefault
<1> HIDE DEF p
<1> QED BY <1>1, <1>4, <1>5, <1>6, NewCopy DEF p

\* SyncStock: what is set is not negative.
LEMMA SyncKeeps ==
    ASSUME IInv, NEW w \in Workers, NEW k \in Locations, NEW q \in Levels, SyncStock(w, k, q)
    PROVE  IInv'
<1> USE InventoryAssumption, IdleFacts, RowFacts
<1> DEFINE p == [Idle EXCEPT !.op = "sync", !.at = "save", !.loc = k,
                             !.item = [stock[k] EXCEPT !.qty = q], !.old = stock[k].qty]
<1>1. stock[k].qty \in Quantities /\ [stock[k] EXCEPT !.qty = q] \in Row BY DEF IInv, TypeOK, Row
<1>2. p \in ProcState BY <1>1 DEF Idle, ProcState, Ops, Labels
<1>3. Covered(p) BY <1>1 DEF Covered, Above, Idle, Row
<1>4. /\ Request(w, p) /\ NoFault
      /\ UNCHANGED <<rowVars, historyVars, resv, pending, catalog>>
  BY DEF SyncStock, NoFault
<1> HIDE DEF p
<1> QED BY <1>2, <1>3, <1>4, NewCopy

\* TransferStock: the source keeps at least nothing.
LEMMA TransferKeeps ==
    ASSUME IInv, NEW w \in Workers, NEW k \in Locations, NEW to \in Locations, NEW n \in Amounts,
           TransferStock(w, k, to, n)
    PROVE  IInv'
<1> USE InventoryAssumption, IdleFacts, RowFacts
<1> DEFINE p == [Idle EXCEPT !.op = "transfer", !.at = "readDest", !.loc = k, !.to = to, !.n = n,
                             !.item = [stock[k] EXCEPT !.qty = @ - n], !.old = stock[k].qty]
<1>1. stock[k].qty \in Quantities /\ n \in Int BY DEF IInv, TypeOK, Row
<1>2. [stock[k] EXCEPT !.qty = @ - n] \in Row BY DEF TransferStock, Row
<1>3. p \in ProcState BY <1>1, <1>2 DEF Idle, ProcState, Ops, Labels
<1>4. Covered(p) BY <1>1, <1>2 DEF TransferStock, Covered, Above, Idle, Row
<1>5. /\ Request(w, p) /\ NoFault
      /\ UNCHANGED <<rowVars, historyVars, resv, pending, catalog>>
  BY DEF TransferStock, NoFault
<1> HIDE DEF p
<1> QED BY <1>3, <1>4, <1>5, NewCopy

\* The release adds to a covered quantity.
LEMMA ReadForReleaseKeeps ==
    ASSUME IInv, NEW w \in Workers, ReadForRelease(w)
    PROVE  IInv'
<1> USE InventoryAssumption
<1>1. proc[w] \in ProcState /\ Covered(proc[w]) BY DEF IInv, TypeOK, CopiesCovered
<1>2. proc[w].loc \in Locations /\ proc[w].n \in Int BY <1>1 DEF ProcState
<1>3. Kept BY NoSave DEF ReadForRelease, rowVars
<1>4. CopiesCovered' /\ proc' \in [Workers -> ProcState]
  <2>1. CASE Finish(w) BY <2>1, <1>3, SameCopy
  <2>2. CASE ~Finish(w)
    <3> DEFINE k == proc[w].loc
               row == stock[k]
               sum == row.qty + proc[w].n
    <3>1. /\ sum \in Quantities
          /\ proc' = [proc EXCEPT ![w].at = "save", ![w].item = [row EXCEPT !.qty = sum],
                                  ![w].old = row.qty]
      BY <2>2 DEF ReadForRelease
    <3>2. row \in Row /\ Above(row.qty, allowed[k]) /\ allowed[k] \in SUBSET Int BY <1>2, RowFacts
    <3>3. proc'[w] = [proc[w] EXCEPT !.at = "save", !.item = [row EXCEPT !.qty = sum], !.old = row.qty]
      BY <3>1 DEF IInv, TypeOK
    <3>4. proc'[w] \in ProcState
      <4>1. [row EXCEPT !.qty = sum] \in Row /\ row.qty \in Quantities BY <3>1, <3>2 DEF Row
      <4> HIDE DEF row, sum, k
      <4> QED BY <1>1, <3>3, <4>1 DEF ProcState, Labels
    <3>5. proc' \in [Workers -> ProcState] /\ \A v \in Workers \ {w} : proc'[v] = proc[v]
      BY <3>1, <3>3, <3>4 DEF IInv, TypeOK
    <3>6. /\ proc'[w].loc = k /\ proc'[w].to = proc[w].to /\ proc'[w].dest = proc[w].dest
          /\ proc'[w].item.qty = sum /\ proc'[w].old = row.qty
          /\ proc'[w].at = "save" /\ proc'[w].op = proc[w].op /\ proc'[w].n = proc[w].n
      BY <1>1, <3>2, <3>3 DEF ProcState, Row
    <3>7. proc[w].n >= 0 BY <1>1 DEF Covered, ReadForRelease
    <3>8. Above(proc[w].dest.qty, allowed[proc[w].to]) BY <1>1 DEF Covered
    <3>9. allowed' = allowed BY DEF ReadForRelease, rowVars
    <3>10. Above(sum, allowed[k]) /\ sum \in Int BY <1>2, <3>1, <3>2, <3>7, AboveMonotone DEF Row, Above
    <3>11. Covered(proc[w])'
      <4> HIDE DEF row, sum, k
      <4> QED BY <1>1, <3>2, <3>6, <3>8, <3>9, <3>10 DEF Covered, Above
    <3> QED BY <1>3, <3>5, <3>11, OneCopy
  <2> QED BY <2>1, <2>2
<1>5. BelowZeroIsBackordered' BY DEF IInv, BelowZeroIsBackordered, ReadForRelease, rowVars
<1>6. TypeOK' BY <1>4 DEF IInv, TypeOK, ReadForRelease, rowVars, historyVars
<1> QED BY <1>4, <1>5, <1>6 DEF IInv

\* The transfer adds to a covered quantity.
LEMMA ReadDestinationKeeps ==
    ASSUME IInv, NEW w \in Workers, ReadDestination(w)
    PROVE  IInv'
<1> USE InventoryAssumption
<1>1. proc[w] \in ProcState /\ Covered(proc[w]) BY DEF IInv, TypeOK, CopiesCovered
<1>2. proc[w].to \in Locations /\ proc[w].n \in Int /\ proc[w].n >= 0
  BY <1>1 DEF ProcState, Covered, ReadDestination
<1> DEFINE k == proc[w].to
           n == proc[w].n
<1>3. PICK row \in {stock[k], Missing} :
          /\ ReadOrDefault(k, row)
          /\ row.qty + n \in Quantities
          /\ proc' = [proc EXCEPT ![w].at = "save", ![w].dest = [row EXCEPT !.qty = @ + n]]
  BY DEF ReadDestination
<1>4. row \in Row /\ row.qty \in Int /\ Above(row.qty, allowed[k]) /\ allowed[k] \in SUBSET Int
  BY <1>2, RowFacts, IdleFacts DEF Row, Above
<1> DEFINE new == [row EXCEPT !.qty = @ + n]
<1>5. new \in Row /\ new.qty = row.qty + n BY <1>3, <1>4 DEF Row
<1>6. proc'[w] = [proc[w] EXCEPT !.at = "save", !.dest = new] BY <1>3 DEF IInv, TypeOK
<1>7. Above(new.qty, allowed[k]) BY <1>2, <1>4, <1>5, AboveMonotone DEF Above
<1>8. allowed' = allowed BY DEF ReadDestination, rowVars
<1> HIDE DEF new, k, n
<1>9. proc'[w] \in ProcState BY <1>1, <1>5, <1>6 DEF ProcState, Labels
<1>10. proc' \in [Workers -> ProcState] /\ \A v \in Workers \ {w} : proc'[v] = proc[v]
  BY <1>3, <1>9 DEF IInv, TypeOK
<1>11. /\ proc'[w].loc = proc[w].loc /\ proc'[w].to = k /\ proc'[w].dest = new
       /\ proc'[w].item = proc[w].item /\ proc'[w].old = proc[w].old /\ proc'[w].at = "save"
       /\ proc'[w].op = proc[w].op /\ proc'[w].n = proc[w].n
  BY <1>1, <1>6 DEF ProcState, k
<1>12. Covered(proc[w])' BY <1>1, <1>7, <1>8, <1>11 DEF Covered, Above
<1>13. Kept BY <1>8, NoSave
<1>14. CopiesCovered' BY <1>10, <1>12, <1>13, OneCopy
<1>15. BelowZeroIsBackordered' BY DEF IInv, BelowZeroIsBackordered, ReadDestination, rowVars
<1>16. faults' \in 0..MaxFaults BY <1>3 DEF IInv, TypeOK, ReadOrDefault, NoFault, Fault
<1>17. TypeOK' BY <1>10, <1>16 DEF IInv, TypeOK, ReadDestination, rowVars, historyVars
<1> QED BY <1>14, <1>15, <1>17 DEF IInv

\* What a copy in hand gives the statement that saves it.
LEMMA CopyFacts ==
    ASSUME IInv, NEW w \in Workers
    PROVE  /\ proc[w].loc \in Locations /\ proc[w].to \in Locations
           /\ proc[w].item \in Row /\ proc[w].dest \in Row
           /\ proc[w].item.qty \in Quantities /\ proc[w].dest.qty \in Quantities
           /\ proc[w].old \in Quantities /\ proc[w].n \in Int /\ proc[w].res \in Reservations
           /\ Above(proc[w].item.qty, allowed[proc[w].loc] \cup {proc[w].item.limit})
           /\ Above(proc[w].old, allowed[proc[w].loc])
           /\ Above(proc[w].dest.qty, allowed[proc[w].to])
<1>1. proc[w] \in ProcState /\ Covered(proc[w]) BY DEF IInv, TypeOK, CopiesCovered
<1> QED BY <1>1 DEF ProcState, Covered, Row

\* Failures stay within their bound.
LEMMA CounterFacts ==
    ASSUME IInv, Fault \/ NoFault
    PROVE  faults' \in 0..MaxFaults
BY InventoryAssumption DEF IInv, TypeOK, Fault, NoFault

\* Save: the row is covered by its copy's cover.
LEMMA SaveKeeps ==
    ASSUME IInv, NEW w \in Workers, Save(w)
    PROVE  IInv'
<1> USE InventoryAssumption
<1> DEFINE p == proc[w]
<1>1. \/ SaveStock(p.loc, p.item) /\ ledger' = LedgerAfter(p)
      \/ UNCHANGED <<rowVars, historyVars>>
  BY DEF Save
<1>2. BelowZeroIsBackordered' /\ Kept /\ stock' \in [Locations -> Row]
      /\ allowed' \in [Locations -> SUBSET (Limits \cup {0})]
  <2>1. CASE SaveStock(p.loc, p.item) BY <2>1, CopyFacts, SaveCovered
  <2>2. CASE UNCHANGED <<rowVars, historyVars>>
    BY <2>2, NoSave DEF IInv, BelowZeroIsBackordered, TypeOK, rowVars
  <2> QED BY <1>1, <2>1, <2>2
<1>3. ledger' \in Int
  <2>1. p.item.qty \in Int /\ p.n \in Int /\ stock[p.loc].qty \in Int BY CopyFacts, RowFacts
  <2>2. ledger \in Int BY DEF IInv, TypeOK
  <2>3. CASE ledger' = LedgerAfter(p)
    <3>1. CASE Absolute(p.op) BY <2>1, <2>2, <2>3, <3>1 DEF LedgerAfter
    <3>2. CASE ~Absolute(p.op) /\ p.op = "adjust" BY <2>1, <2>2, <2>3, <3>2 DEF LedgerAfter
    <3>3. CASE ~Absolute(p.op) /\ p.op # "adjust" BY <2>1, <2>2, <2>3, <3>3 DEF LedgerAfter
    <3> QED BY <3>1, <3>2, <3>3
  <2> QED BY <1>1, <2>2, <2>3 DEF historyVars
<1>4. CopiesCovered' /\ proc' \in [Workers -> ProcState]
  <2>1. ASSUME Compound(p.op)
        PROVE  /\ NextStep(p.op) \in Labels \ {"readStock", "readDest"}
               /\ NextStep(p.op) = "create" => p.op = "reserve"
    <3>1. CASE p.op = "reserve" BY <3>1 DEF NextStep, Labels
    <3>2. CASE p.op = "release" BY <3>2 DEF NextStep, Labels
    <3>3. CASE p.op = "transfer" BY <3>3 DEF NextStep, Labels
    <3> QED BY <2>1, <3>1, <3>2, <3>3 DEF Compound
  <2>2. Finish(w) \/ (Compound(p.op) /\ Goto(w, NextStep(p.op))) BY DEF Save
  <2> QED BY <1>2, <2>1, <2>2, SameCopy
<1>5. pending' \in [Quantities -> Nat]
  <2>1. UNCHANGED pending \/ Publish(p.item.qty) BY DEF Save, Announce
  <2> QED BY <2>1, CopyFacts DEF Publish, IInv, TypeOK
<1>6. damaged' \in BOOLEAN BY DEF Save, historyVars, IInv, TypeOK
<1>7. faults' \in 0..MaxFaults BY CounterFacts DEF Save
<1>8. TypeOK' BY <1>2, <1>3, <1>4, <1>5, <1>6, <1>7 DEF Save, IInv, TypeOK
<1> QED BY <1>2, <1>4, <1>8 DEF IInv

\* CreateReservation changes no row.
LEMMA CreateKeeps ==
    ASSUME IInv, NEW w \in Workers, CreateReservation(w)
    PROVE  IInv'
<1> USE InventoryAssumption
<1>1. CopiesCovered' /\ proc' \in [Workers -> ProcState]
  <2>1. Kept BY NoSave DEF CreateReservation, rowVars
  <2>2. Finish(w) \/ Goto(w, "undo") BY DEF CreateReservation
  <2> QED BY <2>1, <2>2, SameCopy DEF Labels
<1>2. resv' \in [Reservations -> Reservation]
  <2>1. proc[w].loc \in Locations BY CopyFacts
  <2>2. proc[w].n \in Amounts BY DEF CreateReservation, IInv, CopiesCovered, Covered
  <2>3. [loc |-> proc[w].loc, qty |-> proc[w].n] \in Reservation BY <2>1, <2>2 DEF Reservation
  <2> QED BY <2>3 DEF CreateReservation, IInv, TypeOK
<1>3. pending' \in [Quantities -> Nat]
  <2>1. UNCHANGED pending \/ Publish(proc[w].item.qty) BY DEF CreateReservation
  <2> QED BY <2>1, CopyFacts DEF Publish, IInv, TypeOK
<1>4. damaged' \in BOOLEAN BY DEF CreateReservation, IInv, TypeOK
<1>5. faults' \in 0..MaxFaults BY CounterFacts DEF CreateReservation
<1>6. TypeOK' BY <1>1, <1>2, <1>3, <1>4, <1>5 DEF CreateReservation, rowVars, IInv, TypeOK
<1>7. BelowZeroIsBackordered' BY DEF CreateReservation, rowVars, IInv, BelowZeroIsBackordered
<1> QED BY <1>1, <1>6, <1>7 DEF IInv

\* DeleteReservation changes no row.
LEMMA DeleteReservationKeeps ==
    ASSUME IInv, NEW w \in Workers, DeleteReservation(w)
    PROVE  IInv'
<1> USE InventoryAssumption
<1>1. CopiesCovered' /\ proc' \in [Workers -> ProcState]
  <2>1. Kept BY NoSave DEF DeleteReservation, rowVars
  <2>2. Finish(w) \/ Goto(w, "undo") BY DEF DeleteReservation
  <2> QED BY <2>1, <2>2, SameCopy DEF Labels
<1>2. resv' \in [Reservations -> Reservation]
  <2>1. UNCHANGED resv \/ resv' = [resv EXCEPT ![proc[w].res].qty = 0] BY DEF DeleteReservation
  <2> QED BY <2>1 DEF Reservation, IInv, TypeOK
<1>3. pending' \in [Quantities -> Nat]
  <2>1. UNCHANGED pending \/ Publish(proc[w].item.qty) BY DEF DeleteReservation
  <2> QED BY <2>1, CopyFacts DEF Publish, IInv, TypeOK
<1>4. damaged' \in BOOLEAN BY DEF DeleteReservation, IInv, TypeOK
<1>5. faults' \in 0..MaxFaults BY CounterFacts DEF DeleteReservation
<1>6. TypeOK' BY <1>1, <1>2, <1>3, <1>4, <1>5 DEF DeleteReservation, rowVars, IInv, TypeOK
<1>7. BelowZeroIsBackordered' BY DEF DeleteReservation, rowVars, IInv, BelowZeroIsBackordered
<1> QED BY <1>1, <1>6, <1>7 DEF IInv

\* SaveDestination: the row is covered by its copy's cover.
LEMMA SaveDestinationKeeps ==
    ASSUME IInv, NEW w \in Workers, SaveDestination(w)
    PROVE  IInv'
<1> USE InventoryAssumption
<1> DEFINE p == proc[w]
<1>1. SaveStock(p.to, p.dest) \/ UNCHANGED rowVars BY DEF SaveDestination
<1>2. BelowZeroIsBackordered' /\ Kept /\ stock' \in [Locations -> Row]
      /\ allowed' \in [Locations -> SUBSET (Limits \cup {0})]
  <2>1. CASE SaveStock(p.to, p.dest)
    <3>1. Above(p.dest.qty, allowed[p.to] \cup {p.dest.limit}) BY CopyFacts DEF Above
    <3> QED BY <2>1, <3>1, CopyFacts, SaveCovered
  <2>2. CASE UNCHANGED rowVars
    BY <2>2, NoSave DEF IInv, BelowZeroIsBackordered, TypeOK, rowVars
  <2> QED BY <1>1, <2>1, <2>2
<1>3. CopiesCovered' /\ proc' \in [Workers -> ProcState]
  <2>1. Finish(w) \/ Goto(w, "undo") BY DEF SaveDestination
  <2> QED BY <1>2, <2>1, SameCopy DEF Labels
<1>4. pending' \in [Quantities -> Nat]
  <2>1. CASE UNCHANGED pending BY <2>1 DEF IInv, TypeOK
  <2>2. CASE pending' = [q \in Quantities |-> pending[q] + Cardinality({k \in {p.loc, p.to} :
                                q = IF k = p.loc THEN p.item.qty ELSE p.dest.qty})]
    <3>1. ASSUME NEW q \in Quantities
          PROVE Cardinality({k \in {p.loc, p.to} :
                                q = IF k = p.loc THEN p.item.qty ELSE p.dest.qty}) \in Nat
      <4>1. IsFiniteSet({p.loc, p.to})
        <5>1. {p.loc, p.to} = {p.loc} \cup {p.to} OBVIOUS
        <5>2. IsFiniteSet({p.loc}) /\ IsFiniteSet({p.to}) BY FS_Singleton
        <5>3. IsFiniteSet({p.loc} \cup {p.to}) BY <5>2, FS_Union, Zenon
        <5> QED BY <5>1, <5>3, Zenon
      <4>2. IsFiniteSet({k \in {p.loc, p.to} : q = IF k = p.loc THEN p.item.qty ELSE p.dest.qty})
        BY <4>1, FS_Subset
      <4> QED BY <4>2, FS_CardinalityType
    <3> QED BY <2>2, <3>1 DEF IInv, TypeOK
  <2> QED BY <2>1, <2>2 DEF SaveDestination
<1>5. damaged' \in BOOLEAN BY DEF SaveDestination, IInv, TypeOK
<1>6. faults' \in 0..MaxFaults BY CounterFacts DEF SaveDestination
<1>7. TypeOK' BY <1>2, <1>3, <1>4, <1>5, <1>6 DEF SaveDestination, IInv, TypeOK
<1> QED BY <1>2, <1>3, <1>7 DEF IInv

\* Undo: the quantity read at first was covered when it was read.
LEMMA UndoKeeps ==
    ASSUME IInv, NEW w \in Workers, Undo(w)
    PROVE  IInv'
<1> USE InventoryAssumption
<1> DEFINE p == proc[w]
           row == [p.item EXCEPT !.qty = p.old]
<1>1. SaveStock(p.loc, row) \/ UNCHANGED rowVars BY DEF Undo
<1>2. BelowZeroIsBackordered' /\ Kept /\ stock' \in [Locations -> Row]
      /\ allowed' \in [Locations -> SUBSET (Limits \cup {0})]
  <2>1. CASE SaveStock(p.loc, row)
    <3>1. row \in Row /\ row.qty = p.old BY CopyFacts DEF Row
    <3>2. Above(row.qty, allowed[p.loc] \cup {row.limit}) BY <3>1, CopyFacts DEF Above
    <3> HIDE DEF row
    <3> QED BY <2>1, <3>1, <3>2, CopyFacts, SaveCovered
  <2>2. CASE UNCHANGED rowVars
    BY <2>2, NoSave DEF IInv, BelowZeroIsBackordered, TypeOK, rowVars
  <2> QED BY <1>1, <2>1, <2>2
<1>3. CopiesCovered' /\ proc' \in [Workers -> ProcState] BY <1>2, SameCopy DEF Undo
<1>4. damaged' \in BOOLEAN BY DEF Undo, IInv, TypeOK
<1>5. faults' \in 0..MaxFaults BY CounterFacts DEF Undo
<1>6. TypeOK' BY <1>2, <1>3, <1>4, <1>5 DEF Undo, IInv, TypeOK
<1> QED BY <1>2, <1>3, <1>6 DEF IInv

\* Deletions, event handlers and crashes save no copy.
LEMMA OtherKeeps ==
    ASSUME IInv, \/ \E k \in Locations : DeleteStock(k)
                 \/ \E q \in Quantities : HandleStockChanged(q)
                 \/ Crash
    PROVE  IInv'
<1> USE InventoryAssumption, IdleFacts
<1>1. ASSUME NEW k \in Locations, DeleteStock(k) PROVE IInv'
  <2>1. stock' \in [Locations -> Row] BY <1>1 DEF DeleteStock, IInv, TypeOK
  <2>2. ledger' \in Int BY <1>1, RowFacts DEF DeleteStock, IInv, TypeOK
  <2>3. TypeOK' BY <1>1, <2>1, <2>2 DEF DeleteStock, IInv, TypeOK
  <2>4. BelowZeroIsBackordered' BY <1>1 DEF DeleteStock, IInv, TypeOK, BelowZeroIsBackordered, Above
  <2>5. CopiesCovered' BY <1>1 DEF DeleteStock, IInv, CopiesCovered, Covered
  <2> QED BY <2>3, <2>4, <2>5 DEF IInv
<1>2. ASSUME NEW q \in Quantities, HandleStockChanged(q) PROVE IInv'
  <2>1. pending' \in [Quantities -> Nat]
    <3>1. pending \in [Quantities -> Nat] BY DEF IInv, TypeOK
    <3>2. pending[q] > 0 /\ pending' = [pending EXCEPT ![q] = pending[q] - 1] BY <1>2 DEF HandleStockChanged
    <3>3. pending[q] - 1 \in Nat BY <3>1, <3>2
    <3> HIDE InventoryAssumption
    <3> QED BY <3>1, <3>2, <3>3
  <2>2. faults' \in 0..MaxFaults BY <1>2, CounterFacts DEF HandleStockChanged
  <2>3. TypeOK' BY <1>2, <2>1, <2>2 DEF HandleStockChanged, rowVars, historyVars, IInv, TypeOK
  <2>4. BelowZeroIsBackordered' BY <1>2 DEF HandleStockChanged, rowVars, IInv, BelowZeroIsBackordered
  <2>5. CopiesCovered' BY <1>2 DEF HandleStockChanged, rowVars, IInv, CopiesCovered, Covered
  <2> QED BY <2>3, <2>4, <2>5 DEF IInv
<1>3. CASE Crash
  <2>1. proc' \in [Workers -> ProcState] /\ pending' \in [Quantities -> Nat] BY <1>3 DEF Crash
  <2>2. faults' \in 0..MaxFaults BY <1>3, CounterFacts DEF Crash
  <2>3. TypeOK' BY <1>3, <2>1, <2>2 DEF Crash, rowVars, IInv, TypeOK
  <2>4. BelowZeroIsBackordered' BY <1>3 DEF Crash, rowVars, IInv, BelowZeroIsBackordered
  <2>5. CopiesCovered' BY <1>3 DEF Crash, CopiesCovered, Covered, Above
  <2> QED BY <2>3, <2>4, <2>5 DEF IInv
<1> QED BY <1>1, <1>2, <1>3

\* The invariant is inductive: one case per action.
LEMMA NextInv == IInv /\ [Next]_vars => IInv'
<1> USE InventoryAssumption
<1> SUFFICES ASSUME IInv, [Next]_vars PROVE IInv' OBVIOUS
<1>1. ASSUME NEW w \in Workers, NewRequest(w) PROVE IInv'
  <2>1. CASE \E r \in Reservations : ReleaseReservation(w, r) BY <2>1, ReleaseKeeps
  <2>2. ASSUME NEW k \in Locations, NEW n \in Amounts,
               \/ ReserveStock(w, k, n)
               \/ AdjustStock(w, k, n) \/ AdjustStock(w, k, -n)
               \/ \E to \in Locations : TransferStock(w, k, to, n)
        PROVE  IInv'
    <3>1. n \in Int /\ -n \in Int OBVIOUS
    <3> QED BY <2>2, <3>1, ReserveKeeps, AdjustKeeps, TransferKeeps
  <2>3. ASSUME NEW k \in Locations, NEW q \in Levels, SetStock(w, k, q) \/ SyncStock(w, k, q)
        PROVE  IInv'
    BY <2>3, SetKeeps, SyncKeeps
  <2>4. ASSUME NEW k \in Locations, NEW l \in Limits, ConfigureStock(w, k, l)
        PROVE  IInv'
    BY <2>4, ConfigureKeeps
  <2> QED BY <1>1, <2>1, <2>2, <2>3, <2>4 DEF NewRequest
<1>2. ASSUME NEW w \in Workers, Step(w) PROVE IInv'
  BY <1>2, ReadForReleaseKeeps, ReadDestinationKeeps, SaveKeeps, CreateKeeps,
     DeleteReservationKeeps, SaveDestinationKeeps, UndoKeeps DEF Step
<1>3. CASE UNCHANGED vars
  <2>1. TypeOK' BY <1>3 DEF vars, IInv, TypeOK
  <2>2. BelowZeroIsBackordered' BY <1>3 DEF vars, IInv, BelowZeroIsBackordered
  <2>3. CopiesCovered' BY <1>3 DEF vars, IInv, CopiesCovered, Covered
  <2> QED BY <2>1, <2>2, <2>3 DEF IInv
<1> QED BY <1>1, <1>2, <1>3, OtherKeeps DEF Next

\* The invariant holds in every behaviour.
THEOREM Inductive == Spec => []IInv
BY InitInv, NextInv, PTL DEF Spec

(***************************************************************************)
(* Every variable always has its type: reservations have ids, locations    *)
(* and amounts that exist, and every copy in hand is a possible row.       *)
(***************************************************************************)
THEOREM TypeCorrect == Spec => []TypeOK
BY Inductive, PTL DEF IInv

(***************************************************************************)
(* A stored quantity below zero never goes beyond a backorder limit its    *)
(* row has had, however requests overlap, fail and roll back.              *)
(***************************************************************************)
THEOREM BackordersBounded == Spec => []BelowZeroIsBackordered
BY Inductive, PTL DEF IInv

-----------------------------------------------------------------------------
(* The units of every reservation.                                         *)

\* The units a goroutine has taken out of the rows, and not put where they go: a release has put
\* units into a row that the reservation still has.
Owed(p) ==
    IF p.at \in {"create", "delete", "saveDest", "undo"}
    THEN IF p.op = "release" THEN -p.n ELSE p.n
    ELSE 0

\* What a goroutine has in hand agrees with what it has read.
CopyTrue(p) ==
    /\ p.at = "create" => p.op = "reserve"
    /\ p.at \in {"readStock", "delete"} => p.op = "release"
    /\ p.at \in {"readDest", "saveDest"} => p.op = "transfer"
    /\ p.at = "undo" => Compound(p.op)
    /\ p.at = "save" => p.op # "idle"
    /\ p.op \in {"reserve", "transfer"} => p.item.qty = p.old - p.n
    /\ p.op = "release" /\ p.at # "readStock" => p.item.qty = p.old + p.n
    /\ p.op = "adjust" => p.item.qty = p.old + p.n
    /\ p.op = "configure" => p.item.qty = p.old

\* A reservation that is being released is as it was read, or gone.
ReleaseTrue(p) == p.op = "release" /\ Open(p.res) => resv[p.res].qty = p.n

\* What the rows, the reservations and the goroutines add up to.
InRows == Total([k \in Locations |-> stock[k].qty], Locations)
InReservations == Total([r \in Reservations |-> resv[r].qty], Reservations)
InTransit == Total([w \in Workers |-> Owed(proc[w])], Workers)
\* All units, wherever they are.
Balance == InRows + InReservations + InTransit

\* The inductive invariant of the units: the three sums are what the warehouse was given.
UnitsIInv ==
    /\ IInv
    /\ \A w \in Workers : CopyTrue(proc[w]) /\ ReleaseTrue(proc[w])
    /\ ~damaged => Balance = ledger
-----------------------------------------------------------------------------
\* The sums of UnitsConserved are those of the invariant.
QtyBody(f, S, it) ==
    [s \in SUBSET S |-> IF s = {} THEN 0 ELSE LET x == CHOOSE x \in s : TRUE IN f[x].qty + it[s \ {x}]]

\* Adding up a field of rows or reservations is adding up a function of integers.
LEMMA QtyTotal ==
    ASSUME NEW S, IsFiniteSet(S), NEW f, \A x \in S : f[x].qty \in Int
    PROVE  (CHOOSE it : it = QtyBody(f, S, it))[S] = Total([x \in S |-> f[x].qty], S)
<1> DEFINE q == [x \in S |-> f[x].qty]
           it == CHOOSE it : it = QtyBody(f, S, it)
<1>1. q \in [S -> Int]
    OBVIOUS
<1>2. ASSUME NEW h PROVE QtyBody(f, S, h) = Body(q, S, h)
  <2>1. ASSUME NEW s \in SUBSET S, s # {}
        PROVE  LET x == CHOOSE x \in s : TRUE IN f[x].qty = q[x]
    <3> DEFINE x == CHOOSE x \in s : TRUE
    <3>1. x \in S
        BY <2>1
    <3> HIDE DEF x
    <3>2. q[x] = f[x].qty
        BY <3>1
    <3> QED
        BY <3>2 DEF x
  <2> HIDE DEF q
  <2> QED
      BY <2>1 DEF QtyBody, Body
<1> HIDE DEF q
<1>3. PICK h : h = Body(q, S, h)
    BY <1>1, BodyHasNet
<1>4. it = QtyBody(f, S, it)
    BY <1>2, <1>3
<1> HIDE DEF it
<1>5. it = Body(q, S, it)
    BY <1>2, <1>4
<1>6. it[S] = Total(q, S)
    BY <1>1, <1>5, BodyIsNet, TotalIsNet
<1> QED
    BY <1>6 DEF it, q

\* The units of the property are those of the rows and of the reservations.
LEMMA TotalUnitsAre ==
    ASSUME TypeOK
    PROVE  TotalUnits = InRows + InReservations /\ InRows \in Int /\ InReservations \in Int
<1>1. \A k \in Locations : stock[k].qty \in Int
    BY InventoryAssumption DEF TypeOK, Row
<1>2. \A r \in Reservations : resv[r].qty \in Int
  <2>1. \A n \in Amounts \cup {0} : n \in Int
      BY InventoryAssumption
  <2>2. \A r \in Reservations : resv[r].qty \in Amounts \cup {0}
      BY DEF TypeOK, Reservation
  <2> QED
      BY <2>1, <2>2
<1>3. MapThenSumSet(LAMBDA k : stock[k].qty, Locations) = (CHOOSE it : it = QtyBody(stock, Locations, it))[Locations]
    BY DEF MapThenSumSet, MapThenFoldSet, QtyBody
<1>4. MapThenSumSet(LAMBDA r : resv[r].qty, Reservations) = (CHOOSE it : it = QtyBody(resv, Reservations, it))[Reservations]
    BY DEF MapThenSumSet, MapThenFoldSet, QtyBody
<1>5. TotalUnits = (CHOOSE it : it = QtyBody(stock, Locations, it))[Locations]
                   + (CHOOSE it : it = QtyBody(resv, Reservations, it))[Reservations]
    BY <1>3, <1>4 DEF TotalUnits
<1>6. (CHOOSE it : it = QtyBody(stock, Locations, it))[Locations] = InRows /\ InRows \in Int
    BY <1>1, QtyTotal, TotalIsNet, InventoryAssumption DEF InRows
<1>7. (CHOOSE it : it = QtyBody(resv, Reservations, it))[Reservations] = InReservations /\ InReservations \in Int
    BY <1>2, QtyTotal, TotalIsNet, InventoryAssumption DEF InReservations
<1> QED
    BY <1>5, <1>6, <1>7

\* The numbers the rows, the reservations and the goroutines hold, in any state.
LEMMA Numbers ==
    /\ \A st \in [Locations -> Row] : [k \in Locations |-> st[k].qty] \in [Locations -> Int]
    /\ \A rv \in [Reservations -> Reservation] : [r \in Reservations |-> rv[r].qty] \in [Reservations -> Int]
    /\ \A pr \in [Workers -> ProcState] : [w \in Workers |-> Owed(pr[w])] \in [Workers -> Int]
<1>1. ASSUME NEW st \in [Locations -> Row] PROVE \A k \in Locations : st[k].qty \in Int
    BY InventoryAssumption DEF Row
<1>2. ASSUME NEW rv \in [Reservations -> Reservation] PROVE \A r \in Reservations : rv[r].qty \in Int
  <2>1. \A n \in Amounts \cup {0} : n \in Int
      BY InventoryAssumption
  <2>2. \A r \in Reservations : rv[r].qty \in Amounts \cup {0}
      BY DEF Reservation
  <2> QED
      BY <2>1, <2>2
<1>3. ASSUME NEW pr \in [Workers -> ProcState] PROVE \A w \in Workers : Owed(pr[w]) \in Int
  <2>1. \A w \in Workers : pr[w].n \in Int
      BY DEF ProcState
  <2> QED
      BY <2>1 DEF Owed
<1> QED
    BY <1>1, <1>2, <1>3

\* The sums change by what one row, one reservation, one goroutine changes.
LEMMA RowsChange ==
    ASSUME TypeOK, TypeOK', NEW k \in Locations, \A j \in Locations \ {k} : stock'[j] = stock[j]
    PROVE  InRows' = InRows + stock'[k].qty - stock[k].qty
<1> DEFINE f == [j \in Locations |-> stock[j].qty]
           g == [j \in Locations |-> stock'[j].qty]
<1>1. f \in [Locations -> Int] /\ g \in [Locations -> Int]
    BY Numbers DEF TypeOK
<1>2. \A j \in Locations \ {k} : g[j] = f[j]
    OBVIOUS
<1>3. f[k] = stock[k].qty /\ g[k] = stock'[k].qty
    OBVIOUS
<1>4. InRows = Total(f, Locations) /\ InRows' = Total(g, Locations)
    BY DEF InRows
<1> HIDE DEF f, g
<1> QED
    BY <1>1, <1>2, <1>3, <1>4, TotalChanges, InventoryAssumption

\* One reservation changes, and with it the sum by as much.
LEMMA ReservationsChange ==
    ASSUME TypeOK, TypeOK', NEW r \in Reservations, \A j \in Reservations \ {r} : resv'[j] = resv[j]
    PROVE  InReservations' = InReservations + resv'[r].qty - resv[r].qty
<1> DEFINE f == [j \in Reservations |-> resv[j].qty]
           g == [j \in Reservations |-> resv'[j].qty]
<1>1. f \in [Reservations -> Int] /\ g \in [Reservations -> Int]
    BY Numbers DEF TypeOK
<1>2. \A j \in Reservations \ {r} : g[j] = f[j]
    OBVIOUS
<1>3. f[r] = resv[r].qty /\ g[r] = resv'[r].qty
    OBVIOUS
<1>4. InReservations = Total(f, Reservations) /\ InReservations' = Total(g, Reservations)
    BY DEF InReservations
<1> HIDE DEF f, g
<1> QED
    BY <1>1, <1>2, <1>3, <1>4, TotalChanges, InventoryAssumption

\* One goroutine moves, and what is in transit changes by what it owes.
LEMMA TransitChanges ==
    ASSUME TypeOK, TypeOK', NEW w \in Workers, \A v \in Workers \ {w} : proc'[v] = proc[v]
    PROVE  InTransit' = InTransit + Owed(proc'[w]) - Owed(proc[w])
<1> DEFINE f == [v \in Workers |-> Owed(proc[v])]
           g == [v \in Workers |-> Owed(proc'[v])]
<1>1. f \in [Workers -> Int] /\ g \in [Workers -> Int]
    BY Numbers DEF TypeOK
<1>2. \A v \in Workers \ {w} : g[v] = f[v]
    OBVIOUS
<1>3. f[w] = Owed(proc[w]) /\ g[w] = Owed(proc'[w])
    OBVIOUS
<1>4. InTransit = Total(f, Workers) /\ InTransit' = Total(g, Workers)
    BY DEF InTransit
<1> HIDE DEF f, g
<1> QED
    BY <1>1, <1>2, <1>3, <1>4, TotalChanges, InventoryAssumption

\* The sums are integers, before and after a step.
LEMMA SumTypes ==
    /\ TypeOK => /\ InRows \in Int /\ InReservations \in Int /\ InTransit \in Int /\ ledger \in Int
                 /\ \A w \in Workers : Owed(proc[w]) \in Int
    /\ TypeOK' => /\ InRows' \in Int /\ InReservations' \in Int /\ InTransit' \in Int /\ ledger' \in Int
                  /\ \A w \in Workers : Owed(proc'[w]) \in Int
<1> USE InventoryAssumption
<1>1. ASSUME NEW st \in [Locations -> Row] PROVE Total([k \in Locations |-> st[k].qty], Locations) \in Int
    BY Numbers, TotalIsNet
<1>2. ASSUME NEW rv \in [Reservations -> Reservation]
      PROVE  Total([r \in Reservations |-> rv[r].qty], Reservations) \in Int
    BY Numbers, TotalIsNet
<1>3. ASSUME NEW pr \in [Workers -> ProcState]
      PROVE  Total([w \in Workers |-> Owed(pr[w])], Workers) \in Int /\ \A w \in Workers : Owed(pr[w]) \in Int
  <2>1. [w \in Workers |-> Owed(pr[w])] \in [Workers -> Int]
      BY Numbers
  <2>2. \A w \in Workers : Owed(pr[w]) \in Int
      BY <2>1
  <2> QED
      BY <2>1, <2>2, TotalIsNet
<1> QED
  <2>1. TypeOK => /\ InRows \in Int /\ InReservations \in Int /\ InTransit \in Int /\ ledger \in Int
                  /\ \A w \in Workers : Owed(proc[w]) \in Int
      BY <1>1, <1>2, <1>3 DEF TypeOK, InRows, InReservations, InTransit
  <2>2. TypeOK' => /\ InRows' \in Int /\ InReservations' \in Int /\ InTransit' \in Int /\ ledger' \in Int
                   /\ \A w \in Workers : Owed(proc'[w]) \in Int
      BY <1>1, <1>2, <1>3 DEF TypeOK, InRows, InReservations, InTransit
  <2> QED
      BY <2>1, <2>2

\* A step of one goroutine keeps the units when the ledger changes by what it changes.
LEMMA UnitsMove ==
    ASSUME UnitsIInv, IInv', NEW w \in Workers, \A v \in Workers \ {w} : proc'[v] = proc[v],
           CopyTrue(proc'[w]), \A v \in Workers : ReleaseTrue(proc[v])', damaged => damaged',
           ~damaged' => InRows' + InReservations' + Owed(proc'[w]) - ledger'
                        = InRows + InReservations + Owed(proc[w]) - ledger
    PROVE  UnitsIInv'
<1>1. TypeOK /\ TypeOK'
    BY DEF UnitsIInv, IInv
<1>2. InTransit' = InTransit + Owed(proc'[w]) - Owed(proc[w])
    BY <1>1, TransitChanges
<1>3. /\ InRows \in Int /\ InReservations \in Int /\ InTransit \in Int /\ ledger \in Int /\ Owed(proc[w]) \in Int
    BY <1>1, SumTypes
<1>4. /\ InRows' \in Int /\ InReservations' \in Int /\ InTransit' \in Int /\ ledger' \in Int /\ Owed(proc'[w]) \in Int
    BY <1>1, SumTypes
<1>5. ASSUME ~damaged' PROVE Balance' = ledger'
  <2>1. ~damaged
      BY <1>5
  <2>2. InRows + InReservations + InTransit = ledger
      BY <2>1 DEF UnitsIInv, Balance
  <2>3. InRows' + InReservations' + InTransit' = ledger'
      BY <1>2, <1>3, <1>4, <1>5, <2>2
  <2> QED
      BY <2>3 DEF Balance
<1>6. ASSUME NEW v \in Workers PROVE CopyTrue(proc'[v])
    BY DEF UnitsIInv
<1> QED
    BY <1>5, <1>6 DEF UnitsIInv

\* The reservations stay, or the one a goroutine releases goes.
LEMMA ReleasesStay ==
    ASSUME UnitsIInv, NEW w \in Workers, \A v \in Workers \ {w} : proc'[v] = proc[v], resv' = resv,
           \/ proc'[w].op # "release"
           \/ proc'[w].op = proc[w].op /\ proc'[w].res = proc[w].res /\ proc'[w].n = proc[w].n
    PROVE  \A v \in Workers : ReleaseTrue(proc[v])'
<1> SUFFICES ASSUME NEW v \in Workers PROVE ReleaseTrue(proc[v])'
    OBVIOUS
<1>1. ReleaseTrue(proc[v]) /\ ReleaseTrue(proc[w])
    BY DEF UnitsIInv
<1>2. CASE v = w
    BY <1>1, <1>2 DEF ReleaseTrue, Open
<1>3. CASE v # w
    BY <1>1, <1>3 DEF ReleaseTrue, Open
<1> QED
    BY <1>2, <1>3

\* What a goroutine has after Goto and after Finish.
LEMMA AfterGoto ==
    ASSUME TypeOK, NEW w \in Workers, NEW l \in Labels, Goto(w, l)
    PROVE  /\ \A v \in Workers \ {w} : proc'[v] = proc[v]
           /\ proc'[w].at = l /\ proc'[w].op = proc[w].op /\ proc'[w].item = proc[w].item
           /\ proc'[w].old = proc[w].old /\ proc'[w].n = proc[w].n /\ proc'[w].res = proc[w].res
<1>1. proc[w] \in ProcState
    BY DEF TypeOK
<1>2. proc'[w] = [proc[w] EXCEPT !.at = l] /\ \A v \in Workers \ {w} : proc'[v] = proc[v]
    BY DEF Goto, TypeOK
<1> QED
    BY <1>1, <1>2 DEF ProcState

\* A goroutine that has finished owes nothing.
LEMMA AfterFinish ==
    ASSUME TypeOK, NEW w \in Workers, Finish(w)
    PROVE  /\ \A v \in Workers \ {w} : proc'[v] = proc[v]
           /\ CopyTrue(proc'[w]) /\ Owed(proc'[w]) = 0 /\ proc'[w].op # "release"
<1>1. proc'[w] = Idle /\ \A v \in Workers \ {w} : proc'[v] = proc[v]
    BY DEF Finish, TypeOK
<1>2. CopyTrue(Idle) /\ Owed(Idle) = 0 /\ Idle.op # "release"
    BY IdleFacts DEF CopyTrue, Owed
<1> QED
    BY <1>1, <1>2

\* A request that reaches a free goroutine has taken nothing yet.
LEMMA UnitsRequest ==
    ASSUME UnitsIInv, IInv', NEW w \in Workers, NEW p \in ProcState, Request(w, p),
           UNCHANGED <<rowVars, historyVars, resv>>,
           CopyTrue(p), ReleaseTrue(p), p.at \in {"readStock", "readDest", "save"}
    PROVE  UnitsIInv'
<1>1. TypeOK /\ TypeOK'
    BY DEF UnitsIInv, IInv
<1>2. proc[w] = Idle /\ proc'[w] = p /\ \A v \in Workers \ {w} : proc'[v] = proc[v]
    BY <1>1 DEF Request, Free, TypeOK
<1>3. Owed(proc[w]) = 0 /\ Owed(proc'[w]) = 0
    BY <1>2, IdleFacts DEF Owed
<1>4. InRows' = InRows /\ InReservations' = InReservations /\ ledger' = ledger /\ damaged' = damaged
    BY DEF rowVars, historyVars, InRows, InReservations
<1>5. ASSUME NEW v \in Workers PROVE ReleaseTrue(proc[v])'
  <2>1. ReleaseTrue(proc[v])
      BY DEF UnitsIInv
  <2>2. CASE v = w
      BY <1>2, <2>2 DEF ReleaseTrue, Open
  <2>3. CASE v # w
      BY <1>2, <2>1, <2>3 DEF ReleaseTrue, Open
  <2> QED
      BY <2>2, <2>3
<1>6. InRows' + InReservations' + Owed(proc'[w]) - ledger' = InRows + InReservations + Owed(proc[w]) - ledger
    BY <1>3, <1>4
<1> QED
    BY <1>2, <1>4, <1>5, <1>6, UnitsMove

\* ReserveStock has in hand what it read less what it wants.
LEMMA ReserveUnits ==
    ASSUME UnitsIInv, IInv', NEW w \in Workers, NEW k \in Locations, NEW n \in Amounts, ReserveStock(w, k, n)
    PROVE  UnitsIInv'
<1> USE InventoryAssumption, IdleFacts
<1>1. stock[k] \in Row /\ stock[k].qty \in Quantities /\ n \in Int
    BY DEF UnitsIInv, IInv, TypeOK, Row
<1> DEFINE item == [stock[k] EXCEPT !.qty = @ - n]
           p == [Idle EXCEPT !.op = "reserve", !.at = "save", !.loc = k, !.n = n,
                             !.item = item, !.old = stock[k].qty]
<1>2. item \in Row /\ item.qty = stock[k].qty - n
    BY <1>1 DEF ReserveStock, Row
<1> HIDE DEF item
<1>3. p \in ProcState /\ p.op = "reserve" /\ p.at = "save" /\ p.n = n /\ p.item = item /\ p.old = stock[k].qty
    BY <1>1, <1>2 DEF ProcState, Ops, Labels
<1>4. Request(w, p) /\ UNCHANGED <<rowVars, historyVars, resv>>
    BY DEF ReserveStock, item
<1> HIDE DEF p
<1>5. CopyTrue(p) /\ ReleaseTrue(p)
    BY <1>2, <1>3 DEF CopyTrue, ReleaseTrue
<1> QED
    BY <1>3, <1>4, <1>5, UnitsRequest

\* ReleaseReservation has the amount of the reservation it read.
LEMMA ReleaseUnits ==
    ASSUME UnitsIInv, IInv', NEW w \in Workers, NEW r \in Reservations, ReleaseReservation(w, r)
    PROVE  UnitsIInv'
<1> USE InventoryAssumption, IdleFacts
<1>1. resv[r].loc \in Locations /\ resv[r].qty \in Int
  <2>1. resv[r] \in Reservation
      BY DEF UnitsIInv, IInv, TypeOK
  <2>2. resv[r].loc \in Locations /\ resv[r].qty \in Amounts \cup {0}
      BY <2>1 DEF Reservation
  <2>3. \A a \in Amounts \cup {0} : a \in Int
      BY InventoryAssumption
  <2> QED
      BY <2>2, <2>3
<1> DEFINE p == [Idle EXCEPT !.op = "release", !.at = "readStock", !.res = r,
                             !.loc = resv[r].loc, !.n = resv[r].qty]
<1>2. p \in ProcState /\ p.op = "release" /\ p.at = "readStock" /\ p.n = resv[r].qty /\ p.res = r
    BY <1>1 DEF ProcState, Ops, Labels
<1>3. Request(w, p) /\ UNCHANGED <<rowVars, historyVars, resv>>
    BY DEF ReleaseReservation
<1> HIDE DEF p
<1>4. CopyTrue(p) /\ ReleaseTrue(p)
    BY <1>2 DEF CopyTrue, ReleaseTrue, Compound
<1> QED
    BY <1>2, <1>3, <1>4, UnitsRequest

\* A row one reads, or makes up.
LEMMA ReadFacts ==
    ASSUME TypeOK, NEW k \in Locations, NEW row \in {stock[k], Missing}
    PROVE  row \in Row /\ row.qty \in Quantities /\ row.qty \in Int
<1>1. stock[k] \in Row
    BY DEF TypeOK
<1>2. row \in Row
    BY <1>1, IdleFacts
<1> QED
    BY <1>2, InventoryAssumption DEF Row

\* UpdateStock sets a quantity, and what it read does not matter.
LEMMA SetUnits ==
    ASSUME UnitsIInv, IInv', NEW w \in Workers, NEW k \in Locations, NEW q \in Levels, SetStock(w, k, q)
    PROVE  UnitsIInv'
<1> USE InventoryAssumption, IdleFacts
<1>1. PICK row \in {stock[k], Missing} : \E l \in Limits \cup {row.limit} :
       /\ Request(w, [Idle EXCEPT !.op = "set", !.at = "save", !.loc = k,
                                  !.item = [row EXCEPT !.qty = q, !.limit = l], !.old = row.qty])
       /\ UNCHANGED <<rowVars, historyVars, resv>>
    BY DEF SetStock
<1>2. PICK l \in Limits \cup {row.limit} :
       /\ Request(w, [Idle EXCEPT !.op = "set", !.at = "save", !.loc = k,
                                  !.item = [row EXCEPT !.qty = q, !.limit = l], !.old = row.qty])
       /\ UNCHANGED <<rowVars, historyVars, resv>>
    BY <1>1
<1> DEFINE item == [row EXCEPT !.qty = q, !.limit = l]
           p == [Idle EXCEPT !.op = "set", !.at = "save", !.loc = k, !.item = item, !.old = row.qty]
<1>3. row \in Row /\ row.qty \in Quantities
    BY ReadFacts DEF UnitsIInv, IInv
<1>4. item \in Row
    BY <1>3 DEF Row
<1>5. Request(w, p)
    BY <1>2
<1> HIDE DEF item
<1>6. p \in ProcState /\ p.op = "set" /\ p.at = "save"
    BY <1>3, <1>4 DEF ProcState, Ops, Labels
<1> HIDE DEF p
<1>7. CopyTrue(p) /\ ReleaseTrue(p)
    BY <1>6 DEF CopyTrue, ReleaseTrue
<1> QED
    BY <1>2, <1>5, <1>6, <1>7, UnitsRequest

\* ConfigureStock keeps the quantity it read.
LEMMA ConfigureUnits ==
    ASSUME UnitsIInv, IInv', NEW w \in Workers, NEW k \in Locations, NEW l \in Limits, ConfigureStock(w, k, l)
    PROVE  UnitsIInv'
<1> USE InventoryAssumption, IdleFacts
<1>1. PICK row \in {stock[k], Missing} :
       /\ Request(w, [Idle EXCEPT !.op = "configure", !.at = "save", !.loc = k,
                                  !.item = [row EXCEPT !.limit = l], !.old = row.qty])
       /\ UNCHANGED <<rowVars, historyVars, resv>>
    BY DEF ConfigureStock
<1> DEFINE item == [row EXCEPT !.limit = l]
           p == [Idle EXCEPT !.op = "configure", !.at = "save", !.loc = k, !.item = item, !.old = row.qty]
<1>2. row \in Row /\ row.qty \in Quantities
    BY ReadFacts DEF UnitsIInv, IInv
<1>3. item \in Row /\ item.qty = row.qty
    BY <1>2 DEF Row
<1>4. Request(w, p)
    BY <1>1
<1> HIDE DEF item
<1>5. p \in ProcState /\ p.op = "configure" /\ p.at = "save" /\ p.item = item /\ p.old = row.qty
    BY <1>2, <1>3 DEF ProcState, Ops, Labels
<1> HIDE DEF p
<1>6. CopyTrue(p) /\ ReleaseTrue(p)
    BY <1>3, <1>5 DEF CopyTrue, ReleaseTrue
<1> QED
    BY <1>1, <1>4, <1>5, <1>6, UnitsRequest

\* AdjustStock has in hand what it read and the adjustment.
LEMMA AdjustUnits ==
    ASSUME UnitsIInv, IInv', NEW w \in Workers, NEW k \in Locations, NEW n \in Int, AdjustStock(w, k, n)
    PROVE  UnitsIInv'
<1> USE InventoryAssumption, IdleFacts
<1>1. PICK row \in {stock[k], Missing} :
       /\ row.qty + n \in Quantities
       /\ Request(w, [Idle EXCEPT !.op = "adjust", !.at = "save", !.loc = k, !.n = n,
                                  !.item = [row EXCEPT !.qty = @ + n], !.old = row.qty])
       /\ UNCHANGED <<rowVars, historyVars, resv>>
    BY DEF AdjustStock
<1> DEFINE item == [row EXCEPT !.qty = @ + n]
           p == [Idle EXCEPT !.op = "adjust", !.at = "save", !.loc = k, !.n = n, !.item = item, !.old = row.qty]
<1>2. row \in Row /\ row.qty \in Quantities
    BY ReadFacts DEF UnitsIInv, IInv
<1>3. item \in Row /\ item.qty = row.qty + n
    BY <1>1, <1>2 DEF Row
<1>4. Request(w, p)
    BY <1>1
<1> HIDE DEF item
<1>5. p \in ProcState /\ p.op = "adjust" /\ p.at = "save" /\ p.item = item /\ p.old = row.qty /\ p.n = n
    BY <1>2, <1>3 DEF ProcState, Ops, Labels
<1> HIDE DEF p
<1>6. CopyTrue(p) /\ ReleaseTrue(p)
    BY <1>3, <1>5 DEF CopyTrue, ReleaseTrue
<1> QED
    BY <1>1, <1>4, <1>5, <1>6, UnitsRequest

\* SyncStock sets a quantity.
LEMMA SyncUnits ==
    ASSUME UnitsIInv, IInv', NEW w \in Workers, NEW k \in Locations, NEW q \in Levels, SyncStock(w, k, q)
    PROVE  UnitsIInv'
<1> USE InventoryAssumption, IdleFacts
<1> DEFINE item == [stock[k] EXCEPT !.qty = q]
           p == [Idle EXCEPT !.op = "sync", !.at = "save", !.loc = k, !.item = item, !.old = stock[k].qty]
<1>1. stock[k].qty \in Quantities /\ item \in Row
    BY DEF UnitsIInv, IInv, TypeOK, Row
<1>2. Request(w, p) /\ UNCHANGED <<rowVars, historyVars, resv>>
    BY DEF SyncStock
<1> HIDE DEF item
<1>3. p \in ProcState /\ p.op = "sync" /\ p.at = "save"
    BY <1>1 DEF ProcState, Ops, Labels
<1> HIDE DEF p
<1>4. CopyTrue(p) /\ ReleaseTrue(p)
    BY <1>3 DEF CopyTrue, ReleaseTrue
<1> QED
    BY <1>2, <1>3, <1>4, UnitsRequest

\* TransferStock has in hand what it read less what it moves.
LEMMA TransferUnits ==
    ASSUME UnitsIInv, IInv', NEW w \in Workers, NEW k \in Locations, NEW to \in Locations, NEW n \in Amounts,
           TransferStock(w, k, to, n)
    PROVE  UnitsIInv'
<1> USE InventoryAssumption, IdleFacts
<1>1. stock[k] \in Row /\ stock[k].qty \in Quantities /\ n \in Int
    BY DEF UnitsIInv, IInv, TypeOK, Row
<1> DEFINE item == [stock[k] EXCEPT !.qty = @ - n]
           p == [Idle EXCEPT !.op = "transfer", !.at = "readDest", !.loc = k, !.to = to, !.n = n,
                             !.item = item, !.old = stock[k].qty]
<1>2. item \in Row /\ item.qty = stock[k].qty - n
    BY <1>1 DEF TransferStock, Row
<1>3. Request(w, p) /\ UNCHANGED <<rowVars, historyVars, resv>>
    BY DEF TransferStock
<1> HIDE DEF item
<1>4. p \in ProcState /\ p.op = "transfer" /\ p.at = "readDest" /\ p.n = n /\ p.item = item /\ p.old = stock[k].qty
    BY <1>1, <1>2 DEF ProcState, Ops, Labels
<1> HIDE DEF p
<1>5. CopyTrue(p) /\ ReleaseTrue(p)
    BY <1>2, <1>4 DEF CopyTrue, ReleaseTrue
<1> QED
    BY <1>3, <1>4, <1>5, UnitsRequest

\* A step that saves no row and books nothing.
LEMMA NothingMoves ==
    /\ UNCHANGED rowVars => InRows' = InRows
    /\ UNCHANGED resv => InReservations' = InReservations
BY DEF rowVars, InRows, InReservations

\* What a goroutine has in hand and what its row holds.
LEMMA HandFacts ==
    ASSUME UnitsIInv, NEW w \in Workers
    PROVE  /\ TypeOK /\ proc[w] \in ProcState /\ CopyTrue(proc[w]) /\ ReleaseTrue(proc[w])
           /\ proc[w].loc \in Locations /\ proc[w].to \in Locations /\ proc[w].res \in Reservations
           /\ proc[w].item \in Row /\ proc[w].dest \in Row
           /\ proc[w].item.qty \in Int /\ proc[w].dest.qty \in Int /\ proc[w].old \in Int /\ proc[w].n \in Int
           /\ stock[proc[w].loc].qty \in Int /\ stock[proc[w].to].qty \in Int
           /\ resv[proc[w].res].qty \in Int
<1>1. IInv /\ TypeOK /\ proc[w] \in ProcState
    BY DEF UnitsIInv, IInv, TypeOK
<1>2. resv[proc[w].res] \in Reservation
    BY <1>1 DEF TypeOK, ProcState
<1>3. \A n \in Amounts \cup {0} : n \in Int
    BY InventoryAssumption
<1>4. resv[proc[w].res].qty \in Int
    BY <1>2, <1>3 DEF Reservation
<1>5. \A q \in Quantities : q \in Int
    BY InventoryAssumption
<1> QED
    BY <1>1, <1>4, <1>5, CopyFacts, RowFacts DEF UnitsIInv

\* ReleaseReservation reads the row it will add to.
LEMMA ReadForReleaseUnits ==
    ASSUME UnitsIInv, IInv', NEW w \in Workers, ReadForRelease(w)
    PROVE  UnitsIInv'
<1>1. TypeOK /\ TypeOK' /\ proc[w] \in ProcState /\ CopyTrue(proc[w]) /\ proc[w].at = "readStock"
    BY HandFacts DEF UnitsIInv, IInv, ReadForRelease
<1>2. proc[w].op = "release" /\ Owed(proc[w]) = 0
    BY <1>1 DEF CopyTrue, Owed
<1>3. InRows' = InRows /\ InReservations' = InReservations /\ ledger' = ledger /\ damaged' = damaged /\ resv' = resv
    BY NothingMoves DEF ReadForRelease, historyVars
<1>4. CASE Finish(w)
  <2>1. /\ \A v \in Workers \ {w} : proc'[v] = proc[v]
        /\ CopyTrue(proc'[w]) /\ Owed(proc'[w]) = 0 /\ proc'[w].op # "release"
      BY <1>1, <1>4, AfterFinish
  <2>2. \A v \in Workers : ReleaseTrue(proc[v])'
      BY <1>3, <2>1, ReleasesStay
  <2> QED
      BY <1>2, <1>3, <2>1, <2>2, UnitsMove
<1>5. ASSUME stock[proc[w].loc].there, ~Finish(w) PROVE UnitsIInv'
  <2> DEFINE row == stock[proc[w].loc]
             item == [row EXCEPT !.qty = row.qty + proc[w].n]
  <2>1. row \in Row /\ row.qty \in Int
      BY <1>1, HandFacts DEF TypeOK
  <2>2. item.qty = row.qty + proc[w].n
      BY <2>1 DEF Row
  <2>3. proc' = [proc EXCEPT ![w].at = "save", ![w].item = item, ![w].old = row.qty]
      BY <1>5 DEF ReadForRelease
  <2> HIDE DEF item, row
  <2>4. /\ proc'[w] = [proc[w] EXCEPT !.at = "save", !.item = item, !.old = row.qty]
        /\ \A v \in Workers \ {w} : proc'[v] = proc[v]
      BY <1>1, <2>3 DEF TypeOK
  <2>5. /\ proc'[w].at = "save" /\ proc'[w].item = item /\ proc'[w].old = row.qty
        /\ proc'[w].op = proc[w].op /\ proc'[w].n = proc[w].n /\ proc'[w].res = proc[w].res
      BY <1>1, <2>4 DEF ProcState
  <2>6. CopyTrue(proc'[w]) /\ Owed(proc'[w]) = 0
      BY <1>2, <2>2, <2>5 DEF CopyTrue, Owed
  <2>7. \A v \in Workers : ReleaseTrue(proc[v])'
      BY <1>3, <2>4, <2>5, ReleasesStay
  <2> QED
      BY <1>2, <1>3, <2>4, <2>6, <2>7, UnitsMove
<1> QED
    BY <1>4, <1>5 DEF ReadForRelease

\* TransferStock reads the row it will add to.
LEMMA ReadDestinationUnits ==
    ASSUME UnitsIInv, IInv', NEW w \in Workers, ReadDestination(w)
    PROVE  UnitsIInv'
<1>1. TypeOK /\ TypeOK' /\ proc[w] \in ProcState /\ CopyTrue(proc[w]) /\ proc[w].at = "readDest"
    BY HandFacts DEF UnitsIInv, IInv, ReadDestination
<1>2. proc[w].op = "transfer" /\ Owed(proc[w]) = 0
    BY <1>1 DEF CopyTrue, Owed
<1>3. InRows' = InRows /\ InReservations' = InReservations /\ ledger' = ledger /\ damaged' = damaged /\ resv' = resv
    BY NothingMoves DEF ReadDestination, historyVars
<1>4. PICK dest : proc' = [proc EXCEPT ![w].at = "save", ![w].dest = dest]
    BY DEF ReadDestination
<1>5. /\ proc'[w] = [proc[w] EXCEPT !.at = "save", !.dest = dest]
      /\ \A v \in Workers \ {w} : proc'[v] = proc[v]
    BY <1>1, <1>4 DEF TypeOK
<1>6. /\ proc'[w].at = "save" /\ proc'[w].item = proc[w].item /\ proc'[w].old = proc[w].old
      /\ proc'[w].op = proc[w].op /\ proc'[w].n = proc[w].n /\ proc'[w].res = proc[w].res
    BY <1>1, <1>5 DEF ProcState
<1>7. CopyTrue(proc'[w]) /\ Owed(proc'[w]) = 0
    BY <1>1, <1>2, <1>6 DEF CopyTrue, Owed
<1>8. \A v \in Workers : ReleaseTrue(proc[v])'
    BY <1>3, <1>5, <1>6, ReleasesStay
<1> QED
    BY <1>2, <1>3, <1>5, <1>7, <1>8, UnitsMove

\* A row that is saved counts what it holds then.
LEMMA SavedRow ==
    ASSUME TypeOK, TypeOK', NEW k \in Locations, NEW row \in Row, SaveStock(k, row)
    PROVE  InRows' = InRows + row.qty - stock[k].qty
<1>1. stock'[k].qty = row.qty
    BY DEF SaveStock, TypeOK, Row
<1>2. \A j \in Locations \ {k} : stock'[j] = stock[j]
    BY DEF SaveStock, TypeOK
<1> QED
    BY <1>1, <1>2, RowsChange

\* The first save: what it adds is owed, or booked, unless the copy was stale.
LEMMA SaveUnits ==
    ASSUME UnitsIInv, IInv', NEW w \in Workers, Save(w)
    PROVE  UnitsIInv'
<1> DEFINE p == proc[w]
<1>1. /\ TypeOK /\ TypeOK' /\ p \in ProcState /\ CopyTrue(p) /\ p.at = "save" /\ p.op # "idle"
      /\ p.op \in Ops /\ p.loc \in Locations /\ p.item \in Row
      /\ p.item.qty \in Int /\ p.old \in Int /\ p.n \in Int /\ stock[p.loc].qty \in Int
    BY HandFacts DEF UnitsIInv, IInv, Save, CopyTrue, ProcState
<1>2. Owed(p) = 0
    BY <1>1 DEF Owed
<1>3. resv' = resv /\ InReservations' = InReservations
    BY NothingMoves DEF Save
<1>4. damaged => damaged'
    BY DEF Save, historyVars
<1>5. /\ InRows \in Int /\ InReservations \in Int /\ ledger \in Int /\ InRows' \in Int /\ ledger' \in Int
    BY <1>1, SumTypes
<1>6. Finish(w) \/ (Compound(p.op) /\ Goto(w, NextStep(p.op)))
    BY DEF Save
<1>7. /\ \A v \in Workers \ {w} : proc'[v] = proc[v]
      /\ CopyTrue(proc'[w]) /\ \A v \in Workers : ReleaseTrue(proc[v])'
      /\ Finish(w) => Owed(proc'[w]) = 0
      /\ ~Finish(w) => Owed(proc'[w]) = IF p.op = "release" THEN -p.n ELSE p.n
  <2>1. CASE Finish(w)
    <3>1. /\ \A v \in Workers \ {w} : proc'[v] = proc[v]
          /\ CopyTrue(proc'[w]) /\ Owed(proc'[w]) = 0 /\ proc'[w].op # "release"
        BY <1>1, <2>1, AfterFinish
    <3>2. \A v \in Workers : ReleaseTrue(proc[v])'
        BY <1>3, <3>1, ReleasesStay
    <3> QED
        BY <2>1, <3>1, <3>2
  <2>2. CASE Compound(p.op) /\ Goto(w, NextStep(p.op)) /\ ~Finish(w)
    <3> DEFINE l == NextStep(p.op)
    <3>1. /\ l \in Labels
          /\ (l = "create" /\ p.op = "reserve") \/ (l = "delete" /\ p.op = "release")
             \/ (l = "saveDest" /\ p.op = "transfer")
        BY <2>2 DEF Compound, NextStep, Labels
    <3> HIDE DEF l
    <3>2. Goto(w, l)
        BY <2>2 DEF l
    <3>3. /\ \A v \in Workers \ {w} : proc'[v] = proc[v]
          /\ proc'[w].at = l /\ proc'[w].op = p.op /\ proc'[w].item = p.item
          /\ proc'[w].old = p.old /\ proc'[w].n = p.n /\ proc'[w].res = p.res
        BY <1>1, <3>1, <3>2, AfterGoto
    <3>4. CopyTrue(proc'[w])
        BY <1>1, <3>1, <3>3 DEF CopyTrue
    <3>5. Owed(proc'[w]) = IF p.op = "release" THEN -p.n ELSE p.n
        BY <3>1, <3>3 DEF Owed
    <3>6. \A v \in Workers : ReleaseTrue(proc[v])'
        BY <1>3, <3>3, ReleasesStay
    <3> QED
        BY <2>2, <3>3, <3>4, <3>5, <3>6
  <2> QED
      BY <1>6, <2>1, <2>2
<1>8. CASE UNCHANGED <<rowVars, historyVars>> /\ Finish(w)
  <2>1. InRows' = InRows /\ ledger' = ledger
      BY <1>8, NothingMoves DEF historyVars
  <2> QED
      BY <1>2, <1>3, <1>4, <1>7, <1>8, <2>1, UnitsMove
<1>9. CASE /\ SaveStock(p.loc, p.item) /\ ledger' = LedgerAfter(p)
           /\ damaged' \/ Absolute(p.op) \/ ~Stale(p.loc, p.old)
           /\ damaged' \/ (Finish(w) /\ ~Compound(p.op)) \/ (Compound(p.op) /\ Goto(w, NextStep(p.op)))
  <2>1. InRows' = InRows + p.item.qty - stock[p.loc].qty
      BY <1>1, <1>9, SavedRow
  <2>2. ASSUME ~damaged'
        PROVE  InRows' + InReservations' + Owed(proc'[w]) - ledger' = InRows + InReservations + Owed(p) - ledger
    <3>1. CASE Absolute(p.op)
      <4>1. ledger' = ledger + (p.item.qty - stock[p.loc].qty)
          BY <1>1, <1>9, <3>1 DEF LedgerAfter, Absolute
      <4>2. Finish(w)
          BY <1>9, <2>2, <3>1 DEF Absolute, Compound
      <4> QED
          BY <1>1, <1>2, <1>3, <1>5, <1>7, <2>1, <4>1, <4>2
    <3>2. CASE ~Absolute(p.op) /\ ~Compound(p.op)
      <4>1. stock[p.loc].qty = p.old /\ Finish(w)
          BY <1>9, <2>2, <3>2 DEF Stale
      <4>2. p.op = "adjust" \/ p.op = "configure"
          BY <1>1, <3>2 DEF Ops, Absolute, Compound
      <4>3. CASE p.op = "adjust"
        <5>1. ledger' = ledger + p.n /\ p.item.qty = p.old + p.n
            BY <1>1, <1>9, <3>2, <4>3 DEF LedgerAfter, CopyTrue
        <5> QED
            BY <1>1, <1>2, <1>3, <1>5, <1>7, <2>1, <4>1, <5>1
      <4>4. CASE p.op = "configure"
        <5>1. ledger' = ledger + 0 /\ p.item.qty = p.old
            BY <1>1, <1>9, <3>2, <4>4 DEF LedgerAfter, CopyTrue
        <5> QED
            BY <1>1, <1>2, <1>3, <1>5, <1>7, <2>1, <4>1, <5>1
      <4> QED
          BY <4>2, <4>3, <4>4
    <3>3. CASE Compound(p.op)
      <4>1. stock[p.loc].qty = p.old
          BY <1>9, <2>2, <3>3 DEF Stale, Absolute, Compound
      <4>2. Goto(w, NextStep(p.op))
          BY <1>9, <2>2, <3>3
      <4>3. ~Finish(w)
        <5>1. NextStep(p.op) \in {"create", "delete", "saveDest"}
            BY <3>3 DEF Compound, NextStep
        <5>2. proc'[w].at = NextStep(p.op)
            BY <1>1, <4>2, <5>1, AfterGoto DEF Labels
        <5>3. Finish(w) => proc'[w] = Idle
            BY <1>1 DEF Finish, TypeOK
        <5> QED
            BY <5>1, <5>2, <5>3, IdleFacts
      <4>4. ledger' = ledger + 0
        <5>1. ~Absolute(p.op) /\ p.op # "adjust"
            BY <3>3 DEF Compound, Absolute
        <5> QED
            BY <1>9, <5>1 DEF LedgerAfter
      <4>5. p.item.qty = IF p.op = "release" THEN p.old + p.n ELSE p.old - p.n
          BY <1>1, <3>3 DEF CopyTrue, Compound
      <4> QED
          BY <1>1, <1>2, <1>3, <1>5, <1>7, <2>1, <4>1, <4>3, <4>4, <4>5
    <3> QED
        BY <3>1, <3>2, <3>3
  <2> QED
      BY <1>4, <1>7, <2>2, UnitsMove
<1>10. \/ UNCHANGED <<rowVars, historyVars>> /\ Finish(w)
       \/ /\ SaveStock(p.loc, p.item) /\ ledger' = LedgerAfter(p)
          /\ damaged' \/ Absolute(p.op) \/ ~Stale(p.loc, p.old)
          /\ damaged' \/ (Finish(w) /\ ~Compound(p.op)) \/ (Compound(p.op) /\ Goto(w, NextStep(p.op)))
    BY <1>1 DEF Save
<1> QED
    BY <1>8, <1>9, <1>10

\* A goroutine that ends, or goes to roll back, when the reservations stay or are booked elsewhere.
LEMMA AfterStep ==
    ASSUME UnitsIInv, NEW w \in Workers, Finish(w) \/ Goto(w, "undo"), Compound(proc[w].op),
           proc[w].at # "readStock"
    PROVE  /\ \A v \in Workers \ {w} : proc'[v] = proc[v]
           /\ CopyTrue(proc'[w])
           /\ Finish(w) => Owed(proc'[w]) = 0 /\ proc'[w].op # "release"
           /\ Goto(w, "undo") => /\ Owed(proc'[w]) = IF proc[w].op = "release" THEN -proc[w].n ELSE proc[w].n
                                 /\ proc'[w].op = proc[w].op /\ proc'[w].res = proc[w].res
                                 /\ proc'[w].n = proc[w].n
<1>1. TypeOK /\ CopyTrue(proc[w])
    BY HandFacts
<1>2. CASE Finish(w)
  <2>1. /\ \A v \in Workers \ {w} : proc'[v] = proc[v]
        /\ CopyTrue(proc'[w]) /\ Owed(proc'[w]) = 0 /\ proc'[w].op # "release"
      BY <1>1, <1>2, AfterFinish
  <2>2. ~Goto(w, "undo")
    <3>1. Goto(w, "undo") => proc'[w].at = "undo"
        BY <1>1, AfterGoto DEF Labels
    <3>2. proc'[w].at = "idle"
        BY <1>1, <1>2, IdleFacts DEF Finish, TypeOK
    <3> QED
        BY <3>1, <3>2
  <2> QED
      BY <2>1, <2>2
<1>3. CASE Goto(w, "undo") /\ ~Finish(w)
  <2>1. /\ \A v \in Workers \ {w} : proc'[v] = proc[v]
        /\ proc'[w].at = "undo" /\ proc'[w].op = proc[w].op /\ proc'[w].item = proc[w].item
        /\ proc'[w].old = proc[w].old /\ proc'[w].n = proc[w].n /\ proc'[w].res = proc[w].res
      BY <1>1, <1>3, AfterGoto DEF Labels
  <2>2. CopyTrue(proc'[w])
      BY <1>1, <2>1 DEF CopyTrue, Compound
  <2> QED
      BY <1>3, <2>1, <2>2 DEF Owed
<1> QED
    BY <1>2, <1>3

\* CreateReservation: the reservation has what the row has lost.
LEMMA CreateUnits ==
    ASSUME UnitsIInv, IInv', NEW w \in Workers, CreateReservation(w)
    PROVE  UnitsIInv'
<1> DEFINE p == proc[w]
<1>1. TypeOK /\ TypeOK' /\ CopyTrue(p) /\ p.at = "create" /\ p.n \in Int
    BY HandFacts DEF UnitsIInv, IInv, CreateReservation
<1>2. p.op = "reserve" /\ Compound(p.op) /\ Owed(p) = p.n
    BY <1>1 DEF CopyTrue, Compound, Owed
<1>3. InRows' = InRows /\ ledger' = ledger /\ (damaged => damaged')
    BY NothingMoves DEF CreateReservation
<1>4. Finish(w) \/ Goto(w, "undo")
    BY DEF CreateReservation
<1>5. /\ \A v \in Workers \ {w} : proc'[v] = proc[v]
      /\ CopyTrue(proc'[w])
      /\ Finish(w) => Owed(proc'[w]) = 0 /\ proc'[w].op # "release"
      /\ Goto(w, "undo") => Owed(proc'[w]) = p.n /\ proc'[w].op = p.op
    BY <1>1, <1>2, <1>4, AfterStep
<1>6. proc'[w].op # "release"
    BY <1>2, <1>4, <1>5
<1>7. CASE UNCHANGED resv /\ Goto(w, "undo")
  <2>1. InReservations' = InReservations
      BY <1>7, NothingMoves
  <2>2. \A v \in Workers : ReleaseTrue(proc[v])'
      BY <1>5, <1>6, <1>7, ReleasesStay
  <2> QED
      BY <1>2, <1>3, <1>5, <1>7, <2>1, <2>2, UnitsMove
<1>8. ASSUME NEW r \in Reservations, ~Open(r), \A v \in Workers : proc[v].op = "release" => proc[v].res # r,
             resv' = [resv EXCEPT ![r] = [loc |-> p.loc, qty |-> p.n]],
             Finish(w) \/ damaged'
      PROVE  UnitsIInv'
  <2>1. /\ resv'[r].qty = p.n /\ \A j \in Reservations \ {r} : resv'[j] = resv[j]
        /\ resv[r] \in Reservation
      BY <1>1, <1>8 DEF TypeOK
  <2>2. resv[r].qty = 0
    <3>1. \A a \in Amounts \cup {0} : a \in Nat
        BY InventoryAssumption
    <3> QED
        BY <1>8, <2>1, <3>1 DEF Open, Reservation
  <2>3. InReservations' = InReservations + p.n - 0
      BY <1>1, <2>1, <2>2, ReservationsChange
  <2>4. ASSUME NEW v \in Workers PROVE ReleaseTrue(proc[v])'
    <3>1. ReleaseTrue(proc[v])
        BY HandFacts
    <3>2. CASE v = w
        BY <1>6, <3>2 DEF ReleaseTrue
    <3>3. CASE v # w
      <4>1. proc'[v] = proc[v]
          BY <1>5, <3>3
      <4>2. proc[v].res \in Reservations
          BY HandFacts
      <4>3. proc[v].op = "release" => resv'[proc[v].res] = resv[proc[v].res]
          BY <1>8, <2>1, <4>2
      <4> QED
          BY <3>1, <4>1, <4>3 DEF ReleaseTrue, Open
    <3> QED
        BY <3>2, <3>3
  <2>5. InReservations \in Int /\ InRows \in Int /\ ledger \in Int
      BY <1>1, SumTypes
  <2>6. ~damaged' => InRows' + InReservations' + Owed(proc'[w]) - ledger' = InRows + InReservations + Owed(p) - ledger
      BY <1>1, <1>2, <1>3, <1>5, <1>8, <2>3, <2>5
  <2> QED
      BY <1>3, <1>5, <2>4, <2>6, UnitsMove
<1> QED
    BY <1>7, <1>8 DEF CreateReservation

\* DeleteReservation: the row has what the reservation has lost, and a second release of it finds it gone.
LEMMA DeleteReservationUnits ==
    ASSUME UnitsIInv, IInv', NEW w \in Workers, DeleteReservation(w)
    PROVE  UnitsIInv'
<1> DEFINE p == proc[w]
<1>1. /\ TypeOK /\ TypeOK' /\ CopyTrue(p) /\ ReleaseTrue(p) /\ p.at = "delete" /\ p.n \in Int
      /\ p.res \in Reservations
    BY HandFacts DEF UnitsIInv, IInv, DeleteReservation
<1>2. p.op = "release" /\ Compound(p.op) /\ Owed(p) = -p.n
    BY <1>1 DEF CopyTrue, Compound, Owed
<1>3. InRows' = InRows /\ ledger' = ledger /\ (damaged => damaged')
    BY NothingMoves DEF DeleteReservation
<1>4. Finish(w) \/ Goto(w, "undo")
    BY DEF DeleteReservation
<1>5. /\ \A v \in Workers \ {w} : proc'[v] = proc[v]
      /\ CopyTrue(proc'[w])
      /\ Finish(w) => Owed(proc'[w]) = 0 /\ proc'[w].op # "release"
      /\ Goto(w, "undo") => /\ Owed(proc'[w]) = -p.n
                            /\ proc'[w].op = p.op /\ proc'[w].res = p.res /\ proc'[w].n = p.n
    BY <1>1, <1>2, <1>4, AfterStep
<1>6. CASE UNCHANGED resv /\ Goto(w, "undo")
  <2>1. InReservations' = InReservations
      BY <1>6, NothingMoves
  <2>2. \A v \in Workers : ReleaseTrue(proc[v])'
      BY <1>5, <1>6, ReleasesStay
  <2> QED
      BY <1>2, <1>3, <1>5, <1>6, <2>1, <2>2, UnitsMove
<1>7. CASE Open(p.res) /\ resv' = [resv EXCEPT ![p.res].qty = 0] /\ (Finish(w) \/ damaged')
  <2>1. /\ resv'[p.res].qty = 0 /\ \A j \in Reservations \ {p.res} : resv'[j] = resv[j]
      BY <1>1, <1>7 DEF TypeOK, Reservation
  <2>2. resv[p.res].qty = p.n
      BY <1>1, <1>2, <1>7 DEF ReleaseTrue
  <2>3. InReservations' = InReservations + 0 - p.n
      BY <1>1, <2>1, <2>2, ReservationsChange
  <2>4. ASSUME NEW v \in Workers PROVE ReleaseTrue(proc[v])'
    <3>1. ReleaseTrue(proc[v]) /\ proc[v].res \in Reservations
        BY HandFacts
    <3>2. CASE proc'[v].op = "release" /\ proc'[v].res = p.res
        BY <2>1, <3>2 DEF ReleaseTrue, Open
    <3>3. CASE proc'[v].op = "release" /\ proc'[v].res # p.res
      <4>1. v # w
          BY <1>4, <1>5, <3>3
      <4>2. proc'[v] = proc[v] /\ resv'[proc[v].res] = resv[proc[v].res]
          BY <1>5, <2>1, <3>1, <3>3, <4>1
      <4> QED
          BY <3>1, <4>2 DEF ReleaseTrue, Open
    <3>4. CASE proc'[v].op # "release"
        BY <3>4 DEF ReleaseTrue
    <3> QED
        BY <3>2, <3>3, <3>4
  <2>5. InReservations \in Int /\ InRows \in Int /\ ledger \in Int
      BY <1>1, SumTypes
  <2>6. ~damaged' => InRows' + InReservations' + Owed(proc'[w]) - ledger' = InRows + InReservations + Owed(p) - ledger
      BY <1>1, <1>2, <1>3, <1>5, <1>7, <2>3, <2>5
  <2> QED
      BY <1>3, <1>5, <2>4, <2>6, UnitsMove
<1> QED
    BY <1>6, <1>7 DEF DeleteReservation, Deleted

\* SaveDestination: the destination has what the source has lost, unless its copy was stale.
LEMMA SaveDestinationUnits ==
    ASSUME UnitsIInv, IInv', NEW w \in Workers, SaveDestination(w)
    PROVE  UnitsIInv'
<1> DEFINE p == proc[w]
<1>1. /\ TypeOK /\ TypeOK' /\ CopyTrue(p) /\ p.at = "saveDest" /\ p.n \in Int
      /\ p.to \in Locations /\ p.dest \in Row /\ p.dest.qty \in Int /\ stock[p.to].qty \in Int
    BY HandFacts DEF UnitsIInv, IInv, SaveDestination
<1>2. p.op = "transfer" /\ Compound(p.op) /\ Owed(p) = p.n
    BY <1>1 DEF CopyTrue, Compound, Owed
<1>3. resv' = resv /\ InReservations' = InReservations /\ ledger' = ledger /\ (damaged => damaged')
  <2>1. resv' = resv /\ ledger' = ledger
      BY DEF SaveDestination
  <2>2. damaged => damaged'
      BY DEF SaveDestination
  <2> QED
      BY <2>1, <2>2, NothingMoves
<1>4. Finish(w) \/ Goto(w, "undo")
    BY DEF SaveDestination
<1>5. /\ \A v \in Workers \ {w} : proc'[v] = proc[v]
      /\ CopyTrue(proc'[w])
      /\ Finish(w) => Owed(proc'[w]) = 0 /\ proc'[w].op # "release"
      /\ Goto(w, "undo") => Owed(proc'[w]) = p.n /\ proc'[w].op = p.op
    BY <1>1, <1>2, <1>4, AfterStep
<1>6. \A v \in Workers : ReleaseTrue(proc[v])'
    BY <1>2, <1>3, <1>4, <1>5, ReleasesStay
<1>7. CASE UNCHANGED rowVars /\ Goto(w, "undo")
  <2>1. InRows' = InRows
      BY <1>7, NothingMoves
  <2> QED
      BY <1>2, <1>3, <1>5, <1>6, <1>7, <2>1, UnitsMove
<1>8. CASE SaveStock(p.to, p.dest) /\ (damaged' \/ (Finish(w) /\ ~Stale(p.to, p.dest.qty - p.n)))
  <2>1. InRows' = InRows + p.dest.qty - stock[p.to].qty
      BY <1>1, <1>8, SavedRow
  <2>2. InReservations \in Int /\ InRows \in Int /\ ledger \in Int
      BY <1>1, SumTypes
  <2>3. ~damaged' => stock[p.to].qty = p.dest.qty - p.n /\ Owed(proc'[w]) = 0
      BY <1>5, <1>8 DEF Stale
  <2>4. ~damaged' => InRows' + InReservations' + Owed(proc'[w]) - ledger' = InRows + InReservations + Owed(p) - ledger
      BY <1>1, <1>2, <1>3, <2>1, <2>2, <2>3
  <2> QED
      BY <1>3, <1>5, <1>6, <2>4, UnitsMove
<1>9. \/ UNCHANGED rowVars /\ Goto(w, "undo")
      \/ SaveStock(p.to, p.dest) /\ (damaged' \/ (Finish(w) /\ ~Stale(p.to, p.dest.qty - p.n)))
    BY DEF SaveDestination
<1> QED
    BY <1>7, <1>8, <1>9

\* Undo: the row has what it had, unless it has changed meanwhile.
LEMMA UndoUnits ==
    ASSUME UnitsIInv, IInv', NEW w \in Workers, Undo(w)
    PROVE  UnitsIInv'
<1> DEFINE p == proc[w]
           row == [p.item EXCEPT !.qty = p.old]
<1>1. /\ TypeOK /\ TypeOK' /\ CopyTrue(p) /\ p.at = "undo" /\ p.n \in Int /\ p.old \in Int /\ p.old \in Quantities
      /\ p.loc \in Locations /\ p.item \in Row /\ p.item.qty \in Int /\ stock[p.loc].qty \in Int
    BY HandFacts, CopyFacts DEF UnitsIInv, IInv, Undo
<1>2. Compound(p.op) /\ Owed(p) = IF p.op = "release" THEN -p.n ELSE p.n
    BY <1>1 DEF CopyTrue, Owed
<1>3. resv' = resv /\ InReservations' = InReservations /\ ledger' = ledger /\ (damaged => damaged')
    BY NothingMoves DEF Undo
<1>4. /\ \A v \in Workers \ {w} : proc'[v] = proc[v]
      /\ CopyTrue(proc'[w]) /\ Owed(proc'[w]) = 0 /\ proc'[w].op # "release"
    BY <1>1, AfterFinish DEF Undo
<1>5. \A v \in Workers : ReleaseTrue(proc[v])'
    BY <1>3, <1>4, ReleasesStay
<1>6. ASSUME ~damaged'
      PROVE  InRows' + InReservations' + Owed(proc'[w]) - ledger' = InRows + InReservations + Owed(p) - ledger
  <2>1. SaveStock(p.loc, row) /\ stock[p.loc].qty = p.item.qty
      BY <1>6 DEF Undo, Stale
  <2>2. row \in Row /\ row.qty = p.old
      BY <1>1 DEF Row
  <2> HIDE DEF row
  <2>3. InRows' = InRows + p.old - p.item.qty
      BY <1>1, <2>1, <2>2, SavedRow
  <2>4. p.item.qty = IF p.op = "release" THEN p.old + p.n ELSE p.old - p.n
      BY <1>1, <1>2 DEF CopyTrue, Compound
  <2>5. InReservations \in Int /\ InRows \in Int /\ ledger \in Int
      BY <1>1, SumTypes
  <2> QED
      BY <1>1, <1>2, <1>3, <1>4, <2>3, <2>4, <2>5
<1> QED
    BY <1>3, <1>4, <1>5, <1>6, UnitsMove

\* A step that no goroutine makes keeps the units when the ledger changes by what the rows change.
LEMMA UnitsBooked ==
    ASSUME UnitsIInv, IInv', UNCHANGED <<proc, resv, damaged>>, InRows' - ledger' = InRows - ledger
    PROVE  UnitsIInv'
<1>1. TypeOK /\ TypeOK'
    BY DEF UnitsIInv, IInv
<1>2. InRows \in Int /\ InReservations \in Int /\ InTransit \in Int /\ ledger \in Int
    BY <1>1, SumTypes
<1>3. InRows' \in Int /\ InReservations' \in Int /\ InTransit' \in Int /\ ledger' \in Int
    BY <1>1, SumTypes
<1>4. InReservations' = InReservations /\ InTransit' = InTransit
    BY DEF InReservations, InTransit
<1>5. ASSUME ~damaged' PROVE InRows' + InReservations' + InTransit' = ledger'
  <2>1. ~damaged
      BY <1>5
  <2>2. InRows + InReservations + InTransit = ledger
      BY <2>1 DEF UnitsIInv, Balance
  <2>3. PICK a \in Int, b \in Int, c \in Int, d \in Int : a = InRows /\ b = InRows' /\ c = ledger /\ d = ledger'
      BY <1>2, <1>3
  <2>4. b - d = a - c
      BY <2>3
  <2>5. PICK e \in Int, f \in Int : e = InReservations /\ f = InTransit
      BY <1>2
  <2>6. a + e + f = c
      BY <2>2, <2>3, <2>5
  <2>7. b + e + f = d
      BY <2>4, <2>6
  <2> QED
      BY <1>4, <2>3, <2>5, <2>7
<1>6. \A w \in Workers : CopyTrue(proc[w])' /\ ReleaseTrue(proc[w])'
    BY DEF UnitsIInv, CopyTrue, ReleaseTrue, Open
<1> QED
    BY <1>5, <1>6 DEF UnitsIInv, Balance

\* Deletions are booked, handlers touch the catalog only, and a crash loses what is owed only with damage.
LEMMA OtherUnits ==
    ASSUME UnitsIInv, IInv', \/ \E k \in Locations : DeleteStock(k)
                             \/ \E q \in Quantities : HandleStockChanged(q)
                             \/ Crash
                             \/ UNCHANGED vars
    PROVE  UnitsIInv'
<1>1. TypeOK /\ TypeOK' /\ \A w \in Workers : CopyTrue(proc[w]) /\ ReleaseTrue(proc[w])
    BY DEF UnitsIInv, IInv
<1>2. /\ InRows \in Int /\ InReservations \in Int /\ InTransit \in Int /\ ledger \in Int
      /\ InRows' \in Int /\ InReservations' \in Int /\ InTransit' \in Int /\ ledger' \in Int
    BY <1>1, SumTypes
<1>4. ASSUME NEW k \in Locations, DeleteStock(k) PROVE UnitsIInv'
  <2>1. stock'[k].qty = 0 /\ \A j \in Locations \ {k} : stock'[j] = stock[j]
      BY <1>1, <1>4, IdleFacts DEF DeleteStock, TypeOK
  <2>2. InRows' = InRows + 0 - stock[k].qty
      BY <1>1, <2>1, RowsChange
  <2>3. stock[k].qty \in Int /\ ledger' = ledger - stock[k].qty
      BY <1>4, RowFacts DEF UnitsIInv, DeleteStock
  <2>4. InRows' - ledger' = InRows - ledger
      BY <1>2, <2>2, <2>3
  <2> QED
      BY <1>4, <2>4, UnitsBooked DEF DeleteStock
<1>5. ASSUME NEW q \in Quantities, HandleStockChanged(q) PROVE UnitsIInv'
  <2>1. UNCHANGED <<proc, resv, damaged>> /\ ledger' = ledger /\ InRows' = InRows
      BY <1>5, NothingMoves DEF HandleStockChanged, historyVars
  <2> QED
      BY <1>2, <2>1, UnitsBooked
<1>6. CASE UNCHANGED vars
  <2>1. UNCHANGED <<proc, resv, damaged>> /\ ledger' = ledger /\ InRows' = InRows
      BY <1>6, NothingMoves DEF vars, rowVars
  <2> QED
      BY <1>2, <2>1, UnitsBooked
<1>7. CASE Crash
  <2>1. InRows' = InRows /\ InReservations' = InReservations /\ ledger' = ledger /\ proc' = [w \in Workers |-> Idle]
      BY <1>7, NothingMoves DEF Crash
  <2>2. CopyTrue(Idle) /\ Owed(Idle) = 0 /\ Idle.op # "release"
      BY IdleFacts DEF CopyTrue, Owed
  <2>3. \A w \in Workers : CopyTrue(proc[w])' /\ ReleaseTrue(proc[w])'
      BY <2>1, <2>2 DEF ReleaseTrue
  <2>4. ASSUME ~damaged' PROVE Balance' = ledger'
    <3>1. ~damaged /\ \A w \in Workers : proc[w].at \notin {"create", "delete", "saveDest", "undo"}
        BY <1>7, <2>4 DEF Crash
    <3>2. [w \in Workers |-> Owed(proc[w])] = [w \in Workers |-> Owed(proc'[w])]
        BY <2>1, <2>2, <3>1 DEF Owed
    <3>3. InTransit' = InTransit
        BY <3>2 DEF InTransit
    <3> QED
        BY <2>1, <3>1, <3>3 DEF UnitsIInv, Balance
  <2> QED
      BY <2>3, <2>4 DEF UnitsIInv
<1> QED
    BY <1>4, <1>5, <1>6, <1>7

\* At first every location has its units, and nobody else has any.
LEMMA InitUnits == Init => UnitsIInv
<1> SUFFICES ASSUME Init PROVE UnitsIInv
    OBVIOUS
<1> USE InventoryAssumption
<1>1. IInv
    BY InitInv
<1>2. CopyTrue(Idle) /\ Owed(Idle) = 0 /\ Idle.op # "release"
    BY IdleFacts DEF CopyTrue, Owed
<1>3. \A w \in Workers : CopyTrue(proc[w]) /\ ReleaseTrue(proc[w])
    BY <1>2 DEF Init, ReleaseTrue
<1>4. InRows = InitialStock * Cardinality(Locations)
  <2>1. [k \in Locations |-> stock[k].qty] = [k \in Locations |-> InitialStock]
      BY DEF Init
  <2> QED
      BY <2>1, TotalOfSame DEF InRows
<1>5. InReservations = 0
  <2>1. [r \in Reservations |-> resv[r].qty] = [r \in Reservations |-> 0]
      BY DEF Init
  <2>2. InReservations = 0 * Cardinality(Reservations)
      BY <2>1, TotalOfSame DEF InReservations
  <2> QED
      BY <2>2, FS_CardinalityType
<1>6. InTransit = 0
  <2>1. [w \in Workers |-> Owed(proc[w])] = [w \in Workers |-> 0]
      BY <1>2 DEF Init
  <2>2. InTransit = 0 * Cardinality(Workers)
      BY <2>1, TotalOfSame DEF InTransit
  <2> QED
      BY <2>2, FS_CardinalityType
<1>7. Cardinality(Locations) \in Nat
    BY FS_CardinalityType
<1>8. Balance = ledger
    BY <1>4, <1>5, <1>6, <1>7 DEF Init, Balance
<1> QED
    BY <1>1, <1>3, <1>8 DEF UnitsIInv

\* The invariant is inductive: one case per action.
LEMMA NextUnits == UnitsIInv /\ [Next]_vars => UnitsIInv'
<1> SUFFICES ASSUME UnitsIInv, [Next]_vars PROVE UnitsIInv'
    OBVIOUS
<1>1. IInv'
    BY NextInv DEF UnitsIInv
<1>2. ASSUME NEW w \in Workers, NewRequest(w) PROVE UnitsIInv'
  <2>1. CASE \E r \in Reservations : ReleaseReservation(w, r)
      BY <1>1, <2>1, ReleaseUnits
  <2>2. ASSUME NEW k \in Locations, NEW n \in Amounts,
               \/ ReserveStock(w, k, n)
               \/ AdjustStock(w, k, n) \/ AdjustStock(w, k, -n)
               \/ \E to \in Locations : TransferStock(w, k, to, n)
        PROVE  UnitsIInv'
    <3>1. n \in Int /\ -n \in Int
        BY InventoryAssumption
    <3> QED
        BY <1>1, <2>2, <3>1, ReserveUnits, AdjustUnits, TransferUnits
  <2>3. ASSUME NEW k \in Locations, NEW q \in Levels, SetStock(w, k, q) \/ SyncStock(w, k, q)
        PROVE  UnitsIInv'
      BY <1>1, <2>3, SetUnits, SyncUnits
  <2>4. ASSUME NEW k \in Locations, NEW l \in Limits, ConfigureStock(w, k, l)
        PROVE  UnitsIInv'
      BY <1>1, <2>4, ConfigureUnits
  <2> QED
      BY <1>2, <2>1, <2>2, <2>3, <2>4 DEF NewRequest
<1>3. ASSUME NEW w \in Workers, Step(w) PROVE UnitsIInv'
    BY <1>1, <1>3, ReadForReleaseUnits, ReadDestinationUnits, SaveUnits, CreateUnits,
       DeleteReservationUnits, SaveDestinationUnits, UndoUnits DEF Step
<1> QED
    BY <1>1, <1>2, <1>3, OtherUnits DEF Next

\* The invariant holds in every behaviour.
THEOREM UnitsInductive == Spec => []UnitsIInv
BY InitUnits, NextUnits, PTL DEF Spec

(***************************************************************************)
(* Units are neither made nor lost: when no stale copy was saved, no       *)
(* answer of a save was lost half-way and nothing failed to roll back, the *)
(* rows and the open reservations together hold what the deliberate        *)
(* changes account for whenever no request is in progress.                 *)
(***************************************************************************)
THEOREM UnitsStayConserved == Spec => []UnitsConserved
<1>1. UnitsIInv => UnitsConserved
  <2> SUFFICES ASSUME UnitsIInv, ~damaged, \A w \in Workers : Free(w) PROVE TotalUnits = ledger
      BY DEF UnitsConserved
  <2>1. TotalUnits = InRows + InReservations /\ InRows \in Int /\ InReservations \in Int
      BY TotalUnitsAre DEF UnitsIInv, IInv
  <2>2. Owed(Idle) = 0
      BY IdleFacts DEF Owed
  <2>3. [w \in Workers |-> Owed(proc[w])] = [w \in Workers |-> 0]
      BY <2>2 DEF Free
  <2>4. InTransit = 0 * Cardinality(Workers)
      BY <2>3, TotalOfSame, InventoryAssumption DEF InTransit
  <2>5. InTransit = 0
      BY <2>4, FS_CardinalityType, InventoryAssumption
  <2> QED
      BY <2>1, <2>5 DEF UnitsIInv, Balance
<1> QED
    BY <1>1, UnitsInductive, PTL

=============================================================================
