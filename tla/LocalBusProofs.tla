--------------------------- MODULE LocalBusProofs ---------------------------
(***************************************************************************)
(* Theorems about LocalBus, for any finite sets of events and handlers,    *)
(* any callers of Close, any number of retries and any channel size.       *)
(*                                                                         *)
(* The invariant says what the wait group counts.  Publish takes its slots *)
(* while the bus is open, a slot is given back only by a goroutine that    *)
(* has ended, and so a counter that is zero after the bus was closed means *)
(* that no goroutine is left, and stays zero.                              *)
(***************************************************************************)
EXTENDS LocalBus, FiniteSetTheorems, TLAPS

\* A publication that has not been accepted has no goroutines.
Unpublished ==
    \A e \in Events : publisher[e] \in {"new", "checked"}
                          => \A h \in Handlers : run[<<e, h>>] = "none"

\* Only a goroutine that has ended gives its slot back.
ReleasedLast == \A d \in released : run[d] \in {"handled", "givenUp"}

\* The caller of Close that found the bus open.
Closing(c) == closer[c] \in {"waiting", "drained"}

\* Only one caller closes the bus, and its dead-letter queue after it.
OneCloser ==
    /\ \A c \in Closers : closer[c] # "idle" => closed
    /\ \A c \in Closers, k \in Closers : Closing(c) /\ Closing(k) => c = k
    /\ dlqClosed => closed /\ \A c \in Closers : ~Closing(c)

\* Whoever has waited found the counter at zero, where it stays.
WaitedForAll == dlqClosed \/ (\E c \in Closers : closer[c] = "drained") => closed /\ wg = 0

\* The inductive invariant.
IInv ==
    /\ TypeOK
    /\ wg = Cardinality(Held)
    /\ Unpublished
    /\ ReleasedLast
    /\ OneCloser
    /\ WaitedForAll

-----------------------------------------------------------------------------
(* The wait group.                                                         *)

\* Finitely many goroutines can hold a slot.
LEMMA HeldFinite ==
  IsFiniteSet(Deliveries) /\ IsFiniteSet(Held)
<1>1. IsFiniteSet(Deliveries)
  BY BusAssumption, FS_Product DEF Deliveries
<1>2. Held \in SUBSET Deliveries
  BY DEF Held
<1> QED BY <1>1, <1>2, FS_Subset

\* A counter at zero means that every delivery has ended or was never made.
LEMMA ZeroMeansEnded ==
  ASSUME IInv, wg = 0, NEW d \in Deliveries
  PROVE  run[d] \in {"none", "handled", "givenUp"}
<1>1. Held = {}
  BY HeldFinite, FS_EmptySet DEF IInv
<1> QED BY <1>1 DEF Held, IInv, ReleasedLast

\* Publish counts one slot for each goroutine it is going to start.
LEMMA PublishCounts ==
  ASSUME IInv, NEW e \in Events, publisher[e] \in {"new", "checked"},
         run' = [d \in Deliveries |-> IF d \in {e} \X subscribers THEN "slot" ELSE run[d]],
         wg' = wg + Cardinality(subscribers), released' = released
  PROVE  wg' = Cardinality(Held') /\ wg' \in Nat
<1> DEFINE New == {e} \X subscribers
<1>1. New \subseteq Deliveries /\ IsFiniteSet(subscribers)
  BY BusAssumption, FS_Subset DEF IInv, TypeOK, Deliveries
<1>2. \A d \in New : run[d] = "none"
  BY <1>1 DEF IInv, Unpublished, TypeOK
<1>3. New \cap Held = {} /\ New \cap released = {}
  BY <1>2 DEF Held, IInv, ReleasedLast
<1>4. Held' = Held \cup New
  BY <1>1, <1>2, <1>3 DEF Held
<1>5. IsFiniteSet(New) /\ Cardinality(New) = Cardinality(subscribers)
        /\ Cardinality(subscribers) \in Nat
  <2>1. IsFiniteSet({e}) /\ Cardinality({e}) = 1
    BY FS_Singleton
  <2>2. IsFiniteSet(New) /\ Cardinality(New) = 1 * Cardinality(subscribers)
    BY <1>1, <2>1, FS_Product
  <2> QED BY <1>1, <2>2, FS_CardinalityType
<1>6. Cardinality(Held \cup New) = Cardinality(Held) + Cardinality(New) - Cardinality(Held \cap New)
  BY <1>5, HeldFinite, FS_Union
<1>7. Cardinality(Held \cap New) = 0
  <2>1. Held \cap New = {}
    BY <1>3
  <2> QED BY <2>1, FS_EmptySet
<1>8. Cardinality(Held) \in Nat
  BY HeldFinite, FS_CardinalityType
<1> QED BY <1>4, <1>5, <1>6, <1>7, <1>8 DEF IInv

\* Done gives back the slot its goroutine holds.
LEMMA DoneCounts ==
  ASSUME IInv, NEW d \in Deliveries, run[d] # "none", d \notin released,
         run' = run, released' = released \cup {d}, wg' = wg - 1
  PROVE  wg' = Cardinality(Held') /\ wg' \in Nat
<1>1. d \in Held /\ Held' = Held \ {d}
  BY DEF Held
<1>2. Cardinality(Held \ {d}) = Cardinality(Held) - 1 /\ IsFiniteSet(Held \ {d})
  BY <1>1, HeldFinite, FS_RemoveElement
<1>3. Cardinality(Held \ {d}) \in Nat
  BY <1>2, FS_CardinalityType
<1> QED BY <1>1, <1>2, <1>3 DEF IInv

\* A goroutine that goes on keeps its slot.
LEMMA GoingOnCounts ==
  ASSUME IInv, wg' = wg, released' = released, run' \in [Deliveries -> RunStates],
         \A d \in Deliveries : run[d] = "none" <=> run'[d] = "none"
  PROVE  wg' = Cardinality(Held')
<1>1. Held' = Held
  BY DEF Held
<1> QED BY <1>1 DEF IInv

-----------------------------------------------------------------------------
(* The invariant.                                                          *)

\* The invariant holds of a new bus.
LEMMA InitIInv == Init => IInv
<1> SUFFICES ASSUME Init PROVE IInv
  OBVIOUS
<1>1. TypeOK
  <2>1. 0 \in 0..DLQSize /\ 0 \in 0..MaxRetries /\ wg \in Nat
    BY BusAssumption DEF Init
  <2>2. tries \in [Deliveries -> 0..MaxRetries] /\ dlq \in 0..DLQSize
    BY <2>1 DEF Init
  <2> QED BY <2>1, <2>2 DEF Init, TypeOK, RunStates
<1>2. wg = Cardinality(Held)
  <2>1. Held = {}
    BY DEF Init, Held
  <2> QED BY <2>1, FS_EmptySet DEF Init
<1>3. Unpublished /\ ReleasedLast
  BY DEF Init, Unpublished, ReleasedLast, Deliveries
<1>4. OneCloser /\ WaitedForAll
  BY DEF Init, OneCloser, WaitedForAll, Closing
<1> QED BY <1>1, <1>2, <1>3, <1>4 DEF IInv

\* Every step of the bus keeps the invariant.
LEMMA NextIInv == IInv /\ [Next]_vars => IInv'
<1> SUFFICES ASSUME IInv, [Next]_vars PROVE IInv'
  OBVIOUS
<1> USE DEF TypeOK, RunStates
<1>1. ASSUME NEW h \in Handlers, Subscribe(h) PROVE IInv'
  BY <1>1 DEF Subscribe, IInv, Held, Unpublished, ReleasedLast, OneCloser, WaitedForAll, Closing
<1>2. ASSUME NEW e \in Events, CheckOpen(e) PROVE IInv'
  BY <1>2 DEF CheckOpen, IInv, Held, Unpublished, ReleasedLast, OneCloser, WaitedForAll, Closing
<1>3. ASSUME NEW e \in Events, Publish(e) PROVE IInv'
  <2>1. CASE Accepts(e) /\ subscribers # {}
    <3>1. wg' = Cardinality(Held') /\ wg' \in Nat
      BY <1>3, <2>1, PublishCounts DEF Publish
    <3>2. TypeOK'
      BY <1>3, <2>1, <3>1 DEF Publish, IInv
    <3>3. Unpublished'
      BY ZenonT(40), <1>3, <2>1 DEF Publish, IInv, Unpublished, Deliveries
    <3>4. ReleasedLast'
      <4>1. \A d \in released : d \notin {e} \X subscribers
        BY <1>3 DEF Publish, IInv, ReleasedLast, Unpublished, Deliveries
      <4> QED BY <1>3, <2>1, <4>1 DEF Publish, IInv, ReleasedLast
    <3>5. OneCloser' /\ WaitedForAll'
      BY <1>3, <2>1 DEF Publish, Accepts, IInv, OneCloser, WaitedForAll, Closing
    <3> QED BY <3>1, <3>2, <3>3, <3>4, <3>5 DEF IInv
  <2>2. CASE ~(Accepts(e) /\ subscribers # {})
    <3>1. /\ publisher' = [publisher EXCEPT ![e] = "dropped"]
          /\ UNCHANGED <<subscribers, closed, wg, dlq, dlqClosed, run, tries, released, closer>>
      BY <1>3, <2>2 DEF Publish
    <3>2. Held' = Held
      BY <3>1 DEF Held
    <3>3. Unpublished'
      BY <3>1 DEF IInv, Unpublished
    <3> QED BY <3>1, <3>2, <3>3 DEF IInv, ReleasedLast, OneCloser, WaitedForAll, Closing
  <2> QED BY <2>1, <2>2
<1>4. ASSUME NEW d \in Deliveries, Launch(d) \/ Attempt(d) \/ SendToDLQ(d) PROVE IInv'
  <2>1. /\ run' \in [Deliveries -> RunStates]
        /\ \A k \in Deliveries : run[k] = "none" <=> run'[k] = "none"
        /\ \A k \in Deliveries : run[k] \in {"handled", "givenUp"} => run'[k] = run[k]
        /\ wg' = wg /\ released' = released
    BY <1>4 DEF Launch, Attempt, SendToDLQ, GivesUp, IInv
  <2>2. wg' = Cardinality(Held')
    BY <2>1, GoingOnCounts
  <2>3. TypeOK'
    BY <1>4, <2>1, BusAssumption DEF Launch, Attempt, SendToDLQ, MoreAttempts, IInv
  <2>4. Unpublished' /\ ReleasedLast'
    BY <1>4, <2>1 DEF Launch, Attempt, SendToDLQ, IInv, Unpublished, ReleasedLast, Deliveries
  <2>5. OneCloser' /\ WaitedForAll'
    BY <1>4 DEF Launch, Attempt, SendToDLQ, IInv, OneCloser, WaitedForAll, Closing
  <2> QED BY <2>2, <2>3, <2>4, <2>5 DEF IInv
<1>5. CASE ReadDLQ
  BY <1>5, BusAssumption DEF ReadDLQ, IInv, Held, Unpublished, ReleasedLast, OneCloser,
                             WaitedForAll, Closing
<1>6. ASSUME NEW d \in Deliveries, Done(d) PROVE IInv'
  <2>1. wg' = Cardinality(Held') /\ wg' \in Nat /\ wg # 0
    BY <1>6, DoneCounts DEF Done, Ended, IInv
  <2>2. TypeOK' /\ Unpublished' /\ ReleasedLast'
    BY <1>6, <2>1 DEF Done, Ended, IInv, Unpublished, ReleasedLast
  <2>3. OneCloser' /\ WaitedForAll'
    BY <1>6, <2>1 DEF Done, IInv, OneCloser, WaitedForAll, Closing
  <2> QED BY <2>1, <2>2, <2>3 DEF IInv
<1>7. ASSUME NEW c \in Closers, Close(c) \/ Wait(c) \/ CloseDLQ(c) PROVE IInv'
  <2>1. TypeOK' /\ wg' = Cardinality(Held') /\ Unpublished' /\ ReleasedLast'
    BY ZenonT(40), <1>7 DEF Close, Wait, CloseDLQ, IInv, Held, Unpublished, ReleasedLast
  <2>2. OneCloser'
    BY <1>7 DEF Close, Wait, CloseDLQ, HasWaited, IInv, OneCloser, Closing
  <2>3. WaitedForAll'
    BY <1>7 DEF Close, Wait, CloseDLQ, HasWaited, IInv, OneCloser, WaitedForAll, Closing
  <2> QED BY <2>1, <2>2, <2>3 DEF IInv
<1>8. CASE UNCHANGED vars
  BY <1>8 DEF vars, IInv, Held, Unpublished, ReleasedLast, OneCloser, WaitedForAll, Closing
<1> QED BY <1>1, <1>2, <1>3, <1>4, <1>5, <1>6, <1>7, <1>8 DEF Next

\* The invariant holds in every behaviour.
THEOREM Inductive == Spec => []IInv
<1> QED BY InitIInv, NextIInv, PTL DEF Spec

(***************************************************************************)
(* Every variable always has its type; the wait group is never negative    *)
(* and no handler is tried more than MaxRetries times.                     *)
(***************************************************************************)
THEOREM TypeCorrect == Spec => []TypeOK
<1>1. IInv => TypeOK
  BY DEF IInv
<1> QED BY <1>1, Inductive, PTL

(***************************************************************************)
(* The dead-letter channel is closed once, and after every possible send.  *)
(***************************************************************************)
THEOREM ClosedLast == Spec => []DLQClosedLast
<1>1. IInv => DLQClosedLast
  <2> SUFFICES ASSUME IInv, dlqClosed PROVE DLQClosedLast
    BY DEF DLQClosedLast
  <2>1. wg = 0 /\ \A c \in Closers : ~Closing(c)
    BY DEF IInv, WaitedForAll, OneCloser
  <2> QED BY <2>1, ZeroMeansEnded DEF DLQClosedLast, Closing
<1> QED BY <1>1, Inductive, PTL

(***************************************************************************)
(* Once the bus is closed no slot of the wait group is taken any more.     *)
(***************************************************************************)
THEOREM NoSlotAfterClose == Spec => NoLateSlot
<1>1. IInv /\ [Next]_vars => [closed => wg' <= wg]_vars
  <2> SUFFICES ASSUME IInv, Next, closed PROVE wg' <= wg
    BY DEF vars
  <2>1. wg \in Nat
    BY DEF IInv, TypeOK
  <2>2. ASSUME NEW e \in Events, Publish(e) PROVE wg' = wg
    BY <2>2 DEF Publish, Accepts
  <2>3. ASSUME NEW d \in Deliveries, Done(d) PROVE wg' <= wg
    BY <2>1, <2>3 DEF Done
  <2>4. CASE wg' = wg
    BY <2>1, <2>4
  <2> QED BY <2>2, <2>3, <2>4
          DEF Next, Subscribe, CheckOpen, Launch, Attempt, SendToDLQ, ReadDLQ, Close, Wait,
              CloseDLQ
<1> QED BY <1>1, Inductive, PTL DEF Spec, NoLateSlot

(***************************************************************************)
(* Close waits for a number that only falls, then closes the channel.      *)
(***************************************************************************)
THEOREM ShutdownInOrder == Spec => ShutsDownInOrder
BY ClosedLast, NoSlotAfterClose, PTL DEF ShutsDownInOrder

-----------------------------------------------------------------------------
(* The refinement.                                                         *)

\* A new bus has promised nothing.
LEMMA InitPromise == Init => Promise!Init
  BY DEF Init, Promise!Init, Promised

\* Every step of the bus is a step of the promise, or none.
LEMMA NextPromise ==
  ASSUME IInv, IInv', [Next]_vars
  PROVE  [Promise!Next]_(Promise!vars)
<1> USE DEF Promise!vars
<1>0. run \in [Deliveries -> RunStates] /\ run' \in [Deliveries -> RunStates]
  BY DEF IInv, TypeOK
<1>1. CASE UNCHANGED <<run, closed, dlqClosed>>
  BY <1>1 DEF Promised
<1>2. ASSUME NEW e \in Events, Publish(e), Accepts(e), subscribers # {}
      PROVE  Promise!Next
  <2> DEFINE D == {e} \X subscribers
  <2>1. D \in SUBSET Deliveries /\ D # {} /\ \A d \in D : run[d] = "none"
    <3>1. subscribers \subseteq Handlers /\ publisher[e] \in {"new", "checked"}
      BY <1>2 DEF Publish, IInv, TypeOK
    <3>2. PICK h \in subscribers : TRUE
      BY <1>2
    <3>3. <<e, h>> \in D
      BY <3>2
    <3> QED BY <3>1, <3>3 DEF IInv, Unpublished, Deliveries
  <2>2. run' = [d \in Deliveries |-> IF d \in D THEN "slot" ELSE run[d]]
    BY <1>2 DEF Publish
  <2>3. Promised' = [d \in Deliveries |-> IF d \in D THEN "accepted" ELSE Promised[d]]
    BY <2>2 DEF Promised
  <2>4. \A d \in D : Promised[d] = "no"
    BY <2>1 DEF Promised
  <2>5. Promise!Accept(D)
    BY <1>2, <2>1, <2>3, <2>4 DEF Publish, Accepts, Promise!Accept
  <2> QED BY <2>1, <2>5 DEF Promise!Next
<1>3. ASSUME NEW d \in Deliveries, NEW out \in {"handled", "givenUp"},
             run[d] \in {"running", "exhausted"}, run' = [run EXCEPT ![d] = out],
             UNCHANGED <<closed, dlqClosed>>
      PROVE  Promise!Next
  <2>1. Promised[d] = "accepted"
    BY <1>3 DEF Promised
  <2>2. Promised' = [Promised EXCEPT ![d] = out]
    BY <1>0, <1>3 DEF Promised
  <2> QED BY <1>3, <2>1, <2>2 DEF Promise!Next, Promise!End
<1>4. ASSUME NEW d \in Deliveries, NEW s \in {"running", "exhausted"},
             run[d] \in {"slot", "running"}, run' = [run EXCEPT ![d] = s],
             UNCHANGED <<closed, dlqClosed>>
      PROVE  UNCHANGED Promise!vars
  BY <1>0, <1>4 DEF Promised
<1>5. ASSUME NEW c \in Closers, Close(c) PROVE [Promise!Next]_(Promise!vars)
  <2>1. Promised' = Promised /\ dlqClosed' = dlqClosed
    BY <1>5 DEF Close, Promised
  <2>2. CASE closed
    BY <1>5, <2>1, <2>2 DEF Close
  <2>3. CASE ~closed
    BY <1>5, <2>1, <2>3 DEF Close, Promise!Next, Promise!Shut
  <2> QED BY <2>2, <2>3
<1>6. ASSUME NEW c \in Closers, CloseDLQ(c) PROVE Promise!Next
  <2>1. closed /\ ~dlqClosed /\ wg = 0
    BY <1>6 DEF CloseDLQ, HasWaited, IInv, OneCloser, WaitedForAll, Closing, TypeOK
  <2>2. \A d \in Deliveries : Promised[d] # "accepted"
    BY <2>1, ZeroMeansEnded DEF Promised
  <2>3. Promised' = Promised /\ closed' = closed /\ dlqClosed' = TRUE
    BY <1>6 DEF CloseDLQ, Promised
  <2> QED BY <2>1, <2>2, <2>3 DEF Promise!Next, Promise!Drain
<1>7. ASSUME NEW d \in Deliveries, Launch(d) PROVE [Promise!Next]_(Promise!vars)
  BY <1>4, <1>7 DEF Launch
<1>8. ASSUME NEW d \in Deliveries, Attempt(d) PROVE [Promise!Next]_(Promise!vars)
  BY <1>1, <1>3, <1>4, <1>8 DEF Attempt
<1>9. ASSUME NEW d \in Deliveries, SendToDLQ(d) PROVE [Promise!Next]_(Promise!vars)
  BY <1>3, <1>9 DEF SendToDLQ, GivesUp
<1>10. ASSUME NEW e \in Events, Publish(e) PROVE [Promise!Next]_(Promise!vars)
  BY <1>1, <1>2, <1>10 DEF Publish
<1>11. ASSUME \/ \E h \in Handlers : Subscribe(h)
              \/ \E e \in Events : CheckOpen(e)
              \/ ReadDLQ
              \/ \E d \in Deliveries : Done(d)
              \/ \E c \in Closers : Wait(c)
              \/ UNCHANGED vars
       PROVE  [Promise!Next]_(Promise!vars)
  BY <1>1, <1>11 DEF Subscribe, CheckOpen, ReadDLQ, Done, Wait, vars
<1> QED BY <1>5, <1>6, <1>7, <1>8, <1>9, <1>10, <1>11 DEF Next

(***************************************************************************)
(* The bus implements what it promises, up to fairness: every accepted     *)
(* delivery ends at most once, nothing is accepted after Close, and the    *)
(* bus is drained only when nothing is left.                               *)
(***************************************************************************)
THEOREM Implements == Spec => Promise!Spec
<1>1. IInv /\ IInv' /\ [Next]_vars => [Promise!Next]_(Promise!vars)
  BY NextPromise
<1> QED BY <1>1, InitPromise, Inductive, PTL DEF Spec, Promise!Spec
=============================================================================
