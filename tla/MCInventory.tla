----------------------------- MODULE MCInventory -----------------------------
(***************************************************************************)
(* Small instances of Inventory for TLC.                                   *)
(***************************************************************************)
EXTENDS Inventory, TLC

CONSTANTS k1, k2, r1, r2, w1, w2

TwoLocations == {k1, k2}
OneLocation == {k1}
TwoReservations == {r1, r2}
OneReservation == {r1}
TwoWorkers == {w1, w2}
SmallQuantities == -2..5

\* Goroutines and reservation ids are interchangeable; Idle names one
\* reservation, so only goroutines are permuted.
WorkerSymmetry == Permutations(Workers)
=============================================================================
