----------------------------- MODULE MCCheckout -----------------------------
(***************************************************************************)
(* Small instances of Checkout for TLC.                                    *)
(***************************************************************************)
EXTENDS Checkout, TLC

CONSTANTS o1, w1, w2, w3

OneOrder == {o1}
OneWorker == {w1}
TwoWorkers == {w1, w2}
ThreeWorkers == {w1, w2, w3}
PendingOrSucceeded == {"pending", "succeeded"}
OnlyPending == {"pending"}

\* Goroutines are interchangeable (used for safety only).
WorkerSymmetry == Permutations(Workers)
=============================================================================
