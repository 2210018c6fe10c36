------------------------------ MODULE MCOutbox ------------------------------
(***************************************************************************)
(* A small instance of Outbox for TLC.                                     *)
(***************************************************************************)
EXTENDS Outbox

CONSTANTS p1, p2, g1, g2

TwoProcesses == {p1, p2}
OneGoroutine == {g1}
TwoGoroutines == {g1, g2}
=============================================================================
