------------------------------ MODULE MCCache ------------------------------
(***************************************************************************)
(* A small instance of Cache for TLC.                                      *)
(***************************************************************************)
EXTENDS Cache

CONSTANTS p1, p2, w1, w2, w3

TwoProcesses == {p1, p2}
ThreeWorkers == {w1, w2, w3}
TwoAndOne == [w \in ThreeWorkers |-> IF w = w3 THEN p2 ELSE p1]
=============================================================================
