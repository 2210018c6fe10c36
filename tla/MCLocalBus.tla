----------------------------- MODULE MCLocalBus -----------------------------
(***************************************************************************)
(* A small instance of LocalBus for TLC.                                   *)
(***************************************************************************)
EXTENDS LocalBus

CONSTANTS e1, e2, h1, h2, c1, c2

TwoEvents == {e1, e2}
TwoHandlers == {h1, h2}
TwoClosers == {c1, c2}
=============================================================================
