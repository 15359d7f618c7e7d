------------------------- MODULE MCParallelCalculate -------------------------
(***************************************************************************)
(* An instance of ParallelCalculate for TLC: a value occurs twice, as      *)
(* rand() % 10 may give it twice.                                          *)
(***************************************************************************)
EXTENDS ParallelCalculateProofs

CONSTANTS d1, d2, d3

SomeInput == <<d1, d2, d1, d3, d2>>
=============================================================================
