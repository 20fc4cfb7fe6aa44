------------------------------ MODULE MCFilter ------------------------------
(* Filter on a scale of a few ticks, for two cores.                         *)
EXTENDS Filter

CONSTANTS k1, k2
=============================================================================
