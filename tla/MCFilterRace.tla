--------------------------- MODULE MCFilterRace ---------------------------
(* FilterRace with two worker cores, up to the first overlap.               *)
EXTENDS FilterRace

CONSTANTS w1, w2

Unraced == ~raced
=============================================================================
