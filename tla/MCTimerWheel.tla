---------------------------- MODULE MCTimerWheel ----------------------------
(* TimerWheel with two small wheels.                                        *)
EXTENDS TimerWheel, TLC

CONSTANTS t1, t2

Symmetry == Permutations(Timers)
=============================================================================
