---------------------------- MODULE MCConnSched ----------------------------
(* ConnSched on small instances.                                            *)
EXTENDS ConnSched, TLC

CONSTANTS f1, f2, f3, f4, c1, c2, c3, s1, s2, s3

(* Two queues, the higher with twice the weight of the lower.               *)
TwoWeights == 0 :> 1 @@ 1 :> 2
OneWeight  == 0 :> 1

Symmetry == Permutations(Flows) \cup Permutations(Ctxs) \cup Permutations(HwSlots)

(* Once torn, the memory of the core may be anything.                       *)
Untorn == ~torn
=============================================================================
