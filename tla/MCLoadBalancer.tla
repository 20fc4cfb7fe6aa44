--------------------------- MODULE MCLoadBalancer ---------------------------
(* LoadBalancer on two cores.                                               *)
EXTENDS LoadBalancer, TLC

CONSTANTS k1, k2, f1, f2, f3, c1, c2

MCRss == f1 :> k1 @@ f2 :> k1 @@ f3 :> k2

Symmetry == Permutations(Ctxs)
=============================================================================
