------------------------------ MODULE MCRouter ------------------------------
(* Router on a small instance: addresses of three bits.                     *)
EXTENDS Router

CONSTANTS m1

(* Networks 2-3 and 6-7.                                                    *)
MCIfAddrs == {<<3, 2>>, <<7, 2>>}

(* 4-7, which holds 6-7, and the default route.                             *)
MCRouteNets == {<<5, 1>>, <<0, 3>>}
=============================================================================
