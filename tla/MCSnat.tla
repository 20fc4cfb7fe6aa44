------------------------------- MODULE MCSnat -------------------------------
(* Snat on a small instance.                                                *)
EXTENDS Snat, TLC

CONSTANTS h1, h2, sv1, sv2, p1, p2, c1, c2, c3, s1, s2

MCFlows == LanFlows \cup WanFlows
OneWeight == 0 :> 1

Symmetry == Permutations(Hosts) \cup Permutations(Servers)
              \cup Permutations(SnatPorts) \cup Permutations(Ctxs)
              \cup Permutations(HwSlots)

(* Once torn, the memory of the core may be anything.                       *)
Untorn == ~torn
=============================================================================
