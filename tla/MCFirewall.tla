----------------------------- MODULE MCFirewall -----------------------------
(* All applications from their start to their end; the firewall with two    *)
(* sources and two rules.                                                   *)
EXTENDS Firewall

MCAddresses == {<<1, 1>>, <<1, 2>>}
MCPipeIds == AllPipes
=============================================================================
