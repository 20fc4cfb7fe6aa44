------------------------------ MODULE MCWorker ------------------------------
(* AdaptiveRouting: three packets fill a transmit buffer of two, two flows  *)
(* let a reply to the first come while the second is probed.                *)
EXTENDS AdaptiveRouting, TLC

MCMaxPackets == "NAT" :> 3 @@ "SPRAY" :> 3 @@ "AR" :> 2
=============================================================================
