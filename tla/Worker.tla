------------------------------- MODULE Worker -------------------------------
(***************************************************************************)
(* A worker core (flowQoS_worker.c): the polling loop, the registered      *)
(* packet processors and the buffers the packets wait in.  Workers share   *)
(* no buffer, so one of them is modelled; the main lcore is lcore 0.       *)
(*                                                                         *)
(* A packet stands for its mbuf while the program owns it.  The ports, the *)
(* pool MBUF_POOL and the network are external.  The other general         *)
(* processors (timer, messages, scheduler, aged entries) are in the other  *)
(* modules.                                                                *)
(***************************************************************************)
EXTENDS Integers, Sequences, FiniteSetsExt

CONSTANTS
  Apps,         \* the applications that may run: "NAT", "SPRAY", "AR"
  Mbufs,        \* size of MBUF_POOL
  Burst,        \* MAX_PKT_BURST, which is PACKET_BURST too
  RxRing,       \* packets a receive queue holds
  MaxPackets,   \* bound: packets that arrive, for each application
  Sports        \* source ports of new VXLAN flows

ASSUME WorkerAssumption ==
  /\ Apps \subseteq {"NAT", "SPRAY", "AR"}
  /\ Mbufs \in Nat /\ RxRing \in Nat /\ MaxPackets \in [Apps -> Nat]
  /\ Burst \in Nat \ {0}
  /\ Sports \subseteq Nat

VARIABLES
  app,          \* the application
  force_quit,
  pc,           \* where the worker is
  port_id,      \* the port it serves
  rx_burst,     \* what is left of the burst it has received
  tx_burst,     \* the packets in the transmit buffer of each port
  counter,      \* packet_spray's counter
  free,         \* mbufs in MBUF_POOL
  rxq,          \* the receive queue of each port
  wire,         \* mbufs that a port has taken and not yet given back
  arrived,      \* history: packets that have arrived
  last,         \* history: the last packet each port has taken of those from a port
  stranded      \* history: mbufs nobody owns any more

workerVars == <<app, force_quit, pc, port_id, rx_burst, tx_burst, counter,
                free, rxq, wire, arrived, last, stranded>>

Ports == {0, 1}          \* MAX_ETHPORTS
DROP == -1
IGNORE == -2

(* What the processors tell apart: "conn" a packet of a known connection,   *)
(* "refused" one whose connection is not accepted, "local" an ARP or echo   *)
(* request for the port's address, "new" the first packet of a VXLAN flow,  *)
(* "reply" a probe that has come back, "other" anything else.               *)
Kinds == {"conn", "refused", "local", "new", "other"}
Traffic == CASE app = "NAT"   -> {"conn", "refused", "local", "other"}
             [] app = "AR"    -> {"conn", "new", "other"}
             [] app = "SPRAY" -> {"other"}
Packet == [port : Ports, n : 1 .. MaxPackets[app], kind : Kinds, sport : Nat,
           path : Nat]
Reply  == [port : {1}, kind : {"reply"}, flow : Nat, sport : Nat]

WorkerInit ==
  /\ app \in Apps
  /\ force_quit = FALSE
  /\ pc = "loop"
  /\ port_id = 0
  /\ rx_burst = <<>>
  /\ tx_burst = [q \in Ports |-> <<>>]
  /\ counter = 0
  /\ free = Mbufs
  /\ rxq = [p \in Ports |-> <<>>]
  /\ wire = 0
  /\ arrived = 0
  /\ last = [q \in Ports |-> [p \in Ports |-> 0]]
  /\ stranded = 0

-----------------------------------------------------------------------------
(* The network card (external).                                             *)

Arrive(p, kind, s) ==
  /\ free > 0 /\ Len(rxq[p]) < RxRing /\ arrived < MaxPackets[app]
  /\ kind \in Traffic
  /\ s \in IF kind = "new" THEN Sports ELSE {0}
  /\ free' = free - 1
  /\ arrived' = arrived + 1
  /\ rxq' = [rxq EXCEPT ![p] =
       Append(@, [port |-> p, n |-> arrived + 1, kind |-> kind, sport |-> s,
                  path |-> 0])]
  /\ UNCHANGED <<app, force_quit, pc, port_id, rx_burst, tx_burst, counter,
                 wire, last, stranded>>

(* The port has sent a packet and frees its mbuf.                           *)
TxDone ==
  /\ wire > 0
  /\ wire' = wire - 1
  /\ free' = free + 1
  /\ UNCHANGED <<app, force_quit, pc, port_id, rx_burst, tx_burst, counter,
                 rxq, arrived, last, stranded>>

(* rte_eth_tx_burst takes the first n packets of the buffer of port q.      *)
Take(q, n) ==
  /\ wire' = wire + n
  /\ last' = [last EXCEPT ![q] = [p \in Ports |->
       LET from == {i \in 1 .. n : tx_burst[q][i].port = p}
       IN IF from = {} THEN @[p] ELSE tx_burst[q][Max(from)].n]]

-----------------------------------------------------------------------------
(* The packet processors.                                                   *)

(* flowQoS_conntrack_packet_processor; in adaptive routing only the port to *)
(* the host is tracked.  A "new" packet is the AdaptiveRouting module's.    *)
Conntrack(m) ==
  IF app = "AR" /\ m.port = 1 THEN IGNORE
  ELSE CASE m.kind = "conn"    -> 1 - m.port
         [] m.kind = "refused" -> DROP
         [] OTHER              -> IGNORE

(* flowQoS_ARP_ICMP_PROCESS answers on the port the request came from.      *)
ARP_ICMP(m) == IF m.kind = "local" THEN m.port ELSE IGNORE

Spray(m) == 1 - m.port

(* What was registered, in order, before launch_worker.                     *)
Processors(m) ==
  CASE app = "NAT"   -> <<Conntrack(m), ARP_ICMP(m)>>
    [] app = "AR"    -> <<Conntrack(m)>>
    [] app = "SPRAY" -> <<Spray(m)>>

(* The last processor that does not ignore the packet decides.              *)
Action(m) ==
  LET decided == {i \in DOMAIN Processors(m) : Processors(m)[i] # IGNORE}
  IN IF decided = {} THEN DROP ELSE Processors(m)[Max(decided)]

(* packet_spray rewrites the source port: one of four paths in turn.        *)
Rewrite(m) == IF app = "SPRAY" THEN [m EXCEPT !.path = ((counter + 1) % 4) + 7788] ELSE m

-----------------------------------------------------------------------------
Full(q) == Len(tx_burst[q]) = Burst

(* Mutant: what the port does not take is forgotten.                        *)
FreeRestForgotten(q, n) == 0

(* send_packets frees what the port has not taken from the core's buffer.   *)
FreeRest(q, n) == Len(tx_burst[q]) - n

(* Mutant: the packet is sent ahead of the packets that wait.               *)
PutFirst(q, m) == <<m>> \o tx_burst[q]

Put(q, m) == Append(tx_burst[q], m)

(* send_packets: a full buffer is flushed first.                            *)
Send(q, m) ==
  \/ /\ ~Full(q)
     /\ tx_burst' = [tx_burst EXCEPT ![q] = Put(q, m)]
     /\ UNCHANGED <<free, wire, last>>
  \/ /\ Full(q)
     /\ \E n \in 0 .. Len(tx_burst[q]) :
          Take(q, n) /\ free' = free + FreeRest(q, n)
     /\ tx_burst' = [tx_burst EXCEPT ![q] = <<m>>]

(* The loop of worker(): the flag is read before each round of the jobs.    *)
Loop ==
  /\ pc = "loop"
  /\ pc' = IF force_quit THEN "ended" ELSE "rx"
  /\ port_id' = 0
  /\ UNCHANGED <<app, force_quit, rx_burst, tx_burst, counter, free, rxq, wire,
                 arrived, last, stranded>>

Available(q, limit) == IF Len(q) < limit THEN Len(q) ELSE limit

(* general_pkt_processor receives a burst from the port ...                 *)
Receive ==
  LET n == Available(rxq[port_id], Burst)
  IN /\ pc = "rx"
     /\ rx_burst' = SubSeq(rxq[port_id], 1, n)
     /\ rxq' = [rxq EXCEPT ![port_id] = SubSeq(@, n + 1, Len(@))]
     /\ pc' = "packet"
     /\ UNCHANGED <<app, force_quit, port_id, tx_burst, counter, free, wire,
                    arrived, last, stranded>>

(* A packet whose processing needs the network: see AdaptiveRouting.        *)
NeedsProbe(m) == app = "AR" /\ m.port = 0 /\ m.kind = "new"

(* ... runs the processors on each packet and drops it or sends it on ...   *)
Process ==
  /\ pc = "packet" /\ rx_burst # <<>> /\ ~NeedsProbe(Head(rx_burst))
  /\ LET m == Head(rx_burst)
     IN IF Action(m) = DROP
          THEN free' = free + 1 /\ UNCHANGED <<tx_burst, wire, last>>
          ELSE Send(Action(m), Rewrite(m))
  /\ rx_burst' = Tail(rx_burst)
  /\ counter' = IF app = "SPRAY" THEN (counter + 1) % 4 ELSE counter
  /\ UNCHANGED <<app, force_quit, pc, port_id, rxq, arrived, stranded>>

LastPort == port_id = 1

(* ... and flushes the buffer of that port.  What the port does not take    *)
(* stays allocated: the loop frees the buffer of lcore_conf[0], the main    *)
(* lcore's, which is never filled, and rte_pktmbuf_free ignores NULL.       *)
Flush ==
  /\ pc = "packet" /\ rx_burst = <<>>
  /\ \E n \in 0 .. Len(tx_burst[port_id]) :
       /\ Take(port_id, n)
       /\ stranded' = stranded + (Len(tx_burst[port_id]) - n)
  /\ tx_burst' = [tx_burst EXCEPT ![port_id] = <<>>]
  /\ IF LastPort THEN pc' = "loop" /\ UNCHANGED port_id
     ELSE pc' = "rx" /\ port_id' = port_id + 1
  /\ UNCHANGED <<app, force_quit, rx_burst, counter, free, rxq, arrived>>

(* stop_worker, on the main core.                                           *)
Stop ==
  /\ ~force_quit
  /\ force_quit' = TRUE
  /\ UNCHANGED <<app, pc, port_id, rx_burst, tx_burst, counter, free, rxq,
                 wire, arrived, last, stranded>>

WorkerStep == Loop \/ Receive \/ Process \/ Flush

WorkerNext ==
  \/ WorkerStep
  \/ Stop
  \/ TxDone
  \/ \E p \in Ports, kind \in Kinds, s \in Sports \cup {0} : Arrive(p, kind, s)
=============================================================================
