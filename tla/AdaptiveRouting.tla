--------------------------- MODULE AdaptiveRouting ---------------------------
(***************************************************************************)
(* Adaptive routing (apps/flowQoS_adaptive_routing.c) on top of the        *)
(* worker: for the first packet of a VXLAN flow the handler sends a probe  *)
(* along every path and waits, inside the packet loop, for the first one   *)
(* that comes back.  The network may lose, delay and reorder probes.       *)
(***************************************************************************)
EXTENDS Worker

CONSTANTS
  Paths,      \* PROBE_PATH_AMOUNT
  PortMod     \* 2^16: a path is a source port

ASSUME AdaptiveAssumption ==
  Paths \in Nat /\ PortMod \in Nat \ {0}

VARIABLES
  flowID,
  net         \* the probes in the network

probeVars == <<flowID, net>>
vars == <<workerVars, probeVars>>

Init ==
  /\ WorkerInit
  /\ flowID = 0
  /\ net = {}

(* The path of probe p for a flow with source port s.                       *)
Path(s, p) == (s + p) % PortMod

(* adaptive_routing up to its loop: the mbufs are allocated all or none,    *)
(* and those the port does not take are freed.                              *)
StartProbe ==
  /\ pc = "packet" /\ rx_burst # <<>> /\ NeedsProbe(Head(rx_burst))
  /\ flowID' = flowID + 1
  /\ LET s == Head(rx_burst).sport
         count == IF free >= Paths THEN Paths ELSE 0
     IN \E n \in 0 .. count :
          /\ free' = free - n
          /\ wire' = wire + n
          /\ net' = net \cup {[flow |-> flowID + 1, sport |-> Path(s, p)] : p \in 0 .. n - 1}
  /\ pc' = "probe"
  /\ UNCHANGED <<app, force_quit, port_id, rx_burst, tx_burst, counter, rxq,
                 arrived, last, stranded>>

(* The network (external) returns a probe or loses it.                      *)
Reflect(r) ==
  /\ r \in net /\ free > 0 /\ Len(rxq[1]) < RxRing
  /\ net' = net \ {r}
  /\ free' = free - 1
  /\ rxq' = [rxq EXCEPT ![1] =
       Append(@, [port |-> 1, kind |-> "reply", flow |-> r.flow, sport |-> r.sport])]
  /\ UNCHANGED <<app, force_quit, pc, port_id, rx_burst, tx_burst, counter,
                 wire, arrived, last, stranded, flowID>>

Lose(r) ==
  /\ r \in net
  /\ net' = net \ {r}
  /\ UNCHANGED <<workerVars, flowID>>

(* Mutant: any probe that comes back is taken for an answer.                *)
AnswersAny(m) == m.kind = "reply"

(* The packet is a probe of the flow the handler waits for.                 *)
Answers(m) == m.kind = "reply" /\ m.flow = flowID

(* What becomes of the packet whose flow was probed: newConn_handler        *)
(* returns the other port for a path that is not 0 and IGNORE otherwise,    *)
(* which flowQoS_conntrack_packet_processor turns into DROP.                *)
Decide(path) ==
  rx_burst' = [rx_burst EXCEPT
    ![1] = [@ EXCEPT !.kind = IF path # 0 THEN "conn" ELSE "refused", !.path = path]]

(* A burst from the probed port while the handler waits: packets are freed  *)
(* one by one; at the first answer the function returns, and the rest of    *)
(* the burst is never freed.                                                *)
Poll ==
  LET n     == Available(rxq[1], Paths)
      burst == SubSeq(rxq[1], 1, n)
      hits  == {i \in 1 .. n : Answers(burst[i])}
  IN /\ pc = "probe" /\ n > 0
     /\ rxq' = [rxq EXCEPT ![1] = SubSeq(@, n + 1, Len(@))]
     /\ \/ /\ hits = {}
           /\ free' = free + n
           /\ UNCHANGED <<pc, rx_burst, stranded>>
        \/ \E i \in hits :
             /\ \A j \in hits : i <= j
             /\ free' = free + i
             /\ stranded' = stranded + (n - i)
             /\ Decide(burst[i].sport)
             /\ pc' = "packet"
     /\ UNCHANGED <<app, force_quit, port_id, tx_burst, counter, wire, arrived,
                    last, probeVars>>

(* Mutant: the loop waits until an answer comes.                            *)
ExpiredNever == FALSE

(* 10 ms have passed; no step of the worker depends on how long that is.    *)
Expired == TRUE

Timeout ==
  /\ pc = "probe" /\ Expired
  /\ Decide(0)
  /\ pc' = "packet"
  /\ UNCHANGED <<app, force_quit, port_id, tx_burst, counter, free, rxq, wire,
                 arrived, last, stranded, probeVars>>

Next ==
  \/ WorkerNext /\ UNCHANGED probeVars
  \/ StartProbe
  \/ Poll
  \/ Timeout
  \/ \E r \in net : Reflect(r) \/ Lose(r)

Spec == Init /\ [][Next]_vars

(* The core runs its loop without a pause, and a port sends what it took.   *)
FairSpec ==
  /\ Spec
  /\ WF_vars(WorkerStep /\ UNCHANGED probeVars)
  /\ WF_vars(StartProbe)
  /\ WF_vars(Timeout)
  /\ WF_vars(TxDone /\ UNCHANGED probeVars)

-----------------------------------------------------------------------------
(* Every variable has the shape of the C object it stands for; above all,   *)
(* no buffer outgrows its MAX_PKT_BURST slots.                              *)
TypeOK ==
  /\ app \in Apps /\ force_quit \in BOOLEAN
  /\ pc \in {"loop", "rx", "packet", "probe", "ended"}
  /\ port_id \in Ports
  /\ rx_burst \in Seq(Packet \cup Reply) /\ Len(rx_burst) <= Burst
  /\ \A q \in Ports :
       /\ tx_burst[q] \in Seq(Packet \cup Reply) /\ Len(tx_burst[q]) <= Burst
       /\ rxq[q] \in Seq(Packet \cup Reply) /\ Len(rxq[q]) <= RxRing
  /\ counter \in 0 .. 3
  /\ free \in 0 .. Mbufs /\ wire \in 0 .. Mbufs /\ stranded \in 0 .. Mbufs
  /\ flowID \in 0 .. MaxPackets[app]

(* Through every drop, full buffer, short transmit, probe, late reply and   *)
(* timeout no mbuf is freed twice and none is lost, except the two leaks    *)
(* that stranded counts: worker.c frees the main core's buffer instead of   *)
(* its own, and adaptive_routing returns in the middle of a burst.          *)
(* No buffer of a burst overflows.                                          *)
MbufsConserved ==
  /\ TypeOK
  /\ free + wire + stranded + Len(rx_burst) + Len(rxq[0]) + Len(rxq[1])
       + Len(tx_burst[0]) + Len(tx_burst[1]) = Mbufs

(* Packets that arrived on one port and leave by one port leave in the      *)
(* order in which they arrived, whatever was flushed, probed or timed out   *)
(* in between.                                                              *)
InOrder ==
  \A q \in Ports : \A i \in DOMAIN tx_burst[q] : LET m == tx_burst[q][i] IN
    /\ m.n > last[q][m.port]
    /\ \A j \in 1 .. i - 1 : tx_burst[q][j].port = m.port => tx_burst[q][j].n < m.n

(* The path a flow gets is one that was probed for this flow: an answer to  *)
(* an earlier flow, come after its 10 ms, is never taken for its own.       *)
OwnPath ==
  app = "AR" =>
    \A i \in DOMAIN tx_burst[1] : LET m == tx_burst[1][i] IN
      m.path # 0 => \E p \in 0 .. Paths - 1 : m.path = Path(m.sport, p)

(* The largest number a packet of some application gets.                    *)
MaxNumber == CHOOSE n \in {MaxPackets[x] : x \in Apps} :
               \A x \in Apps : n >= MaxPackets[x]

InQueue(p, n) ==
  \E i \in DOMAIN rxq[p] : rxq[p][i].kind # "reply" /\ rxq[p][i].n = n

(* The worker never hangs, even while it waits for probes that were lost:   *)
(* no packet waits for ever in a receive queue while it runs, and it        *)
(* notices the flag of stop_worker.                                         *)
ServesAndStops ==
  /\ \A p \in Ports, n \in 1 .. MaxNumber :
       InQueue(p, n) ~> (~InQueue(p, n) \/ pc = "ended")
  /\ force_quit ~> pc = "ended"
=============================================================================
