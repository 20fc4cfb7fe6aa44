-------------------------------- MODULE Snat --------------------------------
(***************************************************************************)
(* The source NAT application (apps/flowQoS_snat.c) on top of the          *)
(* connection table of its only worker core (ConnSched with the scheduler  *)
(* off: init_snat passes offloadSpeed 0).                                  *)
(*                                                                         *)
(* newConn_handler and agingConn_handler are called by the connection      *)
(* table within its own handlers, so every step here is a step of          *)
(* ConnSched together with what the application does to its port pool and  *)
(* its table.  A connection of the LAN side runs from a host to a server,  *)
(* one of the WAN side from a server to a port of the WAN address.         *)
(***************************************************************************)
EXTENDS ConnSched

CONSTANTS
  Hosts,      \* address and port of the LAN hosts
  Servers,    \* address, port and protocol of the servers
  SnatPorts   \* the ports of the pool

LanFlow(h, s) == [from |-> h, to |-> s]
WanFlow(s, p) == [from |-> s, to |-> p]
LanFlows == {LanFlow(h, s) : h \in Hosts, s \in Servers}
WanFlows == {WanFlow(s, p) : s \in Servers, p \in SnatPorts}

ASSUME SnatAssumption ==
  /\ Flows = LanFlows \cup WanFlows
  /\ LanFlows \cap WanFlows = {}
  /\ NULL \notin Hosts \cup SnatPorts
  /\ ~ENABLE_FLOWQOS
  /\ IsFiniteSet(SnatPorts)

VARIABLES
  bucket,      \* attr.bucket: the free ports, the first to be taken first
  snat_table,  \* attr.snat_table: flow -> port
  entries,     \* attr.entries: the host each port was last taken for
  action,      \* what ctx->entry.action puts into the packets of a context
  lost,        \* history: a port was taken for a connection never made
  orphaned     \* history: a mapping went before its WAN side connection

snatVars == <<bucket, snat_table, entries>>
allVars  == <<vars, snatVars, action, lost, orphaned>>

(* flowQoS_snat_pool_init: all ports are put into the list one by one.      *)
SnatInit ==
  /\ Init
  /\ bucket \in {q \in [1 .. Cardinality(SnatPorts) -> SnatPorts] :
                   \A i, j \in DOMAIN q : q[i] = q[j] => i = j}
  /\ snat_table = [f \in Flows |-> NULL]
  /\ entries = [p \in SnatPorts |-> NULL]
  /\ action = [c \in Ctxs |-> NULL]
  /\ lost = FALSE
  /\ orphaned = FALSE

-----------------------------------------------------------------------------
(* Mutant: the entry is read but not removed from the list.                 *)
PoolGetShares == UNCHANGED bucket

(* flowQoS_snat_pool_get takes Head(bucket).                                *)
PoolGet == bucket' = Tail(bucket)

(* Mutant: LIST_INSERT_HEAD forgotten.                                      *)
PoolPutForgotten(p) == UNCHANGED bucket

(* flowQoS_snat_pool_put                                                    *)
PoolPut(p) == bucket' = <<p>> \o bucket

(* The port is remembered as taken for host h: entry->dip and dport.        *)
Assign(p, h) == entries' = [entries EXCEPT ![p] = h]

(* rte_hash_add_key_data of both keys: a key that is there is overwritten.  *)
AddKeys(h, s, p) ==
  snat_table' = [snat_table EXCEPT ![LanFlow(h, s)] = p, ![WanFlow(s, p)] = p]

(* newConn_handler on the LAN port finds an ARP entry and a port, and both  *)
(* keys go in.                                                              *)
LanAccepts(h, s, p) ==
  /\ bucket # <<>>
  /\ p = Head(bucket)
  /\ PoolGet
  /\ Assign(p, h)
  /\ AddKeys(h, s, p)

(* newConn_handler on the LAN port when the first key is refused: the port  *)
(* goes back to the head of the list.                                       *)
UpstreamRefused(h) ==
  /\ bucket # <<>>
  /\ Assign(Head(bucket), h)
  /\ UNCHANGED <<bucket, snat_table>>

(* ... and when the second one is: the first is deleted again, whichever    *)
(* port it led to before.                                                   *)
DownstreamRefused(h, s) ==
  /\ bucket # <<>>
  /\ Assign(Head(bucket), h)
  /\ snat_table' = [snat_table EXCEPT ![LanFlow(h, s)] = NULL]
  /\ UNCHANGED bucket

(* Mutant: the downstream key is left in the table.                         *)
DelKeysUpstreamOnly(h, s, p) ==
  snat_table' = [snat_table EXCEPT ![LanFlow(h, s)] = NULL]

DelKeys(h, s, p) ==
  snat_table' = [snat_table EXCEPT ![LanFlow(h, s)] = NULL,
                                   ![WanFlow(s, p)] = NULL]

(* agingConn_handler: the keys of an aged LAN side connection go and its    *)
(* port is free again.  Nothing is done for a WAN side connection, nor for  *)
(* a flow without mapping.                                                  *)
AgingConn(f) ==
  IF f \in LanFlows /\ snat_table[f] # NULL
    THEN /\ DelKeys(f.from, f.to, snat_table[f])
         /\ PoolPut(snat_table[f])
         /\ orphaned' = (orphaned \/ CT[WanFlow(f.to, snat_table[f])] # NULL)
         /\ UNCHANGED entries
    ELSE UNCHANGED <<snatVars, orphaned>>

-----------------------------------------------------------------------------
(* The connection table accounts a packet of flow f to context c and may    *)
(* offload it.                                                              *)
Accounted(f, c) == \E p \in Priorities : PacketProcessor(f, c, p)

(* A packet of a known connection.                                          *)
KnownPacket(f, c) ==
  /\ CT[f] # NULL
  /\ Accounted(f, c)
  /\ UNCHANGED <<snatVars, action, lost, orphaned>>

(* The first packet of a LAN side connection.                               *)
NewUpstream(h, s, p, c) ==
  /\ CT[LanFlow(h, s)] = NULL
  /\ LanAccepts(h, s, p)
  /\ Accounted(LanFlow(h, s), c)
  /\ action' = [action EXCEPT ![c] = p]
  /\ UNCHANGED <<lost, orphaned>>

(* newConn_handler has taken a port when the connection cannot be added:    *)
(* the packet is dropped and the port stays taken.                          *)
UpstreamNotAdded(h, s, p) ==
  /\ LanAccepts(h, s, p)
  /\ AddConnFails(LanFlow(h, s))
  /\ lost' = TRUE
  /\ UNCHANGED <<action, orphaned>>

(* A key of a new LAN side connection is refused by the table.              *)
UpstreamDropped(h, s) ==
  /\ CT[LanFlow(h, s)] = NULL
  /\ UpstreamRefused(h) \/ DownstreamRefused(h, s)
  /\ UNCHANGED <<vars, action, lost, orphaned>>

(* Mutant: the server is answered instead of the host.                      *)
ReplyToPort(p) == p

(* entry->dip and dport                                                     *)
ReplyTo(p) == entries[p]

(* The first packet of a WAN side connection whose flow has a mapping and   *)
(* whose host has an ARP entry; without them it is dropped.                 *)
NewDownstream(s, p, c) ==
  /\ CT[WanFlow(s, p)] = NULL
  /\ snat_table[WanFlow(s, p)] # NULL
  /\ Accounted(WanFlow(s, p), c)
  /\ action' = [action EXCEPT ![c] = ReplyTo(snat_table[WanFlow(s, p)])]
  /\ UNCHANGED <<snatVars, lost, orphaned>>

(* The same when the connection cannot be added.                            *)
DownstreamNotAdded(s, p) ==
  /\ snat_table[WanFlow(s, p)] # NULL
  /\ AddConnFails(WanFlow(s, p))
  /\ UNCHANGED <<snatVars, action, lost, orphaned>>

(* flowQoS_conn_expire_sw_cb and flowQoS_conn_expire_hw_cb with the         *)
(* application's handler.                                                   *)
SnatExpire ==
  /\ \/ \E c \in Ctxs : SwExpire(c) /\ AgingConn(ctx[c].flow)
     \/ \E s \in HwSlots : HwExpire(s) /\ AgingConn(ctx[hw[s]].flow)
  /\ UNCHANGED <<action, lost>>

SnatNext ==
  \/ \E f \in Flows, c \in Ctxs : KnownPacket(f, c)
  \/ \E h \in Hosts, s \in Servers :
       \/ \E p \in SnatPorts, c \in Ctxs : NewUpstream(h, s, p, c)
       \/ \E p \in SnatPorts : UpstreamNotAdded(h, s, p)
       \/ UpstreamDropped(h, s)
  \/ \E s \in Servers, p \in SnatPorts :
       \/ \E c \in Ctxs : NewDownstream(s, p, c)
       \/ DownstreamNotAdded(s, p)
  \/ SnatExpire

SnatSpec == SnatInit /\ [][SnatNext]_allVars

-----------------------------------------------------------------------------
(* Every variable has the shape of the C object it stands for.              *)
SnatTypeOK ==
  /\ bucket \in Seq(SnatPorts)
  /\ snat_table \in [Flows -> SnatPorts \cup {NULL}]
  /\ entries \in [SnatPorts -> Hosts \cup {NULL}]
  /\ action \in [Ctxs -> SnatPorts \cup Hosts \cup {NULL}]
  /\ lost \in BOOLEAN
  /\ orphaned \in BOOLEAN

Free(p) == \E i \in DOMAIN bucket : bucket[i] = p

(* The servers port p is reserved towards.                                  *)
Reserved(p) == {s \in Servers : snat_table[WanFlow(s, p)] # NULL}

(* The pool of flowQoS_snat.c and its table agree: the list holds no port   *)
(* twice, a port is free or reserved towards exactly one server, never      *)
(* both, and a downstream key leads to the port it names.                   *)
PortsExact ==
  /\ SnatTypeOK
  /\ \A i, j \in DOMAIN bucket : bucket[i] = bucket[j] => i = j
  /\ \A p \in SnatPorts :
       /\ Free(p) => Reserved(p) = {}
       /\ ~Free(p) => \E s \in Servers : Reserved(p) = {s}
       /\ \A s \in Servers : snat_table[WanFlow(s, p)] \in {p, NULL}

(* The connections of the LAN side and of the WAN side.                     *)
Upstream   == {c \in InUse : ctx[c].flow \in LanFlows}
Downstream == {c \in InUse : ctx[c].flow \in WanFlows}

(* "each connection will have 2 items including upstream and downstream"    *)
(* (flowQoS_snat.c): as long as a LAN side connection lives, in software or *)
(* in hardware, an answer to the port it is translated to finds its host.   *)
ReplyFindsHost ==
  ~torn =>
    \A c \in Upstream :
      LET f == ctx[c].flow
          p == action[c]
      IN /\ p \in SnatPorts
         /\ snat_table[f] = p
         /\ snat_table[WanFlow(f.to, p)] = p
         /\ entries[p] = f.from

(* No port leaks: until a connection fails to be added behind the handler's *)
(* back, each port that is not free is the one of a living connection.      *)
NoPortLost ==
  ~lost /\ ~torn =>
    \A p \in SnatPorts : Free(p) \/ \E c \in Upstream : action[c] = p

(* Packets from a server go to the host its port is mapped to, until a      *)
(* mapping goes while the connection of the WAN side still lives.           *)
DownstreamCurrent ==
  ~orphaned /\ ~torn =>
    \A c \in Downstream :
      LET f == ctx[c].flow
      IN snat_table[f] = f.to /\ action[c] = entries[f.to]
=============================================================================
