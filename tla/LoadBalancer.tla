---------------------------- MODULE LoadBalancer ----------------------------
(***************************************************************************)
(* The L4 load balancer (apps/flowQoS_l4_load_balancing.c) on several      *)
(* worker cores.  Each core has its own connection table, queues, budget   *)
(* and counters; the cores share the pool of connection contexts           *)
(* (CT_CTX_POOL), which DPDK implements by a ring and a cache per core.    *)
(*                                                                         *)
(* What ConnSched treats as one step is broken up here where another core  *)
(* can come between: an expiry callback of flowQoS_conntrack.c gives the   *)
(* context back to the pool first and reads its state and its entry        *)
(* afterwards.  The timer, the filter and the order of the queues are left *)
(* out.  One virtual service is modelled; the others have counters of      *)
(* their own.                                                              *)
(***************************************************************************)
EXTENDS Integers, Sequences, FiniteSets

CONSTANTS
  Cores,         \* the worker cores
  Flows,
  Rss,           \* the core whose queue the packets of a flow come to
  Ctxs,          \* the contexts of the pool
  NULL,
  RealServers,   \* totalRealServers
  CacheSize,     \* size of the mempool's cache of a core
  MaxOffloaded,  \* budget of hardware entries of a core
  CounterMod     \* totalConnections and flowStats wrap here (2^32)

Servers == 0 .. RealServers - 1

ASSUME LBAssumption ==
  /\ Rss \in [Flows -> Cores]
  /\ RealServers \in Nat \ {0}
  /\ CacheSize \in Nat
  /\ MaxOffloaded \in Nat
  /\ CounterMod \in Nat \ {0}
  /\ NULL \notin Ctxs
  /\ IsFiniteSet(Ctxs)

VARIABLES
  CT,                \* the connection tables: flow -> context
  ctx,               \* the memory of the contexts
  ring,              \* the contexts in the mempool's ring
  cache,             \* the contexts in each core's cache, last in first out
  queue,             \* the contexts in each core's priority queues
  maxEntry,          \* FlowQoS_Context->maxEntry of each core
  totalConnections,
  flowStats,         \* connections per core and real server
  cb,                \* the expiry callback each core is in
  raced,             \* history: a context was reused under a callback
  lost               \* history: a connection was counted but not added

vars == <<CT, ctx, ring, cache, queue, maxEntry, totalConnections, flowStats,
          cb, raced, lost>>

SW_FWD == "SW_FWD"
FLOW_QOS == "FLOW_QOS"
HW_FWD == "HW_FWD"

(* The parts of struct FlowQoS_CONN_CONTEXT the callbacks read: ct_state,   *)
(* and the real server that the handler left in action.src_ip.              *)
Context == [server : Servers, ct_state : {SW_FWD, FLOW_QOS, HW_FWD}]

NoCb == [c |-> NULL, pc |-> "none"]

(* flowQoS_conntrack_init_env, flowQoS_init_per_core, load_params_to_st     *)
Init ==
  /\ CT = [f \in Flows |-> NULL]
  /\ ctx = [c \in Ctxs |-> [server |-> 0, ct_state |-> SW_FWD]]
  /\ ring \in {q \in [1 .. Cardinality(Ctxs) -> Ctxs] :
                 \A i, j \in DOMAIN q : q[i] = q[j] => i = j}
  /\ cache = [k \in Cores |-> <<>>]
  /\ queue = [k \in Cores |-> {}]
  /\ maxEntry = [k \in Cores |-> MaxOffloaded]
  /\ totalConnections = [k \in Cores |-> 0]
  /\ flowStats = [k \in Cores |-> [r \in Servers |-> 0]]
  /\ cb = [k \in Cores |-> NoCb]
  /\ raced = FALSE
  /\ lost = FALSE

-----------------------------------------------------------------------------
(* rte_mempool (external).                                                  *)

Last(q)  == q[Len(q)]
Front(q) == SubSeq(q, 1, Len(q) - 1)

FlushThreshold == (CacheSize * 3) \div 2

(* rte_mempool_get takes the newest context of the core's cache; an empty   *)
(* cache is filled from the ring, and if that has not enough, one context   *)
(* is taken from the ring.                                                  *)
MempoolGet(k, c) ==
  \/ /\ cache[k] # <<>>
     /\ c = Last(cache[k])
     /\ cache' = [cache EXCEPT ![k] = Front(@)]
     /\ UNCHANGED ring
  \/ /\ cache[k] = <<>>
     /\ Len(ring) > CacheSize
     /\ c = ring[CacheSize + 1]
     /\ cache' = [cache EXCEPT ![k] = SubSeq(ring, 1, CacheSize)]
     /\ ring' = SubSeq(ring, CacheSize + 2, Len(ring))
  \/ /\ cache[k] = <<>>
     /\ ring # <<>> /\ Len(ring) <= CacheSize
     /\ c = Head(ring)
     /\ ring' = Tail(ring)
     /\ UNCHANGED cache

MempoolEmpty(k) == cache[k] = <<>> /\ ring = <<>>

(* Mutant: the context is dropped instead of put back.                      *)
MempoolPutLeaks(k, c) == UNCHANGED <<cache, ring>>

(* rte_mempool_put puts the context on top of the core's cache; when that   *)
(* is full, what exceeds the cache's size, the newest, goes to the ring.    *)
MempoolPut(k, c) ==
  LET q == Append(cache[k], c)
  IN IF Len(q) >= FlushThreshold
       THEN /\ ring' = ring \o SubSeq(q, CacheSize + 1, Len(q))
            /\ cache' = [cache EXCEPT ![k] =
                 SubSeq(q, 1, IF Len(q) < CacheSize THEN Len(q) ELSE CacheSize)]
       ELSE /\ cache' = [cache EXCEPT ![k] = q]
            /\ UNCHANGED ring

-----------------------------------------------------------------------------
(* uint32_t arithmetic of the counters of struct SERVICE.                   *)
Add(n, d) == (n + d) % CounterMod

(* Mutant: the server is counted although it has no ARP entry.              *)
NewConnCounted(k, found) ==
  LET r == totalConnections[k] % RealServers
  IN /\ totalConnections' = [totalConnections EXCEPT ![k] = Add(@, 1)]
     /\ flowStats' = [flowStats EXCEPT ![k][r] = Add(@, 1)]

(* newConn_handler: round robin over the real servers; the chosen one is    *)
(* counted when its ARP entry is found, and left out otherwise.             *)
NewConn(k, found) ==
  LET r == totalConnections[k] % RealServers
  IN /\ totalConnections' = [totalConnections EXCEPT ![k] = Add(@, 1)]
     /\ flowStats' = IF found THEN [flowStats EXCEPT ![k][r] = Add(@, 1)]
                     ELSE flowStats

(* The core is not inside a callback.                                       *)
Free(k) == cb[k].pc = "none"

(* The first packet of flow f is accepted: a context is taken from the pool *)
(* and filled (flowQoS_addConnToHash).                                      *)
AddConn(k, f, c) ==
  /\ Free(k) /\ Rss[f] = k /\ CT[f] = NULL
  /\ NewConn(k, TRUE)
  /\ MempoolGet(k, c)
  /\ CT' = [CT EXCEPT ![f] = c]
  /\ ctx' = [ctx EXCEPT ![c] = [server   |-> totalConnections[k] % RealServers,
                                ct_state |-> SW_FWD]]
  /\ raced' = (raced \/ \E j \in Cores : cb[j].c = c)
  /\ UNCHANGED <<queue, maxEntry, cb, lost>>

(* The handler has counted the connection and the pool has no context.      *)
AddConnFails(k, f) ==
  /\ Free(k) /\ Rss[f] = k /\ CT[f] = NULL
  /\ NewConn(k, TRUE)
  /\ MempoolEmpty(k)
  /\ lost' = TRUE
  /\ UNCHANGED <<CT, ctx, ring, cache, queue, maxEntry, cb, raced>>

(* The real server has no ARP entry: the packet is ignored.                 *)
NoArp(k, f) ==
  /\ Free(k) /\ Rss[f] = k /\ CT[f] = NULL
  /\ NewConn(k, FALSE)
  /\ UNCHANGED <<CT, ctx, ring, cache, queue, maxEntry, cb, raced, lost>>

(* A packet makes the filter hand the connection to the scheduler.          *)
Enqueue(k, f) ==
  /\ Free(k) /\ Rss[f] = k /\ CT[f] # NULL
  /\ ctx[CT[f]].ct_state = SW_FWD
  /\ ctx' = [ctx EXCEPT ![CT[f]].ct_state = FLOW_QOS]
  /\ queue' = [queue EXCEPT ![k] = @ \cup {CT[f]}]
  /\ UNCHANGED <<CT, ring, cache, maxEntry, totalConnections, flowStats, cb,
                 raced, lost>>

(* A scheduling round offloads a queued connection.                         *)
Offload(k, c) ==
  /\ Free(k) /\ c \in queue[k] /\ maxEntry[k] > 0
  /\ ctx' = [ctx EXCEPT ![c].ct_state = HW_FWD]
  /\ queue' = [queue EXCEPT ![k] = @ \ {c}]
  /\ maxEntry' = [maxEntry EXCEPT ![k] = @ - 1]
  /\ UNCHANGED <<CT, ring, cache, totalConnections, flowStats, cb, raced, lost>>

(* The callback that will run for a context: the software timer's until it  *)
(* is offloaded, the hardware's afterwards.                                 *)
Callback(c) == IF ctx[c].ct_state = HW_FWD THEN "hw" ELSE "sw"

(* flowQoS_conn_expire_sw_cb and _hw_cb up to the return of                 *)
(* flowQoS_delConnFromHash: the key and the context are given up.           *)
Expire(k, f) ==
  /\ Free(k) /\ Rss[f] = k /\ CT[f] # NULL
  /\ CT' = [CT EXCEPT ![f] = NULL]
  /\ MempoolPut(k, CT[f])
  /\ cb' = [cb EXCEPT ![k] = [c |-> CT[f], pc |-> Callback(CT[f])]]
  /\ UNCHANGED <<ctx, queue, maxEntry, totalConnections, flowStats, raced, lost>>

(* Mutant: flowQoS_del_entry_event forgotten.                               *)
SwDequeueForgotten(k, c) == UNCHANGED queue

SwDequeue(k, c) ==
  queue' = IF ctx[c].ct_state = FLOW_QOS THEN [queue EXCEPT ![k] = @ \ {c}]
           ELSE queue

(* flowQoS_return_entry_event; for another state it is CT_NUM that grows.   *)
HwReturn(k, c) ==
  maxEntry' = IF ctx[c].ct_state = HW_FWD /\ maxEntry[k] < MaxOffloaded
                THEN [maxEntry EXCEPT ![k] = @ + 1] ELSE maxEntry

(* The callback reads ct_state from the context it no longer owns.          *)
ReadState(k) ==
  /\ \/ cb[k].pc = "sw" /\ SwDequeue(k, cb[k].c) /\ UNCHANGED maxEntry
     \/ cb[k].pc = "hw" /\ HwReturn(k, cb[k].c) /\ UNCHANGED queue
  /\ cb' = [cb EXCEPT ![k].pc = "aging"]
  /\ UNCHANGED <<CT, ctx, ring, cache, totalConnections, flowStats, raced, lost>>

(* agingConn_handler reads the real server from it.                         *)
AgingConn(k) ==
  /\ cb[k].pc = "aging"
  /\ flowStats' = [flowStats EXCEPT ![k][ctx[cb[k].c].server] = Add(@, -1)]
  /\ cb' = [cb EXCEPT ![k] = NoCb]
  /\ UNCHANGED <<CT, ctx, ring, cache, queue, maxEntry, totalConnections,
                 raced, lost>>

Next ==
  \E k \in Cores :
    \/ \E f \in Flows :
         \/ \E c \in Ctxs : AddConn(k, f, c)
         \/ AddConnFails(k, f)
         \/ NoArp(k, f)
         \/ Enqueue(k, f)
         \/ Expire(k, f)
    \/ \E c \in Ctxs : Offload(k, c)
    \/ ReadState(k)
    \/ AgingConn(k)

Spec == Init /\ [][Next]_vars

-----------------------------------------------------------------------------
(* Every variable has the shape of the C object it stands for.              *)
TypeOK ==
  /\ CT \in [Flows -> Ctxs \cup {NULL}]
  /\ ctx \in [Ctxs -> Context]
  /\ ring \in Seq(Ctxs)
  /\ cache \in [Cores -> Seq(Ctxs)]
  /\ queue \in [Cores -> SUBSET Ctxs]
  /\ maxEntry \in [Cores -> 0 .. MaxOffloaded]
  /\ totalConnections \in [Cores -> 0 .. CounterMod - 1]
  /\ flowStats \in [Cores -> [Servers -> 0 .. CounterMod - 1]]
  /\ cb \in [Cores -> [c : Ctxs \cup {NULL}, pc : {"none", "sw", "hw", "aging"}]]
  /\ raced \in BOOLEAN
  /\ lost \in BOOLEAN

(* The places where context c can be.                                       *)
Places(c) ==
  {<<"flow", f>> : f \in {g \in Flows : CT[g] = c}}
    \cup {<<"ring", i>> : i \in {j \in DOMAIN ring : ring[j] = c}}
    \cup UNION {{<<"cache", k, i>> : i \in {j \in DOMAIN cache[k] : cache[k][j] = c}} :
                  k \in Cores}

(* No two cores ever hold the same context of CT_CTX_POOL, and none is      *)
(* lost: it is in one connection table, in one cache or in the ring.        *)
ContextsExact == TypeOK /\ \A c \in Ctxs : Cardinality(Places(c)) = 1

(* The contexts of core k's connections to real server r, which flowStats   *)
(* should count: those in the table and the one whose callback has not come *)
(* so far.                                                                  *)
Alive(k, r) ==
  {c \in Ctxs :
     /\ ctx[c].server = r
     /\ \/ \E f \in Flows : Rss[f] = k /\ CT[f] = c
        \/ cb[k].c = c}

(* "amount of conns to this real server" (flowQoS_l4_load_balancing.c),     *)
(* through every order of connections, expiries and missing ARP entries, as *)
(* long as no context was reused while a callback still read it and no      *)
(* connection was counted that could not be added.                          *)
StatsExact ==
  ~raced /\ ~lost =>
    \A k \in Cores, r \in Servers :
      flowStats[k][r] = Cardinality(Alive(k, r)) % CounterMod

(* The contexts core k has in state s, the one in its callback included as  *)
(* long as its state has not been read.                                     *)
InState(k, s) ==
  {c \in Ctxs :
     /\ ctx[c].ct_state = s
     /\ \/ \E f \in Flows : Rss[f] = k /\ CT[f] = c
        \/ cb[k].c = c /\ cb[k].pc \in {"sw", "hw"}}

(* Budget and queues of flowQoS_qos.c follow the states of the connections, *)
(* as long as no context was reused while a callback still read it: no      *)
(* entry stays queued after its connection, no budget is lost.              *)
SchedulerExact ==
  ~raced =>
    \A k \in Cores :
      /\ queue[k] = InState(k, FLOW_QOS)
      /\ maxEntry[k] + Cardinality(InState(k, HW_FWD)) = MaxOffloaded
=============================================================================
