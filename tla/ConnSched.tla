----------------------------- MODULE ConnSched -----------------------------
(***************************************************************************)
(* One worker core of FlowQoS: its connection table (flowQoS_conntrack.c), *)
(* the priority queues of its offload scheduler (flowQoS_qos.c), and the   *)
(* hardware flow table it fills through flowQoS_pipe.c.                    *)
(*                                                                         *)
(* Everything here is thread-local to the core (RTE_PER_LCORE), and the    *)
(* handlers of a core run one after the other (worker() in                 *)
(* flowQoS_worker.c), so a handler is one step.  A scheduling round is     *)
(* broken into the iterations of its loop, to be able to say in which      *)
(* order the queues are served; no other handler runs during a round.      *)
(*                                                                         *)
(* Time is abstracted: an armed timer may expire, an installed hardware    *)
(* entry may age and a round may become due at any moment; whether a       *)
(* connection is older than CONN_OFFLOAD_TIME is a choice of the packet    *)
(* step.  Filter.tla models the threshold, TimerWheel.tla the timers.      *)
(***************************************************************************)
EXTENDS Integers, Sequences, FiniteSets

CONSTANTS
  Flows,             \* the 5-tuples (struct FlowQoS_MATCH) of this core
  Ctxs,              \* the objects of CT_CTX_POOL
  HwSlots,           \* the places of the hardware flow table (the pipes)
  NULL,
  PriorityQueueNum,  \* number of priority queues
  Weight,            \* weight[] given to flowQoS_qos_init
  MaxOffloadedEntry, \* budget of hardware entries of this core
  HwWatermarkPercent,\* FLOWQOS_HW_WATERMARK_PERCENT
  MaxCT,             \* capacity of the core's rte_hash
  PacketThreshold,   \* attr.PACKET_THRESHOLD
  ENABLE_FLOWQOS,    \* attr.ENABLE_FLOWQOS
  Outcomes           \* what flowQoS_add_entry may meet in doca-flow

Priorities == 0 .. PriorityQueueNum - 1

ASSUME ConnSchedAssumption ==
  /\ PriorityQueueNum \in Nat \ {0}
  /\ Weight \in [Priorities -> Nat]
  /\ MaxOffloadedEntry \in Nat
  /\ HwWatermarkPercent \in Nat
  /\ MaxCT \in Nat
  /\ PacketThreshold \in Nat
  /\ ENABLE_FLOWQOS \in BOOLEAN
  /\ Outcomes \subseteq {"done", "refused", "late"}
  /\ NULL \notin Flows \cup Ctxs \cup HwSlots
  /\ IsFiniteSet(HwSlots)

VARIABLES
  CT,           \* the rte_hash: flow -> context
  POOL,         \* the contexts that are free
  ctx,          \* the memory of the contexts, free ones included
  buckets,      \* the priority queues
  maxEntry,     \* FlowQoS_Context->maxEntry
  CT_NUM,       \* budget of the core when the scheduler is off
  hwCongested,  \* FlowQoS_Context->hwCongested
  due,          \* rte_rdtsc() - lastStmp > gap
  round,        \* the queue the round is at, or Idle
  weight,       \* what is left of each queue's weight in this round
  hw,           \* user_data of each place of the hardware table
  late,         \* history: the entries whose completion came too late
  torn,         \* history: a connection ended that had such an entry
  returned      \* history: budget given back since the last offload

connVars == <<CT, POOL>>
qosVars  == <<maxEntry, hwCongested, due, round, weight>>
history  == <<late, torn, returned>>
vars     == <<CT, POOL, ctx, buckets, maxEntry, CT_NUM, hwCongested,
              due, round, weight, hw, history>>

Idle == -1
SW_FWD == "SW_FWD"
FLOW_QOS == "FLOW_QOS"
HW_FWD == "HW_FWD"

(* struct FlowQoS_CONN_CONTEXT: the match, the priority, ct_state, whether  *)
(* the software timer is in the wheel, the packet count (only compared      *)
(* with the threshold: it is capped one above) and the doca-flow handle.    *)
Context == [flow     : Flows \cup {NULL},
            priority : Priorities,
            ct_state : {SW_FWD, FLOW_QOS, HW_FWD},
            timer    : BOOLEAN,
            pktCount : 0 .. PacketThreshold + 1,
            entry    : HwSlots \cup {NULL}]

UnusedContext == [flow |-> NULL, priority |-> 0, ct_state |-> SW_FWD,
                  timer |-> FALSE, pktCount |-> 0, entry |-> NULL]

Init ==
  /\ CT = [f \in Flows |-> NULL]
  /\ POOL = Ctxs
  /\ ctx = [c \in Ctxs |-> UnusedContext]
  /\ buckets = [p \in Priorities |-> <<>>]
  /\ maxEntry = MaxOffloadedEntry
  /\ CT_NUM = MaxOffloadedEntry
  /\ hwCongested = FALSE
  /\ due = FALSE
  /\ round = Idle
  /\ weight = Weight
  /\ hw = [s \in HwSlots |-> NULL]
  /\ late = {}
  /\ torn = FALSE
  /\ returned = 0

-----------------------------------------------------------------------------
(* doca-flow.  flowQoS_add_entry asks for an entry and then waits a bounded *)
(* time for its completion: "done" when the entry is in and was reported,   *)
(* "refused" when no entry was made, "late" when the entry is made but its  *)
(* completion was not among those reported in time.  Only "done" returns 1: *)
(* the caller of a late entry believes that there is none, the hardware     *)
(* keeps it and will report its ageing with the context of the connection.  *)

Handles(o) == IF o = "refused" THEN {NULL} ELSE {s \in HwSlots : hw[s] = NULL}

Install(h, c) == IF h = NULL THEN hw ELSE [hw EXCEPT ![h] = c]

NoteLate(o, h) == late' = IF o = "late" THEN late \cup {h} ELSE late

(* The connection of context c ends.  When a late entry points at it, what  *)
(* is left behind (an armed timer, a link in a queue, an entry that will    *)
(* age) leads to a context that is free: the memory the core works on is    *)
(* torn from here on and the model claims nothing about it any more.        *)
NoteEnd(c) == torn' = (torn \/ \E s \in late : hw[s] = c)

(* The entries the hardware holds.                                          *)
Installed == {s \in HwSlots : hw[s] # NULL}

-----------------------------------------------------------------------------
(* The connection table.                                                    *)

HashFull == Cardinality({g \in Flows : CT[g] # NULL}) >= MaxCT

(* The context a packet of flow f is accounted to: the one the table has,   *)
(* or a free one when the application accepts the flow and both the pool    *)
(* and the hash have room.                                                  *)
Lookup(f, c, p) ==
  \/ /\ CT[f] = c
     /\ p = ctx[c].priority
     /\ UNCHANGED connVars
  \/ /\ CT[f] = NULL
     /\ c \in POOL
     /\ ~HashFull
     /\ POOL' = POOL \ {c}
     /\ CT' = [CT EXCEPT ![f] = c]

(* Mutant: the early return forgets rte_mempool_put.                        *)
PutBackForgotten(pool, c) == pool

(* rte_mempool_put of a context the hash had no place for.                  *)
PutBack(pool, c) == pool \cup {c}

(* flowQoS_addConnToHash fails and the packet is dropped: the pool is       *)
(* empty, or a context is taken, the hash refuses the key and the context   *)
(* is put back.                                                             *)
AddConnFails(f) ==
  /\ round = Idle
  /\ CT[f] = NULL
  /\ \/ POOL = {} /\ UNCHANGED POOL
     \/ HashFull /\ \E c \in POOL : POOL' = PutBack(POOL \ {c}, c)
  /\ UNCHANGED <<CT, ctx, buckets, qosVars, CT_NUM, hw, history>>

(* flowQoS_addConnToHash, and the pktCount++ for the packet that made it.   *)
NewContext(f, p) == [flow |-> f, priority |-> p, ct_state |-> SW_FWD,
                     timer |-> TRUE, pktCount |-> 1, entry |-> NULL]

(* The context after pktCount++.                                            *)
Counted(f, c, p) ==
  IF CT[f] = NULL
    THEN NewContext(f, p)
    ELSE [ctx[c] EXCEPT !.pktCount = IF @ > PacketThreshold THEN @ ELSE @ + 1]

(* flowQoS_should_offload_ct, but for the time threshold.                   *)
MayOffload(r) == r.ct_state = SW_FWD /\ r.pktCount > PacketThreshold

(* Mutant: TAILQ_INSERT_HEAD.                                               *)
AddEntryEventHead(c, p) == buckets' = [buckets EXCEPT ![p] = <<c>> \o @]

(* flowQoS_add_entry_event                                                  *)
AddEntryEvent(c, p) == buckets' = [buckets EXCEPT ![p] = Append(@, c)]

(* TAILQ_REMOVE of the k-th element.                                        *)
RemoveNth(q, k) == [i \in 1 .. Len(q) - 1 |-> IF i < k THEN q[i] ELSE q[i + 1]]

(* flowQoS_del_entry_event                                                  *)
DelEntryEvent(c) ==
  LET p == ctx[c].priority
  IN \E k \in DOMAIN buckets[p] :
       /\ buckets[p][k] = c
       /\ buckets' = [buckets EXCEPT ![p] = RemoveNth(@, k)]

(* Mutant: flowQoS_timer_del forgotten.                                     *)
OffloadedTimerLeft(r, h) == [r EXCEPT !.ct_state = HW_FWD, !.entry = h]

(* flowQoS_qosHandler, and the same lines of flowQoS_offload_conn: the      *)
(* software timer is stopped and the hardware watches from now on.          *)
Offloaded(r, h) == [r EXCEPT !.ct_state = HW_FWD, !.timer = FALSE, !.entry = h]

BudgetLeft == CT_NUM > 0

(* A packet that leaves its connection where it is: the filter says no,     *)
(* the connection is already queued or offloaded, or the budget is used up. *)
PacketForwarded(f, c, p) ==
  /\ Lookup(f, c, p)
  /\ ctx' = [ctx EXCEPT ![c] = Counted(f, c, p)]
  /\ UNCHANGED <<buckets, qosVars, CT_NUM, hw, history>>

(* A packet that makes the filter hand the connection to the scheduler.     *)
PacketEnqueues(f, c, p) ==
  /\ ENABLE_FLOWQOS
  /\ Lookup(f, c, p)
  /\ MayOffload(Counted(f, c, p))
  /\ AddEntryEvent(c, p)
  /\ ctx' = [ctx EXCEPT ![c] = [Counted(f, c, p) EXCEPT !.ct_state = FLOW_QOS]]
  /\ UNCHANGED <<qosVars, CT_NUM, hw, history>>

(* A packet that tries to offload its connection at once, the scheduler     *)
(* being off.                                                               *)
PacketOffloads(f, c, p, o, h) ==
  /\ ~ENABLE_FLOWQOS
  /\ Lookup(f, c, p)
  /\ MayOffload(Counted(f, c, p))
  /\ BudgetLeft
  /\ hw' = Install(h, c)
  /\ IF o = "done"
       THEN /\ ctx' = [ctx EXCEPT ![c] = Offloaded(Counted(f, c, p), h)]
            /\ CT_NUM' = CT_NUM - 1
       ELSE /\ ctx' = [ctx EXCEPT ![c] = [Counted(f, c, p) EXCEPT !.entry = h]]
            /\ UNCHANGED CT_NUM
  /\ NoteLate(o, h)
  /\ UNCHANGED <<buckets, qosVars, torn, returned>>

(* Mutant: the context is put back, the key stays in the hash.              *)
DelConnKeyLeft(c) == POOL' = POOL \cup {c} /\ UNCHANGED CT

(* flowQoS_delConnFromHash: the key goes, whatever it leads to, and the     *)
(* context goes back to the pool.                                           *)
DelConn(c) ==
  /\ CT' = [CT EXCEPT ![ctx[c].flow] = NULL]
  /\ POOL' = POOL \cup {c}

(* Mutant: flowQoS_del_entry_event forgotten.                               *)
SwDequeueForgotten(c) == UNCHANGED buckets

SwDequeue(c) ==
  IF ENABLE_FLOWQOS /\ ctx[c].ct_state = FLOW_QOS
    THEN DelEntryEvent(c)
    ELSE UNCHANGED buckets

(* flowQoS_conn_expire_sw_cb: the wheel has stopped the timer before.       *)
SwExpire(c) ==
  /\ round = Idle
  /\ ctx[c].timer
  /\ DelConn(c)
  /\ ctx' = [ctx EXCEPT ![c].timer = FALSE]
  /\ SwDequeue(c)
  /\ NoteEnd(c)
  /\ UNCHANGED <<qosVars, CT_NUM, hw, late, returned>>

(* flowQoS_return_entry_event                                               *)
ReturnEntryEvent ==
  /\ maxEntry' = IF maxEntry + 1 > MaxOffloadedEntry
                   THEN MaxOffloadedEntry ELSE maxEntry + 1
  /\ returned' = returned + 1

(* Mutant: the entry that aged is not given back.                           *)
ReturnBudgetForgotten(c) == UNCHANGED <<maxEntry, CT_NUM, returned>>

(* Where the budget of an aged entry goes.                                  *)
ReturnBudget(c) ==
  IF ENABLE_FLOWQOS /\ ctx[c].ct_state = HW_FWD
    THEN ReturnEntryEvent /\ UNCHANGED CT_NUM
    ELSE CT_NUM' = CT_NUM + 1 /\ UNCHANGED <<maxEntry, returned>>

(* flowQoS_aging_handle and flowQoS_conn_expire_hw_cb for one aged entry:   *)
(* what is removed is the handle the context holds.  When the removal is    *)
(* refused the report is skipped and nothing changes.                       *)
HwExpire(s) ==
  /\ round = Idle
  /\ hw[s] # NULL
  /\ LET c == hw[s]
         h == ctx[c].entry
     IN /\ h # NULL /\ hw[h] # NULL
        /\ hw' = [hw EXCEPT ![h] = NULL]
        /\ late' = late \ {h}
        /\ DelConn(c)
        /\ ReturnBudget(c)
        /\ NoteEnd(c)
  /\ UNCHANGED <<ctx, buckets, hwCongested, due, round, weight>>

-----------------------------------------------------------------------------
(* flowQoS_do_entry_event: the scheduling round.                            *)

(* The interval since the last complete round has passed.                   *)
GapElapses ==
  /\ ENABLE_FLOWQOS /\ ~due /\ round = Idle
  /\ due' = TRUE
  /\ UNCHANGED <<CT, POOL, ctx, buckets, maxEntry, CT_NUM, hwCongested,
                 round, weight, hw, history>>

(* Mutant: the loop starts at the lowest priority.                          *)
StartRoundLowest ==
  /\ round = Idle /\ due
  /\ round' = 0
  /\ UNCHANGED <<CT, POOL, ctx, buckets, maxEntry, CT_NUM, hwCongested,
                 due, weight, hw, history>>

StartRound ==
  /\ round = Idle /\ due
  /\ round' = PriorityQueueNum - 1
  /\ UNCHANGED <<CT, POOL, ctx, buckets, maxEntry, CT_NUM, hwCongested,
                 due, weight, hw, history>>

(* Mutant: the last entry of the weight is not used.                        *)
ServingOffByOne(i) ==
  round = i /\ buckets[i] # <<>> /\ weight[i] > 1 /\ maxEntry > 0

(* The while loop of queue i goes on.                                       *)
Serving(i) ==
  /\ round = i
  /\ buckets[i] # <<>>
  /\ weight[i] > 0
  /\ maxEntry > 0

(* Queue i is left; after queue 0, lastStmp = cur.                          *)
NextQueue(i) ==
  /\ round = i /\ ~Serving(i)
  /\ round' = i - 1
  /\ IF i = 0 THEN due' = FALSE /\ weight' = Weight
              ELSE UNCHANGED <<due, weight>>
  /\ UNCHANGED <<CT, POOL, ctx, buckets, maxEntry, CT_NUM, hwCongested, hw,
                 history>>

Watermark == (MaxOffloadedEntry * HwWatermarkPercent) \div 100

(* Mutant: the watermark itself does not count.                             *)
CongestedAfterOffByOne(e) == MaxOffloadedEntry - e > Watermark

(* The congestion flag after an offload that leaves e entries of budget.    *)
(* The congestion handler is called when it goes from FALSE to TRUE.        *)
CongestedAfter(e) == MaxOffloadedEntry - e >= Watermark

(* flowQoS_add_entry succeeds: flowQoS_qosHandler is called, the budget and *)
(* the weight go down and the entry leaves its queue.                       *)
OffloadHead(i, h) ==
  /\ Serving(i)
  /\ LET c == Head(buckets[i])
     IN /\ hw' = Install(h, c)
        /\ ctx' = [ctx EXCEPT ![c] = Offloaded(@, h)]
        /\ buckets' = [buckets EXCEPT ![i] = Tail(@)]
  /\ maxEntry' = maxEntry - 1
  /\ weight' = [weight EXCEPT ![i] = @ - 1]
  /\ hwCongested' = CongestedAfter(maxEntry - 1)
  /\ returned' = 0
  /\ UNCHANGED <<CT, POOL, CT_NUM, due, round, late, torn>>

(* flowQoS_add_entry fails: the round is given up on the spot, lastStmp is  *)
(* not set and the entry stays at the head of its queue.                    *)
AbandonRound(i, o, h) ==
  /\ Serving(i)
  /\ LET c == Head(buckets[i])
     IN /\ hw' = Install(h, c)
        /\ ctx' = [ctx EXCEPT ![c].entry = h]
  /\ round' = Idle
  /\ weight' = Weight
  /\ NoteLate(o, h)
  /\ UNCHANGED <<CT, POOL, buckets, maxEntry, CT_NUM, hwCongested, due,
                 torn, returned>>

Scheduled(i) == \E h \in Handles("done") : OffloadHead(i, h)

(* flowQoS_conntrack_packet_processor, which never runs inside a round.     *)
PacketProcessor(f, c, p) ==
  /\ round = Idle
  /\ \/ PacketForwarded(f, c, p)
     \/ PacketEnqueues(f, c, p)
     \/ \E o \in Outcomes : \E h \in Handles(o) : PacketOffloads(f, c, p, o, h)

Packet(f) ==
  \/ \E c \in Ctxs, p \in Priorities : PacketProcessor(f, c, p)
  \/ AddConnFails(f)

Round ==
  \/ StartRound
  \/ \E i \in Priorities :
       \/ NextQueue(i)
       \/ "done" \in Outcomes /\ Scheduled(i)
       \/ \E o \in Outcomes \ {"done"} :
            \E h \in Handles(o) : AbandonRound(i, o, h)

Next ==
  \/ \E f \in Flows : Packet(f)
  \/ \E c \in Ctxs : SwExpire(c)
  \/ \E s \in HwSlots : HwExpire(s)
  \/ GapElapses
  \/ Round

Spec == Init /\ [][Next]_vars

(* The core polls without pause, so a round that is due starts, goes on and *)
(* comes to its end, and the clock runs.  That doca-flow does not refuse    *)
(* the head of a queue for ever and that every hardware entry ages one day  *)
(* are assumptions about the hardware and the traffic; the fairness is      *)
(* strong because the core polls for aged entries between its rounds only.  *)
FairSpec ==
  /\ Spec
  /\ WF_vars(GapElapses)
  /\ WF_vars(StartRound)
  /\ \A i \in Priorities : WF_vars(NextQueue(i)) /\ SF_vars(Scheduled(i))
  /\ \A i \in Priorities :
       WF_vars(\E h \in Handles("refused") : AbandonRound(i, "refused", h))
  /\ \A s \in HwSlots : SF_vars(HwExpire(s))

-----------------------------------------------------------------------------
(* Every variable has the shape of the C object it stands for, and the      *)
(* scheduler's budget never leaves its range, whatever doca-flow does.      *)
TypeOK ==
  /\ CT \in [Flows -> Ctxs \cup {NULL}]
  /\ POOL \subseteq Ctxs
  /\ ctx \in [Ctxs -> Context]
  /\ buckets \in [Priorities -> Seq(Ctxs)]
  /\ maxEntry \in 0 .. MaxOffloadedEntry
  /\ CT_NUM \in Nat
  /\ hwCongested \in BOOLEAN
  /\ due \in BOOLEAN
  /\ round \in Priorities \cup {Idle}
  /\ weight \in [Priorities -> Nat]
  /\ hw \in [HwSlots -> Ctxs \cup {NULL}]
  /\ late \subseteq HwSlots
  /\ torn \in BOOLEAN
  /\ returned \in Nat

(* The contexts that belong to a connection.                                *)
InUse == Ctxs \ POOL

Queued(c) == \E p \in Priorities : \E k \in DOMAIN buckets[p] : buckets[p][k] = c

PoolAgrees ==
  /\ \A c \in InUse : ctx[c].flow \in Flows
  /\ \A c \in Ctxs, f \in Flows :
       CT[f] = c <=> (c \in InUse /\ ctx[c].flow = f)

(* flowQoS_addConnToHash and flowQoS_delConnFromHash against the shared     *)
(* pool: a context is either free or the value of exactly one key of the    *)
(* table, the key it was made for.  No context leaks, none is put twice,    *)
(* until a connection ends that has an entry reported too late.             *)
PoolExact == ~torn => PoolAgrees

QueuesAgree ==
  /\ \A p \in Priorities : \A k \in DOMAIN buckets[p] :
       LET c == buckets[p][k]
       IN /\ c \in InUse
          /\ ctx[c].ct_state = FLOW_QOS
          /\ ctx[c].priority = p
          /\ \A l \in DOMAIN buckets[p] : buckets[p][l] = c => l = k
  /\ \A c \in InUse : ctx[c].ct_state = FLOW_QOS => Queued(c)

(* The priority queues of flowQoS_qos.c hold exactly the connections in     *)
(* FLOW_QOS_STATE, each once and in the queue of its own priority: no       *)
(* expiry, refusal, late completion or offload leaves a link to a freed     *)
(* context.                                                                 *)
QueuesExact == ~torn => QueuesAgree

(* The entries flowQoS_add_entry has reported to its caller.                *)
Held == Installed \ late

WatchersAgree ==
  /\ \A c \in InUse : ctx[c].timer <=> ctx[c].ct_state # HW_FWD
  /\ \A c \in InUse : ctx[c].ct_state = HW_FWD =>
       /\ ctx[c].entry \in HwSlots \ late
       /\ hw[ctx[c].entry] = c
  /\ \A s \in Installed : hw[s] \in InUse
  /\ \A s \in Held :
       /\ ctx[hw[s]].ct_state = HW_FWD
       /\ ctx[hw[s]].entry = s
  /\ late \subseteq Installed
  /\ \A c \in POOL : ~ctx[c].timer

(* A connection is watched by exactly one of the two ageing mechanisms:     *)
(* the software timer until it is offloaded, the hardware entry it holds    *)
(* afterwards.  Only an entry reported too late points at a connection that *)
(* does not hold it, and then the connection lives: a freed context is      *)
(* watched by neither, so no expiry callback runs for a connection that is  *)
(* gone.                                                                    *)
OneWatcher == ~torn => WatchersAgree

BudgetAgrees ==
  (IF ENABLE_FLOWQOS THEN maxEntry ELSE CT_NUM) + Cardinality(Held)
     = MaxOffloadedEntry

(* The budget is neither lost nor forged: what is left of it and what is in *)
(* hardware add up to maxOffloadedEntry, over every order of offloads,      *)
(* refusals and expiries (and the clamp of flowQoS_return_entry_event never *)
(* hides a second return).  "the maximum offloaded entry per core"          *)
(* (flowQoS_conntrack.h) is exceeded by the late entries and by no other.   *)
BudgetExact == ~torn => BudgetAgrees

Occupied == MaxOffloadedEntry - maxEntry

PressureAgrees ==
  hwCongested <=> LET o == Occupied + returned IN o > 0 /\ o >= Watermark

(* hwCongested is set exactly when the entries this core held in hardware   *)
(* at its last offload reached the watermark: pressure is not overlooked,   *)
(* the flag goes out again, and what makes it stale is the entries that     *)
(* aged since then and nothing else, as flowQoS_return_entry_event does     *)
(* not look at it.                                                          *)
PressureExact == ~torn => PressureAgrees

(* With the scheduler off nothing is queued and no round is ever due.       *)
SchedulerOff ==
  ~ENABLE_FLOWQOS => ~due /\ round = Idle /\ \A p \in Priorities : buckets[p] = <<>>

(* Hash, pool, queues, timers, hardware entries and budgets of a core       *)
(* agree: what every step preserves, but one that ends a connection with a  *)
(* late entry.                                                              *)
Agreement ==
  /\ TypeOK
  /\ SchedulerOff
  /\ PoolAgrees
  /\ QueuesAgree
  /\ WatchersAgree
  /\ BudgetAgrees
  /\ PressureAgrees

(* They agree through every packet, expiry, refusal, late completion and    *)
(* round of the core, until a connection ends whose entry flowQoS_add_entry *)
(* learnt of too late.                                                      *)
IInv == ~torn => Agreement

(* An offload takes the oldest entry of its queue, and only when every      *)
(* queue of higher priority is empty or has used up its weight.             *)
ServesInOrder ==
  \A i \in Priorities :
    (Len(buckets'[i]) < Len(buckets[i]) /\ maxEntry' < maxEntry) =>
       /\ \A j \in Priorities : j > i => buckets[j] = <<>> \/ weight[j] = 0
       /\ buckets'[i] = Tail(buckets[i])

(* The weighted round of flowQoS_do_entry_event serves in this order        *)
(* through all its offloads, whichever queues fill up before it.            *)
PriorityOrder == [][ServesInOrder]_vars

(* lastStmp is only set when no queue has entry, weight and budget left.    *)
ClosesWhenServed ==
  due /\ ~due' =>
    \A i \in Priorities : buckets[i] = <<>> \/ weight[i] = 0 \/ maxEntry = 0

(* A round of flowQoS_do_entry_event that met no refusal has served every   *)
(* queue as far as weight, entries and budget allow before the next         *)
(* interval is waited for.                                                  *)
RoundComplete == [][ClosesWhenServed]_vars

(* What a round has behind it: the queues above the one it is at were       *)
(* served as far as they could be.                                          *)
RoundProgress ==
  round # Idle =>
    \A j \in Priorities :
      j > round => buckets[j] = <<>> \/ weight[j] = 0 \/ maxEntry = 0

(* A connection of the highest priority does not wait for ever: it is       *)
(* offloaded or it ends.                                                    *)
TopPriorityServed ==
  \A c \in Ctxs : (Queued(c) /\ ctx[c].priority = PriorityQueueNum - 1) ~> ~Queued(c)
=============================================================================
