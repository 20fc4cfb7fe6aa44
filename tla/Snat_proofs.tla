---------------------------- MODULE Snat_proofs ----------------------------
(***************************************************************************)
(* The invariants of ConnSched for every number of flows, contexts,        *)
(* priorities and hardware places, every weight and every budget; and, on  *)
(* top of them, the agreement of the source NAT's port pool and table with *)
(* the connection table, for all hosts, servers, ports and contexts.       *)
(*                                                                         *)
(* Completions may be late at any time.  The types are kept by every step; *)
(* Agreement is kept by every step but one that ends a connection with a   *)
(* late entry, which is the one that makes torn true.                      *)
(***************************************************************************)
EXTENDS Snat, FiniteSetTheorems, SequenceTheorems, TLAPS

(* TAILQ_REMOVE shortens the queue by one and keeps the order of the rest.  *)
LEMMA RemoveNthProperties ==
  ASSUME NEW S, NEW q \in Seq(S), NEW k \in 1 .. Len(q)
  PROVE  /\ RemoveNth(q, k) \in Seq(S)
         /\ Len(RemoveNth(q, k)) = Len(q) - 1
         /\ \A i \in 1 .. Len(q) - 1 :
              RemoveNth(q, k)[i] = IF i < k THEN q[i] ELSE q[i + 1]
<1>1. Len(q) \in Nat /\ Len(q) - 1 \in Nat
  OBVIOUS
<1>2. \A i \in 1 .. Len(q) - 1 : (IF i < k THEN q[i] ELSE q[i + 1]) \in S
  OBVIOUS
<1>3. QED
  BY <1>1, <1>2 DEF RemoveNth

-----------------------------------------------------------------------------
(* The types, which hold whatever doca-flow does.                           *)

(* A packet is accounted to a well-formed context.                          *)
LEMMA LookupType ==
  ASSUME TypeOK, NEW f \in Flows, NEW c \in Ctxs, NEW p \in Priorities,
         Lookup(f, c, p)
  PROVE  /\ Counted(f, c, p) \in Context
         /\ POOL' \subseteq Ctxs
         /\ CT' \in [Flows -> Ctxs \cup {NULL}]
<1>1. CASE CT[f] = c
  <2>1. c # NULL /\ ctx[c] \in Context
    BY ConnSchedAssumption DEF TypeOK
  <2>2. ctx[c].pktCount \in 0 .. PacketThreshold + 1 /\ PacketThreshold \in Nat
    BY <2>1, ConnSchedAssumption DEF Context
  <2>3. Counted(f, c, p) = [ctx[c] EXCEPT !.pktCount =
                              IF @ > PacketThreshold THEN @ ELSE @ + 1]
    BY <1>1, <2>1 DEF Counted
  <2>4. Counted(f, c, p) \in Context
    BY <2>1, <2>2, <2>3 DEF Context
  <2> QED
    BY <1>1, <2>1, <2>4 DEF Lookup, connVars, TypeOK
<1>2. CASE CT[f] # c
  <2>1. /\ CT[f] = NULL
        /\ POOL' = POOL \ {c} /\ CT' = [CT EXCEPT ![f] = c]
    BY <1>2 DEF Lookup
  <2>2. Counted(f, c, p) = NewContext(f, p)
    BY <2>1 DEF Counted
  <2>3. Counted(f, c, p) \in Context
    BY <2>2, ConnSchedAssumption DEF NewContext, Context
  <2> QED
    BY <2>1, <2>3 DEF TypeOK
<1> QED
  BY <1>1, <1>2

(* A handle is a place that was free, or none.                              *)
LEMMA HandleType ==
  ASSUME TypeOK, NEW c \in Ctxs, NEW o \in Outcomes, NEW h \in Handles(o)
  PROVE  /\ h \in HwSlots \cup {NULL}
         /\ o # "refused" => h \in HwSlots /\ h # NULL /\ hw[h] = NULL
         /\ Install(h, c) \in [HwSlots -> Ctxs \cup {NULL}]
<1>1. CASE o = "refused"
  BY <1>1 DEF Handles, Install, TypeOK
<1>2. CASE o # "refused"
  BY <1>2, ConnSchedAssumption DEF Handles, Install, TypeOK
<1> QED
  BY <1>1, <1>2

(* The packet handler keeps the types.                                      *)
LEMMA PacketType ==
  ASSUME TypeOK, NEW f \in Flows, NEW c \in Ctxs, NEW p \in Priorities,
         PacketProcessor(f, c, p)
  PROVE  TypeOK'
<1> DEFINE R == Counted(f, c, p)
<1>1. CASE PacketForwarded(f, c, p)
  <2>1. Lookup(f, c, p) /\ ctx' = [ctx EXCEPT ![c] = R]
        /\ UNCHANGED <<buckets, maxEntry, hwCongested, due, round, weight, CT_NUM,
                       hw, late, torn, returned>>
    BY <1>1 DEF PacketForwarded, qosVars, history
  <2>2. R \in Context /\ POOL' \subseteq Ctxs /\ CT' \in [Flows -> Ctxs \cup {NULL}]
    BY <2>1, LookupType
  <2> HIDE DEF R
  <2> QED
    BY <2>1, <2>2 DEF TypeOK
<1>2. CASE PacketEnqueues(f, c, p)
  <2>1. Lookup(f, c, p) /\ ctx' = [ctx EXCEPT ![c] = [R EXCEPT !.ct_state = FLOW_QOS]]
        /\ buckets' = [buckets EXCEPT ![p] = Append(@, c)]
        /\ UNCHANGED <<maxEntry, hwCongested, due, round, weight, CT_NUM,
                       hw, late, torn, returned>>
    BY <1>2 DEF PacketEnqueues, AddEntryEvent, qosVars, history
  <2>2. R \in Context /\ POOL' \subseteq Ctxs /\ CT' \in [Flows -> Ctxs \cup {NULL}]
    BY <2>1, LookupType
  <2> HIDE DEF R
  <2>3. [R EXCEPT !.ct_state = FLOW_QOS] \in Context
    BY <2>2 DEF Context
  <2>4. buckets' \in [Priorities -> Seq(Ctxs)]
    BY <2>1 DEF TypeOK
  <2> QED
    BY <2>1, <2>2, <2>3, <2>4 DEF TypeOK
<1>3. ASSUME NEW o \in Outcomes, NEW h \in Handles(o), PacketOffloads(f, c, p, o, h)
      PROVE  TypeOK'
  <2>1. /\ Lookup(f, c, p) /\ CT_NUM > 0 /\ hw' = Install(h, c)
        /\ late' = IF o = "late" THEN late \cup {h} ELSE late
        /\ \/ /\ o = "done"
              /\ ctx' = [ctx EXCEPT ![c] = Offloaded(R, h)] /\ CT_NUM' = CT_NUM - 1
           \/ ctx' = [ctx EXCEPT ![c] = [R EXCEPT !.entry = h]] /\ CT_NUM' = CT_NUM
        /\ UNCHANGED <<buckets, maxEntry, hwCongested, due, round, weight, torn, returned>>
    BY <1>3 DEF PacketOffloads, BudgetLeft, NoteLate, qosVars
  <2>2. R \in Context /\ POOL' \subseteq Ctxs /\ CT' \in [Flows -> Ctxs \cup {NULL}]
    BY <2>1, LookupType
  <2> HIDE DEF R
  <2>3. /\ h \in HwSlots \cup {NULL} /\ (o # "refused" => h \in HwSlots)
        /\ hw' \in [HwSlots -> Ctxs \cup {NULL}]
    BY <2>1, HandleType
  <2>4. Offloaded(R, h) \in Context /\ [R EXCEPT !.entry = h] \in Context
    BY <2>2, <2>3 DEF Offloaded, Context
  <2>5. CT_NUM' \in Nat
    BY <2>1 DEF TypeOK
  <2>6. late' \subseteq HwSlots
    BY <2>1, <2>3 DEF TypeOK
  <2>7. ctx' \in [Ctxs -> Context]
    BY <2>1, <2>4 DEF TypeOK
  <2> QED
    BY <2>1, <2>2, <2>3, <2>5, <2>6, <2>7 DEF TypeOK
<1> QED
  BY <1>1, <1>2, <1>3 DEF PacketProcessor

(* A connection that cannot be added changes nothing: the context that was  *)
(* taken for it is put back.                                                *)
LEMMA AddConnFailsSame ==
  ASSUME NEW f \in Flows, AddConnFails(f)
  PROVE  UNCHANGED vars
<1>1. POOL' = POOL
  BY DEF AddConnFails, PutBack
<1> QED
  BY <1>1 DEF AddConnFails, vars, qosVars, history

(* The budget given back never exceeds what init gave.                      *)
LEMMA ReturnType ==
  ASSUME TypeOK, NEW c \in Ctxs, ReturnBudget(c)
  PROVE  /\ maxEntry' \in 0 .. MaxOffloadedEntry
         /\ CT_NUM' \in Nat /\ returned' \in Nat
  BY ConnSchedAssumption DEF TypeOK, ReturnBudget, ReturnEntryEvent

(* Both kinds of expiry keep the types.                                     *)
LEMMA ExpireType ==
  ASSUME TypeOK,
         (\E c \in Ctxs : SwExpire(c)) \/ \E s \in HwSlots : HwExpire(s)
  PROVE  TypeOK'
<1>1. ASSUME NEW c \in Ctxs, DelConn(c)
      PROVE  CT' \in [Flows -> Ctxs \cup {NULL}] /\ POOL' \subseteq Ctxs
  BY <1>1 DEF DelConn, TypeOK
<1>2. ASSUME NEW c \in Ctxs, NoteEnd(c)
      PROVE  torn' \in BOOLEAN
  BY <1>2 DEF NoteEnd
<1>3. ASSUME NEW c \in Ctxs, SwExpire(c)
      PROVE  TypeOK'
  <2>1. /\ DelConn(c) /\ SwDequeue(c) /\ NoteEnd(c)
        /\ ctx' = [ctx EXCEPT ![c].timer = FALSE]
        /\ UNCHANGED <<maxEntry, hwCongested, due, round, weight, CT_NUM, hw, late,
                       returned>>
    BY <1>3 DEF SwExpire, qosVars
  <2>2. ctx' \in [Ctxs -> Context]
    <3>1. ctx \in [Ctxs -> Context] /\ ctx[c] \in Context
      BY DEF TypeOK
    <3>2. [ctx[c] EXCEPT !.timer = FALSE] \in Context
      BY <3>1 DEF Context
    <3>3. ctx' = [ctx EXCEPT ![c] = [ctx[c] EXCEPT !.timer = FALSE]]
      BY <2>1
    <3> QED
      BY <3>1, <3>2, <3>3
  <2>3. buckets' \in [Priorities -> Seq(Ctxs)]
    <3>1. CASE UNCHANGED buckets
      BY <3>1 DEF TypeOK
    <3>2. CASE DelEntryEvent(c)
      <4> DEFINE p == ctx[c].priority
      <4>1. p \in Priorities
        BY DEF TypeOK, Context
      <4>2. PICK k \in DOMAIN buckets[p] : buckets' = [buckets EXCEPT ![p] = RemoveNth(@, k)]
        BY <3>2 DEF DelEntryEvent
      <4>3. buckets[p] \in Seq(Ctxs) /\ k \in 1 .. Len(buckets[p])
        BY <4>1, <4>2 DEF TypeOK
      <4>4. RemoveNth(buckets[p], k) \in Seq(Ctxs)
        BY <4>3, RemoveNthProperties
      <4> QED
        BY <4>1, <4>2, <4>4 DEF TypeOK
    <3> QED
      BY <2>1, <3>1, <3>2 DEF SwDequeue
  <2> QED
    BY <1>1, <1>2, <2>1, <2>2, <2>3 DEF TypeOK
<1>4. ASSUME NEW s \in HwSlots, HwExpire(s)
      PROVE  TypeOK'
  <2> DEFINE c == hw[s]
  <2> DEFINE h == ctx[c].entry
  <2>1. /\ c # NULL /\ h # NULL /\ hw' = [hw EXCEPT ![h] = NULL]
        /\ late' = late \ {h}
        /\ DelConn(c) /\ ReturnBudget(c) /\ NoteEnd(c)
        /\ UNCHANGED <<ctx, buckets, hwCongested, due, round, weight>>
    BY <1>4 DEF HwExpire
  <2>2. c \in Ctxs
    BY <2>1 DEF TypeOK
  <2>3. h \in HwSlots
    BY <2>1, <2>2 DEF TypeOK, Context
  <2> HIDE DEF c, h
  <2>4. hw' \in [HwSlots -> Ctxs \cup {NULL}] /\ late' \subseteq HwSlots
    BY <2>1, <2>3 DEF TypeOK
  <2> QED
    BY <1>1, <1>2, <2>1, <2>2, <2>4, ReturnType DEF TypeOK
<1> QED
  BY <1>3, <1>4

(* The head of a queue is a context.                                        *)
LEMMA HeadType ==
  ASSUME TypeOK, NEW i \in Priorities, Serving(i)
  PROVE  /\ Head(buckets[i]) \in Ctxs /\ Tail(buckets[i]) \in Seq(Ctxs)
         /\ ctx[Head(buckets[i])] \in Context
  BY DEF TypeOK, Serving

(* The steps of a round keep the types.                                     *)
LEMMA RoundType ==
  ASSUME TypeOK, GapElapses \/ Round
  PROVE  TypeOK'
<1>1. CASE GapElapses
  BY <1>1 DEF GapElapses, TypeOK, history
<1>2. CASE StartRound
  BY <1>2, ConnSchedAssumption DEF StartRound, TypeOK, Priorities, history
<1>3. ASSUME NEW i \in Priorities, NextQueue(i)
      PROVE  TypeOK'
  <2>1. round' \in Priorities \cup {Idle}
    BY <1>3, ConnSchedAssumption DEF NextQueue, Priorities, Idle
  <2>2. due' \in BOOLEAN /\ weight' \in [Priorities -> Nat]
    BY <1>3, ConnSchedAssumption DEF NextQueue, TypeOK
  <2> QED
    BY <1>3, <2>1, <2>2 DEF NextQueue, TypeOK, history
<1>4. ASSUME NEW i \in Priorities, "done" \in Outcomes, NEW h \in Handles("done"),
             OffloadHead(i, h)
      PROVE  TypeOK'
  <2> DEFINE c == Head(buckets[i])
  <2>1. Serving(i) /\ c \in Ctxs /\ Tail(buckets[i]) \in Seq(Ctxs) /\ ctx[c] \in Context
    BY <1>4, HeadType DEF OffloadHead
  <2>2. /\ hw' = Install(h, c) /\ ctx' = [ctx EXCEPT ![c] = Offloaded(@, h)]
        /\ buckets' = [buckets EXCEPT ![i] = Tail(@)]
        /\ maxEntry' = maxEntry - 1 /\ maxEntry > 0 /\ weight[i] > 0
        /\ weight' = [weight EXCEPT ![i] = @ - 1]
        /\ hwCongested' = CongestedAfter(maxEntry - 1) /\ returned' = 0
        /\ UNCHANGED <<CT, POOL, CT_NUM, due, round, late, torn>>
    BY <1>4 DEF OffloadHead, Serving
  <2>3. h \in HwSlots /\ hw' \in [HwSlots -> Ctxs \cup {NULL}]
    BY <1>4, <2>1, <2>2, HandleType
  <2> HIDE DEF c
  <2>4. ctx' \in [Ctxs -> Context]
    <3>1. Offloaded(ctx[c], h) \in Context
      BY <2>1, <2>3 DEF Offloaded, Context
    <3> QED
      BY <2>1, <2>2, <3>1 DEF TypeOK
  <2>5. buckets' \in [Priorities -> Seq(Ctxs)]
    BY <2>1, <2>2 DEF TypeOK
  <2>6. weight' \in [Priorities -> Nat] /\ maxEntry' \in 0 .. MaxOffloadedEntry
    BY <2>2, ConnSchedAssumption DEF TypeOK
  <2>7. hwCongested' \in BOOLEAN /\ returned' \in Nat
    BY <2>2 DEF CongestedAfter
  <2> QED
    BY <2>2, <2>3, <2>4, <2>5, <2>6, <2>7 DEF TypeOK
<1>5. ASSUME NEW i \in Priorities, NEW o \in Outcomes, NEW h \in Handles(o),
             AbandonRound(i, o, h)
      PROVE  TypeOK'
  <2> DEFINE c == Head(buckets[i])
  <2>1. c \in Ctxs /\ ctx[c] \in Context
    BY <1>5, HeadType DEF AbandonRound
  <2>2. /\ hw' = Install(h, c) /\ ctx' = [ctx EXCEPT ![c].entry = h]
        /\ round' = Idle /\ weight' = Weight
        /\ late' = IF o = "late" THEN late \cup {h} ELSE late
        /\ UNCHANGED <<CT, POOL, buckets, maxEntry, CT_NUM, hwCongested, due, torn,
                       returned>>
    BY <1>5 DEF AbandonRound, NoteLate
  <2>3. /\ h \in HwSlots \cup {NULL} /\ (o # "refused" => h \in HwSlots)
        /\ hw' \in [HwSlots -> Ctxs \cup {NULL}]
    BY <1>5, <2>1, <2>2, HandleType
  <2> HIDE DEF c
  <2>4. ctx' \in [Ctxs -> Context]
    BY <2>1, <2>2, <2>3 DEF TypeOK, Context
  <2>5. late' \subseteq HwSlots
    BY <2>2, <2>3 DEF TypeOK
  <2> QED
    BY <2>2, <2>3, <2>4, <2>5, ConnSchedAssumption DEF TypeOK
<1> QED
  BY <1>1, <1>2, <1>3, <1>4, <1>5 DEF Round, Scheduled

(* The state after initialisation is well-typed.                            *)
LEMMA InitType == Init => TypeOK
<1> SUFFICES ASSUME Init PROVE TypeOK
  OBVIOUS
<1>1. UnusedContext \in Context
  BY ConnSchedAssumption DEF UnusedContext, Context, Priorities
<1>2. buckets \in [Priorities -> Seq(Ctxs)]
  BY DEF Init
<1>3. maxEntry \in 0 .. MaxOffloadedEntry /\ CT_NUM \in Nat
  BY ConnSchedAssumption DEF Init
<1> QED
  BY <1>1, <1>2, <1>3, ConnSchedAssumption DEF Init, TypeOK

(* Every step of the core keeps the types.                                  *)
LEMMA TypeStep ==
  ASSUME TypeOK, [Next]_vars
  PROVE  TypeOK'
<1>1. CASE UNCHANGED vars
  BY <1>1 DEF TypeOK, vars, history
<1>2. CASE \E f \in Flows : Packet(f)
  BY <1>1, <1>2, PacketType, AddConnFailsSame DEF Packet
<1> QED
  BY <1>1, <1>2, ExpireType, RoundType DEF Next

(* The attributes of a core keep the shape of the C objects they stand for  *)
(* and the scheduler's budget its range, through refusals, late completions *)
(* and what late completions lead to.                                       *)
THEOREM TypeCorrect == Spec => []TypeOK
<1>1. TypeOK /\ [Next]_vars => TypeOK'
  BY TypeStep
<1> QED
  BY <1>1, InitType, PTL DEF Spec

-----------------------------------------------------------------------------
(* Agreement, action by action.                                             *)

(* A packet is accounted to a context of its own flow, fresh or found.      *)
LEMMA LookupProperties ==
  ASSUME TypeOK, PoolAgrees, WatchersAgree,
         NEW f \in Flows, NEW c \in Ctxs, NEW p \in Priorities,
         Lookup(f, c, p)
  PROVE  /\ Counted(f, c, p) \in Context
         /\ Counted(f, c, p).flow = f
         /\ Counted(f, c, p).priority = p
         /\ Counted(f, c, p).timer <=> Counted(f, c, p).ct_state # HW_FWD
         /\ \/ /\ CT[f] = c /\ c \in InUse
               /\ POOL' = POOL /\ CT' = CT
               /\ Counted(f, c, p).ct_state = ctx[c].ct_state
               /\ Counted(f, c, p).entry = ctx[c].entry
               /\ ctx[c].priority = p
            \/ /\ CT[f] = NULL /\ c \in POOL
               /\ POOL' = POOL \ {c} /\ CT' = [CT EXCEPT ![f] = c]
               /\ Counted(f, c, p).ct_state = SW_FWD
         /\ POOL' \subseteq Ctxs
         /\ CT' \in [Flows -> Ctxs \cup {NULL}]
         /\ c \notin POOL'
<1>1. CASE CT[f] = c
  <2>1. c # NULL /\ c \in InUse /\ ctx[c].flow = f /\ ctx[c] \in Context
    BY <1>1, ConnSchedAssumption DEF TypeOK, PoolAgrees
  <2>2. ctx[c].pktCount \in 0 .. PacketThreshold + 1 /\ PacketThreshold \in Nat
    BY <2>1, ConnSchedAssumption DEF Context
  <2>3. Counted(f, c, p) = [ctx[c] EXCEPT !.pktCount =
                              IF @ > PacketThreshold THEN @ ELSE @ + 1]
    BY <1>1, <2>1 DEF Counted
  <2>4. /\ Counted(f, c, p) \in Context
        /\ Counted(f, c, p).flow = ctx[c].flow
        /\ Counted(f, c, p).priority = ctx[c].priority
        /\ Counted(f, c, p).timer = ctx[c].timer
        /\ Counted(f, c, p).ct_state = ctx[c].ct_state
        /\ Counted(f, c, p).entry = ctx[c].entry
    BY <2>1, <2>2, <2>3 DEF Context
  <2>5. POOL' = POOL /\ CT' = CT /\ p = ctx[c].priority
    BY <1>1, <2>1 DEF Lookup, connVars
  <2>6. QED
    BY <1>1, <2>1, <2>4, <2>5 DEF TypeOK, WatchersAgree, InUse
<1>2. CASE CT[f] # c
  <2>1. /\ CT[f] = NULL /\ c \in POOL
        /\ POOL' = POOL \ {c} /\ CT' = [CT EXCEPT ![f] = c]
    BY <1>2 DEF Lookup
  <2>2. Counted(f, c, p) = NewContext(f, p)
    BY <2>1 DEF Counted
  <2>3. /\ Counted(f, c, p) \in Context
        /\ Counted(f, c, p).flow = f
        /\ Counted(f, c, p).priority = p
        /\ Counted(f, c, p).timer = TRUE
        /\ Counted(f, c, p).ct_state = SW_FWD
    BY <2>2, ConnSchedAssumption DEF NewContext, Context
  <2>4. QED
    BY <2>1, <2>3 DEF TypeOK, SW_FWD, HW_FWD
<1>3. QED
  BY <1>1, <1>2

(* Whatever becomes of the context of a packet, the table stays exact.      *)
LEMMA PacketPool ==
  ASSUME TypeOK, PoolAgrees, WatchersAgree,
         NEW f \in Flows, NEW c \in Ctxs, NEW p \in Priorities, Lookup(f, c, p),
         NEW R \in Context, R.flow = f, ctx' = [ctx EXCEPT ![c] = R]
  PROVE  PoolAgrees' /\ ctx' \in [Ctxs -> Context]
<1>1. ctx' \in [Ctxs -> Context] /\ ctx'[c] = R
      /\ \A d \in Ctxs \ {c} : ctx'[d] = ctx[d]
  BY DEF TypeOK
<1>2. CASE CT[f] = c /\ c \in InUse /\ POOL' = POOL /\ CT' = CT
  BY <1>1, <1>2 DEF PoolAgrees, InUse
<1>3. CASE CT[f] = NULL /\ c \in POOL /\ POOL' = POOL \ {c}
           /\ CT' = [CT EXCEPT ![f] = c]
  <2>1. CT'[f] = c /\ \A g \in Flows \ {f} : CT'[g] = CT[g]
    BY <1>3 DEF TypeOK
  <2>2. InUse' = InUse \cup {c} /\ c \notin InUse
    BY <1>3 DEF InUse
  <2>3. \A d \in InUse' : ctx'[d].flow \in Flows
    BY <1>1, <2>2 DEF PoolAgrees, InUse
  <2>4. ASSUME NEW d \in Ctxs, NEW g \in Flows
        PROVE  CT'[g] = d <=> (d \in InUse' /\ ctx'[d].flow = g)
    <3>1. CT[g] = d <=> (d \in InUse /\ ctx[d].flow = g)
      BY DEF PoolAgrees
    <3>2. CASE g = f /\ d # c
      BY <1>1, <1>3, <2>1, <2>2, <3>1, <3>2, ConnSchedAssumption
    <3>3. CASE g = f /\ d = c
      BY <1>1, <2>1, <2>2, <3>3
    <3>4. CASE g # f
      BY <1>1, <2>1, <2>2, <3>1, <3>4
    <3>5. QED
      BY <3>2, <3>3, <3>4
  <2>5. QED
    BY <1>1, <2>3, <2>4 DEF PoolAgrees
<1>4. QED
  BY <1>2, <1>3, LookupProperties

(* A packet that is only forwarded keeps the invariant.                     *)
LEMMA PacketForwardedInv ==
  ASSUME Agreement, TypeOK', NEW f \in Flows, NEW c \in Ctxs, NEW p \in Priorities,
         PacketForwarded(f, c, p)
  PROVE  Agreement'
<1> DEFINE R == Counted(f, c, p)
<1>1. TypeOK /\ SchedulerOff /\ PoolAgrees /\ QueuesAgree /\ WatchersAgree
      /\ BudgetAgrees /\ PressureAgrees
  BY DEF Agreement
<1>2. Lookup(f, c, p) /\ ctx' = [ctx EXCEPT ![c] = R]
      /\ UNCHANGED <<buckets, maxEntry, hwCongested, due, round, weight, CT_NUM, hw,
                     late, returned>>
  BY DEF PacketForwarded, qosVars, history
<1>3. R \in Context /\ R.flow = f /\ R.priority = p
      /\ (R.timer <=> R.ct_state # HW_FWD)
      /\ \/ /\ CT[f] = c /\ c \in InUse
            /\ POOL' = POOL /\ CT' = CT
            /\ R.ct_state = ctx[c].ct_state
            /\ R.entry = ctx[c].entry
            /\ ctx[c].priority = p
         \/ /\ CT[f] = NULL /\ c \in POOL
            /\ POOL' = POOL \ {c} /\ CT' = [CT EXCEPT ![f] = c]
            /\ R.ct_state = SW_FWD
      /\ POOL' \subseteq Ctxs
      /\ CT' \in [Flows -> Ctxs \cup {NULL}]
      /\ c \notin POOL'
  BY <1>1, <1>2, LookupProperties
<1> HIDE DEF R
<1>4. PoolAgrees' /\ ctx' \in [Ctxs -> Context]
  BY <1>1, <1>2, <1>3, PacketPool
<1>5. Installed' = Installed /\ Held' = Held /\ hw' = hw /\ late' = late
  BY <1>2 DEF Installed, Held
<1>6. ctx'[c] = R /\ \A d \in Ctxs \ {c} : ctx'[d] = ctx[d]
  BY <1>1, <1>2 DEF TypeOK
<1>7. InUse' = InUse \cup {c} /\ InUse \subseteq Ctxs
  BY <1>3 DEF InUse
<1>8. QueuesAgree'
  <2>1. \A d \in InUse : Queued(d) => ctx'[d].ct_state = ctx[d].ct_state
                                    /\ ctx'[d].priority = ctx[d].priority
    BY <1>3, <1>6, <1>7 DEF InUse
  <2>2. \A d : Queued(d)' <=> Queued(d)
    BY <1>2 DEF Queued
  <2>3. \A d \in InUse' : ctx'[d].ct_state = FLOW_QOS => Queued(d)
    BY <1>1, <1>3, <1>6, <1>7 DEF QueuesAgree, SW_FWD, FLOW_QOS
  <2>4. QED
    BY <1>1, <1>2, <1>7, <2>1, <2>2, <2>3 DEF QueuesAgree, Queued
<1>9. WatchersAgree'
  <2>1. \A d \in InUse' : ctx'[d].timer <=> ctx'[d].ct_state # HW_FWD
    BY <1>1, <1>3, <1>6, <1>7 DEF WatchersAgree
  <2>2. \A d \in InUse' : ctx'[d].ct_state = HW_FWD =>
           ctx'[d].entry \in HwSlots \ late /\ hw[ctx'[d].entry] = d
    BY <1>1, <1>3, <1>6, <1>7 DEF WatchersAgree, SW_FWD, HW_FWD
  <2>3. \A s \in Installed : hw[s] \in InUse /\ hw[s] \in InUse'
    BY <1>1, <1>7 DEF WatchersAgree
  <2>4. \A s \in Held :
          /\ ctx'[hw[s]].ct_state = HW_FWD
          /\ ctx'[hw[s]].entry = s
    BY <1>1, <1>3, <1>6, <1>7, <2>3 DEF WatchersAgree, InUse, Held
  <2>5. \A d \in POOL' : ~ctx'[d].timer
    BY <1>1, <1>3, <1>6 DEF WatchersAgree, TypeOK
  <2>6. late \subseteq Installed
    BY <1>1 DEF WatchersAgree
  <2>7. QED
    BY <1>5, <2>1, <2>2, <2>3, <2>4, <2>5, <2>6 DEF WatchersAgree
<1>10. SchedulerOff' /\ BudgetAgrees' /\ PressureAgrees'
  BY <1>1, <1>2, <1>5 DEF SchedulerOff, BudgetAgrees, PressureAgrees, Occupied
<1>11. QED
  BY <1>4, <1>8, <1>9, <1>10 DEF Agreement

(* A packet that queues its connection keeps the invariant.                 *)
LEMMA PacketEnqueuesInv ==
  ASSUME Agreement, TypeOK', NEW f \in Flows, NEW c \in Ctxs, NEW p \in Priorities,
         PacketEnqueues(f, c, p)
  PROVE  Agreement'
<1> DEFINE R == Counted(f, c, p)
<1> DEFINE Q == [R EXCEPT !.ct_state = FLOW_QOS]
<1>1. TypeOK /\ SchedulerOff /\ PoolAgrees /\ QueuesAgree /\ WatchersAgree
      /\ BudgetAgrees /\ PressureAgrees
  BY DEF Agreement
<1>2. Lookup(f, c, p) /\ ctx' = [ctx EXCEPT ![c] = Q]
      /\ R.ct_state = SW_FWD
      /\ buckets' = [buckets EXCEPT ![p] = Append(@, c)]
      /\ UNCHANGED <<maxEntry, hwCongested, due, round, weight, CT_NUM, hw,
                     late, returned>>
  BY DEF PacketEnqueues, qosVars, history, AddEntryEvent, MayOffload
<1>3. R \in Context /\ R.flow = f /\ R.priority = p /\ R.timer
      /\ \/ /\ c \in InUse /\ POOL' = POOL
            /\ ctx[c].ct_state = SW_FWD
         \/ /\ c \in POOL /\ POOL' = POOL \ {c}
      /\ POOL' \subseteq Ctxs
      /\ CT' \in [Flows -> Ctxs \cup {NULL}]
      /\ c \notin POOL'
  BY <1>1, <1>2, LookupProperties DEF SW_FWD, HW_FWD
<1>4. Q \in Context /\ Q.flow = f /\ Q.priority = p /\ Q.timer
      /\ Q.ct_state = FLOW_QOS
  BY <1>3 DEF Context
<1> HIDE DEF R, Q
<1>5. PoolAgrees' /\ ctx' \in [Ctxs -> Context]
  BY <1>1, <1>2, <1>4, PacketPool
<1>6. buckets'[p] = Append(buckets[p], c)
      /\ (\A i \in Priorities \ {p} : buckets'[i] = buckets[i])
      /\ buckets' \in [Priorities -> Seq(Ctxs)]
      /\ buckets[p] \in Seq(Ctxs)
  BY <1>1, <1>2 DEF TypeOK
<1>7. Installed' = Installed /\ Held' = Held /\ hw' = hw /\ late' = late
  BY <1>2 DEF Installed, Held
<1>8. ctx'[c] = Q /\ \A d \in Ctxs \ {c} : ctx'[d] = ctx[d]
  BY <1>1, <1>2 DEF TypeOK
<1>9. InUse' = InUse \cup {c} /\ InUse \subseteq Ctxs
  BY <1>3 DEF InUse
<1>10. QueuesAgree'
  <2>1. \A i \in Priorities : \A k \in DOMAIN buckets[i] :
          buckets[i][k] # c /\ buckets[i][k] \in InUse
    BY <1>1, <1>3 DEF QueuesAgree, InUse, SW_FWD, FLOW_QOS
  <2>2. DOMAIN buckets'[p] = 1 .. Len(buckets[p]) + 1
        /\ DOMAIN buckets[p] = 1 .. Len(buckets[p])
        /\ buckets'[p][Len(buckets[p]) + 1] = c
        /\ \A k \in 1 .. Len(buckets[p]) : buckets'[p][k] = buckets[p][k]
    BY <1>6
  <2>3. ASSUME NEW i \in Priorities, NEW k \in DOMAIN buckets'[i]
        PROVE  /\ buckets'[i][k] \in InUse'
               /\ ctx'[buckets'[i][k]].ct_state = FLOW_QOS
               /\ ctx'[buckets'[i][k]].priority = i
               /\ \A l \in DOMAIN buckets'[i] :
                    buckets'[i][l] = buckets'[i][k] => l = k
    <3>1. CASE i # p
      BY <1>1, <1>6, <1>8, <1>9, <2>1, <3>1 DEF QueuesAgree
    <3>2. CASE i = p /\ k = Len(buckets[p]) + 1
      BY <1>4, <1>8, <1>9, <2>1, <2>2, <3>2
    <3>3. CASE i = p /\ k # Len(buckets[p]) + 1
      <4>1. k \in DOMAIN buckets[p] /\ buckets'[i][k] = buckets[p][k]
        BY <1>6, <2>2, <3>3
      <4>2. QED
        BY <1>1, <1>8, <1>9, <2>1, <2>2, <3>3, <4>1 DEF QueuesAgree
    <3>4. QED
      BY <3>1, <3>2, <3>3
  <2>4. ASSUME NEW d \in InUse', ctx'[d].ct_state = FLOW_QOS
        PROVE  Queued(d)'
    <3>1. CASE d = c
      BY <1>6, <2>2, <3>1 DEF Queued
    <3>2. CASE d # c
      <4>1. PICK i \in Priorities :
              \E k \in DOMAIN buckets[i] : buckets[i][k] = d
        BY <1>1, <1>8, <1>9, <2>4, <3>2 DEF QueuesAgree, Queued
      <4>2. PICK k \in DOMAIN buckets[i] : buckets[i][k] = d
        BY <4>1
      <4>3. k \in DOMAIN buckets'[i] /\ buckets'[i][k] = d
        BY <1>6, <2>2, <4>2
      <4>4. QED
        BY <4>3 DEF Queued
    <3>3. QED
      BY <3>1, <3>2
  <2>5. QED
    BY <2>3, <2>4 DEF QueuesAgree
<1>11. WatchersAgree'
  <2>1. \A d \in InUse' : ctx'[d].timer <=> ctx'[d].ct_state # HW_FWD
    BY <1>1, <1>4, <1>8, <1>9 DEF WatchersAgree, FLOW_QOS, HW_FWD
  <2>2. \A d \in InUse' : ctx'[d].ct_state = HW_FWD =>
           ctx'[d].entry \in HwSlots \ late /\ hw[ctx'[d].entry] = d
    BY <1>1, <1>4, <1>8, <1>9 DEF WatchersAgree, FLOW_QOS, HW_FWD
  <2>3. \A s \in Installed : hw[s] \in InUse /\ hw[s] \in InUse'
    BY <1>1, <1>9 DEF WatchersAgree
  <2>4. \A s \in Held :
          /\ ctx'[hw[s]].ct_state = HW_FWD
          /\ ctx'[hw[s]].entry = s
    BY <1>1, <1>3, <1>8, <1>9, <2>3 DEF WatchersAgree, InUse, Held, SW_FWD, HW_FWD
  <2>5. \A d \in POOL' : ~ctx'[d].timer
    <3>1. \A d \in POOL' : d \in POOL /\ d \in Ctxs \ {c}
      BY <1>3
    <3>2. QED
      BY <1>1, <1>8, <3>1 DEF WatchersAgree
  <2>6. late \subseteq Installed
    BY <1>1 DEF WatchersAgree
  <2>7. QED
    BY <1>7, <2>1, <2>2, <2>3, <2>4, <2>5, <2>6 DEF WatchersAgree
<1>12. SchedulerOff' /\ BudgetAgrees' /\ PressureAgrees'
  BY <1>1, <1>2, <1>7
     DEF PacketEnqueues, SchedulerOff, BudgetAgrees, PressureAgrees, Occupied
<1>13. QED
  BY <1>5, <1>10, <1>11, <1>12 DEF Agreement

(* The place doca-flow chose for a new entry was free.                      *)
LEMMA InstallProperties ==
  ASSUME TypeOK, NEW c \in Ctxs, NEW h \in HwSlots, hw[h] = NULL,
         hw' = [hw EXCEPT ![h] = c]
  PROVE  /\ hw'[h] = c /\ \A s \in HwSlots \ {h} : hw'[s] = hw[s]
         /\ Installed' = Installed \cup {h} /\ h \notin Installed
         /\ Installed \subseteq HwSlots
<1>1. hw'[h] = c /\ \A s \in HwSlots \ {h} : hw'[s] = hw[s]
  BY DEF TypeOK
<1>2. QED
  BY <1>1, ConnSchedAssumption DEF Installed

(* One entry more ...                                                       *)
LEMMA HeldAdded ==
  ASSUME NEW h \in HwSlots, h \notin Held, Held' = Held \cup {h}
  PROVE  /\ Cardinality(Held) \in Nat
         /\ Cardinality(Held') = Cardinality(Held) + 1
<1>1. IsFiniteSet(Held)
  BY ConnSchedAssumption, FS_Subset DEF Held, Installed
<1>2. QED
  BY <1>1, FS_AddElement, FS_CardinalityType

(* ... and one less.                                                        *)
LEMMA HeldRemoved ==
  ASSUME NEW h \in Held, Held' = Held \ {h}
  PROVE  /\ Cardinality(Held') \in Nat
         /\ Cardinality(Held) = Cardinality(Held') + 1
<1>1. IsFiniteSet(Held) /\ IsFiniteSet(Held')
  BY ConnSchedAssumption, FS_Subset DEF Held, Installed
<1>2. Cardinality(Held') = Cardinality(Held) - 1
      /\ Cardinality(Held) \in Nat /\ Cardinality(Held') \in Nat
  BY <1>1, FS_RemoveElement, FS_CardinalityType
<1>3. QED
  BY <1>2

(* An entry the caller does not learn of, or none: what it believes to hold *)
(* is what it held before.                                                  *)
LEMMA InstallStaysLate ==
  ASSUME TypeOK, late \subseteq Installed,
         NEW c \in Ctxs, NEW o \in Outcomes, o # "done", NEW h \in Handles(o),
         hw' = Install(h, c),
         late' = (IF o = "late" THEN late \cup {h} ELSE late),
         c \in InUse', InUse \subseteq InUse', \A s \in Installed : hw[s] \in InUse
  PROVE  /\ Held' = Held /\ Held \subseteq HwSlots
         /\ late' \subseteq Installed'
         /\ \A s \in Installed' : hw'[s] \in InUse'
         /\ \A s \in Installed : hw'[s] = hw[s] /\ s \notin late' \ late
<1>1. CASE o = "refused"
  <2>1. hw' = hw /\ late' = late
    BY <1>1 DEF Handles, Install
  <2> QED
    BY <2>1 DEF Held, Installed
<1>2. CASE o = "late"
  <2>1. h \in HwSlots /\ hw[h] = NULL /\ hw' = [hw EXCEPT ![h] = c]
        /\ late' = late \cup {h}
    BY <1>2, HandleType DEF Install
  <2>2. /\ hw'[h] = c /\ \A s \in HwSlots \ {h} : hw'[s] = hw[s]
        /\ Installed' = Installed \cup {h} /\ h \notin Installed
        /\ Installed \subseteq HwSlots
    BY <2>1, InstallProperties
  <2> QED
    BY <2>1, <2>2 DEF Held
<1> QED
  BY <1>1, <1>2, ConnSchedAssumption

(* A packet that offloads its connection at once keeps the invariant.       *)
LEMMA PacketOffloadsInv ==
  ASSUME Agreement, TypeOK',
         NEW f \in Flows, NEW c \in Ctxs, NEW p \in Priorities,
         NEW o \in Outcomes, NEW h \in Handles(o),
         PacketOffloads(f, c, p, o, h)
  PROVE  Agreement'
<1> DEFINE R == Counted(f, c, p)
<1>1. TypeOK /\ SchedulerOff /\ PoolAgrees /\ QueuesAgree /\ WatchersAgree
      /\ BudgetAgrees /\ PressureAgrees
  BY DEF Agreement
<1>2. Lookup(f, c, p) /\ R.ct_state = SW_FWD /\ ~ENABLE_FLOWQOS
      /\ CT_NUM > 0 /\ hw' = Install(h, c)
      /\ late' = (IF o = "late" THEN late \cup {h} ELSE late)
      /\ UNCHANGED <<buckets, maxEntry, hwCongested, due, round, weight, returned>>
  BY DEF PacketOffloads, qosVars, MayOffload, BudgetLeft, NoteLate
<1>3. R \in Context /\ R.flow = f /\ R.priority = p /\ R.timer
      /\ \/ /\ c \in InUse /\ POOL' = POOL
            /\ ctx[c].ct_state = SW_FWD
         \/ /\ c \in POOL /\ POOL' = POOL \ {c}
      /\ c \notin POOL'
  BY <1>1, <1>2, LookupProperties DEF SW_FWD, HW_FWD
<1>4. InUse' = InUse \cup {c} /\ InUse \subseteq Ctxs
      /\ \A d \in POOL' : d \in POOL /\ d \in Ctxs \ {c}
  BY <1>1, <1>3 DEF InUse, TypeOK
<1>5. \A d : Queued(d)' <=> Queued(d)
  BY <1>2 DEF Queued
<1>6. \A i \in Priorities : \A k \in DOMAIN buckets[i] :
        buckets[i][k] # c /\ buckets[i][k] \in InUse
  BY <1>1, <1>3 DEF QueuesAgree, InUse, SW_FWD, FLOW_QOS
<1>7. /\ \A s \in Installed : hw[s] \in InUse
      /\ \A s \in Held : hw[s] # c
  BY <1>1, <1>3 DEF WatchersAgree, InUse, Held, SW_FWD, HW_FWD
<1>8. SchedulerOff' /\ PressureAgrees'
  BY <1>1, <1>2 DEF SchedulerOff, PressureAgrees, Occupied
<1>9. CASE o = "done"
  <2> DEFINE Q == Offloaded(R, h)
  <2>1. ctx' = [ctx EXCEPT ![c] = Q] /\ CT_NUM' = CT_NUM - 1 /\ late' = late
    BY <1>2, <1>9 DEF PacketOffloads
  <2>2. h \in HwSlots /\ hw[h] = NULL /\ hw' = [hw EXCEPT ![h] = c]
    BY <1>1, <1>2, <1>9, HandleType DEF Install
  <2>3. /\ hw'[h] = c /\ \A s \in HwSlots \ {h} : hw'[s] = hw[s]
        /\ Installed' = Installed \cup {h} /\ h \notin Installed
        /\ Installed \subseteq HwSlots
    BY <1>1, <2>2, InstallProperties
  <2>4. Held' = Held \cup {h} /\ h \notin Held /\ h \notin late
        /\ late \subseteq Installed
    BY <1>1, <2>1, <2>3 DEF Held, WatchersAgree
  <2>5. Q \in Context /\ Q.flow = f /\ Q.timer = FALSE
        /\ Q.ct_state = HW_FWD /\ Q.entry = h
    BY <1>3, <2>2 DEF Context, Offloaded
  <2> HIDE DEF Q, R
  <2>6. PoolAgrees'
    BY <1>1, <1>2, <2>1, <2>5, PacketPool
  <2>7. ctx'[c] = Q /\ \A d \in Ctxs \ {c} : ctx'[d] = ctx[d]
    BY <1>1, <2>1 DEF TypeOK
  <2>8. QueuesAgree'
    BY <1>1, <1>2, <1>4, <1>5, <1>6, <2>5, <2>7
       DEF QueuesAgree, FLOW_QOS, HW_FWD
  <2>9. WatchersAgree'
    <3>1. \A d \in InUse' : ctx'[d].timer <=> ctx'[d].ct_state # HW_FWD
      BY <1>1, <1>4, <2>5, <2>7 DEF WatchersAgree
    <3>2. \A d \in InUse' : ctx'[d].ct_state = HW_FWD =>
             ctx'[d].entry \in HwSlots \ late /\ hw'[ctx'[d].entry] = d
      BY <1>1, <1>4, <2>2, <2>3, <2>4, <2>5, <2>7, ConnSchedAssumption DEF WatchersAgree
    <3>3. \A s \in Installed' : hw'[s] \in InUse'
      BY <1>4, <1>7, <2>3
    <3>4. \A s \in Held' :
            /\ ctx'[hw'[s]].ct_state = HW_FWD
            /\ ctx'[hw'[s]].entry = s
      <4>1. ASSUME NEW s \in Held
            PROVE  /\ ctx'[hw'[s]].ct_state = HW_FWD
                   /\ ctx'[hw'[s]].entry = s
        <5>1. hw'[s] = hw[s] /\ hw[s] \in Ctxs \ {c}
          BY <1>4, <1>7, <2>3, <2>4 DEF Held
        <5> QED
          BY <1>1, <2>7, <5>1 DEF WatchersAgree
      <4> QED
        BY <2>3, <2>4, <2>5, <2>7, <4>1
    <3>5. \A d \in POOL' : ~ctx'[d].timer
      BY <1>1, <1>4, <2>7 DEF WatchersAgree
    <3>6. QED
      BY <2>1, <2>3, <2>4, <3>1, <3>2, <3>3, <3>4, <3>5 DEF WatchersAgree
  <2>10. BudgetAgrees'
    <3>1. /\ Cardinality(Held) \in Nat
          /\ Cardinality(Held') = Cardinality(Held) + 1
      BY <2>2, <2>4, HeldAdded
    <3>2. QED
      BY <1>1, <1>2, <2>1, <3>1, ConnSchedAssumption DEF BudgetAgrees, TypeOK
  <2>11. QED
    BY <1>8, <2>6, <2>8, <2>9, <2>10 DEF Agreement
<1>10. CASE o # "done"
  <2> DEFINE Q == [R EXCEPT !.entry = h]
  <2>1. ctx' = [ctx EXCEPT ![c] = Q] /\ CT_NUM' = CT_NUM
    BY <1>10 DEF PacketOffloads
  <2>2. Q \in Context /\ Q.flow = f /\ Q.timer /\ Q.ct_state = SW_FWD
    BY <1>1, <1>2, <1>3, HandleType DEF Context
  <2> HIDE DEF Q, R
  <2>3. PoolAgrees'
    BY <1>1, <1>2, <2>1, <2>2, PacketPool
  <2>4. ctx'[c] = Q /\ \A d \in Ctxs \ {c} : ctx'[d] = ctx[d]
    BY <1>1, <2>1 DEF TypeOK
  <2>5. QueuesAgree'
    BY <1>1, <1>2, <1>4, <1>5, <1>6, <2>2, <2>4
       DEF QueuesAgree, FLOW_QOS, SW_FWD
  <2>6. /\ Held' = Held /\ Held \subseteq HwSlots
        /\ late' \subseteq Installed'
        /\ \A s \in Installed' : hw'[s] \in InUse'
        /\ \A s \in Installed : hw'[s] = hw[s] /\ s \notin late' \ late
    <3>1. late \subseteq Installed /\ c \in InUse' /\ InUse \subseteq InUse'
      BY <1>1, <1>4 DEF WatchersAgree
    <3>2. hw' = Install(h, c) /\ late' = (IF o = "late" THEN late \cup {h} ELSE late)
          /\ TypeOK /\ \A s \in Installed : hw[s] \in InUse
      BY <1>1, <1>2, <1>7
    <3> QED
      BY <1>10, <3>1, <3>2, InstallStaysLate
  <2>7. WatchersAgree'
    <3>1. \A d \in InUse' : ctx'[d].timer <=> ctx'[d].ct_state # HW_FWD
      BY <1>1, <1>4, <2>2, <2>4 DEF WatchersAgree, SW_FWD, HW_FWD
    <3>2. \A d \in InUse' : ctx'[d].ct_state = HW_FWD =>
             ctx'[d].entry \in HwSlots \ late' /\ hw'[ctx'[d].entry] = d
      <4>1. ASSUME NEW d \in InUse', ctx'[d].ct_state = HW_FWD
            PROVE  ctx'[d].entry \in HwSlots \ late' /\ hw'[ctx'[d].entry] = d
        <5>1. d \in InUse /\ ctx'[d] = ctx[d]
          BY <1>4, <2>2, <2>4, <4>1 DEF SW_FWD, HW_FWD
        <5>2. ctx[d].entry \in Held /\ hw[ctx[d].entry] = d
          BY <1>1, <1>4, <4>1, <5>1, ConnSchedAssumption DEF WatchersAgree, Held, Installed
        <5> QED
          BY <2>6, <5>1, <5>2 DEF Held
      <4> QED
        BY <4>1
    <3>3. \A s \in Held' :
            /\ ctx'[hw'[s]].ct_state = HW_FWD
            /\ ctx'[hw'[s]].entry = s
      <4>1. ASSUME NEW s \in Held
            PROVE  /\ ctx'[hw'[s]].ct_state = HW_FWD
                   /\ ctx'[hw'[s]].entry = s
        <5>1. hw'[s] = hw[s] /\ hw[s] \in Ctxs \ {c}
          BY <1>4, <1>7, <2>6 DEF Held
        <5> QED
          BY <1>1, <2>4, <5>1 DEF WatchersAgree
      <4> QED
        BY <2>6, <4>1
    <3>4. \A d \in POOL' : ~ctx'[d].timer
      BY <1>1, <1>4, <2>4 DEF WatchersAgree
    <3>5. QED
      BY <2>6, <3>1, <3>2, <3>3, <3>4 DEF WatchersAgree
  <2>8. BudgetAgrees'
    BY <1>1, <1>2, <2>1, <2>6 DEF BudgetAgrees
  <2>9. QED
    BY <1>8, <2>3, <2>5, <2>7, <2>8 DEF Agreement
<1>11. QED
  BY <1>9, <1>10

(* The context of a connection goes back to the pool, its key leaves the    *)
(* table, and nothing else does.                                            *)
LEMMA DelConnPool ==
  ASSUME TypeOK, PoolAgrees, NEW c \in InUse, DelConn(c),
         ctx' \in [Ctxs -> Context],
         \A d \in Ctxs : ctx'[d].flow = ctx[d].flow
  PROVE  /\ PoolAgrees'
         /\ CT' \in [Flows -> Ctxs \cup {NULL}]
         /\ POOL' = POOL \cup {c} /\ POOL' \subseteq Ctxs
         /\ InUse' = InUse \ {c}
<1>1. c \in Ctxs /\ ctx[c].flow \in Flows
  BY DEF PoolAgrees, InUse
<1> DEFINE f == ctx[c].flow
<1>2. CT' = [CT EXCEPT ![f] = NULL] /\ POOL' = POOL \cup {c}
  BY DEF DelConn
<1>3. CT'[f] = NULL /\ (\A g \in Flows \ {f} : CT'[g] = CT[g])
      /\ CT' \in [Flows -> Ctxs \cup {NULL}]
  BY <1>1, <1>2 DEF TypeOK
<1>4. InUse' = InUse \ {c} /\ POOL' \subseteq Ctxs /\ InUse \subseteq Ctxs
  BY <1>1, <1>2 DEF InUse, TypeOK
<1>5. \A d \in InUse' : ctx'[d].flow \in Flows
  BY <1>4 DEF PoolAgrees
<1>6. ASSUME NEW d \in Ctxs, NEW g \in Flows
      PROVE  CT'[g] = d <=> (d \in InUse' /\ ctx'[d].flow = g)
  <2>1. CT[g] = d <=> (d \in InUse /\ ctx[d].flow = g)
    BY DEF PoolAgrees
  <2>2. CT[f] = c
    BY <1>1 DEF PoolAgrees
  <2>3. CASE g = f
    BY <1>3, <1>4, <2>1, <2>2, <2>3, ConnSchedAssumption
  <2>4. CASE g # f
    BY <1>3, <1>4, <2>1, <2>4
  <2>5. QED
    BY <2>3, <2>4
<1>7. QED
  BY <1>2, <1>3, <1>4, <1>5, <1>6 DEF PoolAgrees

(* The expiry of a software timer keeps the invariant.                      *)
LEMMA SwExpireInv ==
  ASSUME Agreement, TypeOK', ~torn', NEW c \in Ctxs, SwExpire(c)
  PROVE  Agreement'
<1>1. TypeOK /\ SchedulerOff /\ PoolAgrees /\ QueuesAgree /\ WatchersAgree
      /\ BudgetAgrees /\ PressureAgrees
  BY DEF Agreement
<1>2. /\ ctx[c].timer /\ DelConn(c) /\ ctx' = [ctx EXCEPT ![c].timer = FALSE]
      /\ SwDequeue(c) /\ \A s \in late : hw[s] # c
      /\ UNCHANGED <<maxEntry, hwCongested, due, round, weight, CT_NUM, hw,
                     late, returned>>
  BY DEF SwExpire, qosVars, NoteEnd
<1>3. c \in InUse /\ ctx[c].ct_state # HW_FWD /\ ctx[c] \in Context
  BY <1>1, <1>2 DEF WatchersAgree, InUse, TypeOK
<1>4. /\ ctx' \in [Ctxs -> Context]
      /\ \A d \in Ctxs \ {c} : ctx'[d] = ctx[d]
      /\ ctx'[c].flow = ctx[c].flow
      /\ ctx'[c].timer = FALSE
  BY <1>1, <1>2, <1>3 DEF TypeOK, Context
<1>5. /\ PoolAgrees'
      /\ CT' \in [Flows -> Ctxs \cup {NULL}]
      /\ POOL' = POOL \cup {c} /\ POOL' \subseteq Ctxs
      /\ InUse' = InUse \ {c}
  BY <1>1, <1>2, <1>3, <1>4, DelConnPool
<1>6. InUse \subseteq Ctxs /\ \A s \in Installed : hw[s] \in InUse /\ hw[s] # c
  BY <1>1, <1>2, <1>3 DEF WatchersAgree, InUse, Held
<1>7. WatchersAgree'
  <2>1. Installed' = Installed /\ Held' = Held /\ hw' = hw /\ late' = late
        /\ Held \subseteq Installed
    BY <1>2 DEF Installed, Held
  <2>2. \A d \in POOL' : ~ctx'[d].timer
    BY <1>1, <1>4, <1>5 DEF WatchersAgree
  <2>3. \A d \in InUse' : ctx'[d] = ctx[d] /\ d \in InUse
    BY <1>4, <1>5, <1>6
  <2>4. \A s \in Installed' : hw'[s] \in InUse' /\ ctx'[hw'[s]] = ctx[hw[s]]
    BY <1>4, <1>5, <1>6, <2>1
  <2>5. QED
    BY <1>1, <2>1, <2>2, <2>3, <2>4 DEF WatchersAgree
<1>8. BudgetAgrees' /\ PressureAgrees'
  BY <1>1, <1>2 DEF BudgetAgrees, Held, Installed, PressureAgrees, Occupied
<1>9. ctx[c].ct_state = FLOW_QOS => ENABLE_FLOWQOS
  BY <1>1, <1>3 DEF SchedulerOff, QueuesAgree, Queued
<1>10. CASE ctx[c].ct_state # FLOW_QOS
  <2>1. buckets' = buckets
    BY <1>2, <1>10 DEF SwDequeue
  <2>2. \A i \in Priorities : \A k \in DOMAIN buckets[i] :
          buckets[i][k] # c /\ buckets[i][k] \in InUse
    BY <1>1, <1>10 DEF QueuesAgree
  <2>3. \A d : Queued(d)' <=> Queued(d)
    BY <2>1 DEF Queued
  <2>4. QueuesAgree'
    BY <1>1, <1>4, <1>5, <1>6, <2>1, <2>2, <2>3 DEF QueuesAgree
  <2>5. SchedulerOff'
    BY <1>1, <1>2, <2>1 DEF SchedulerOff
  <2>6. QED
    BY <1>5, <1>7, <1>8, <2>4, <2>5 DEF Agreement
<1>11. CASE ctx[c].ct_state = FLOW_QOS
  <2> DEFINE p == ctx[c].priority
  <2>1. p \in Priorities
    BY <1>3 DEF Context
  <2>2. PICK k \in DOMAIN buckets[p] :
          buckets[p][k] = c /\ buckets' = [buckets EXCEPT ![p] = RemoveNth(@, k)]
    BY <1>2, <1>9, <1>11 DEF SwDequeue, DelEntryEvent
  <2> DEFINE q == buckets[p]
  <2>3. q \in Seq(Ctxs) /\ k \in 1 .. Len(q) /\ DOMAIN q = 1 .. Len(q)
    <3>1. buckets \in [Priorities -> Seq(Ctxs)]
      BY <1>1 DEF TypeOK
    <3>2. q \in Seq(Ctxs)
      BY <2>1, <3>1
    <3>3. k \in DOMAIN q
      BY <2>2
    <3> HIDE DEF q
    <3> QED
      BY <3>2, <3>3
  <2>4. /\ RemoveNth(q, k) \in Seq(Ctxs)
        /\ Len(RemoveNth(q, k)) = Len(q) - 1
        /\ \A i \in 1 .. Len(q) - 1 :
             RemoveNth(q, k)[i] = IF i < k THEN q[i] ELSE q[i + 1]
    BY <2>3, RemoveNthProperties
  <2>5. /\ buckets' \in [Priorities -> Seq(Ctxs)]
        /\ buckets'[p] = RemoveNth(q, k)
        /\ \A i \in Priorities \ {p} : buckets'[i] = buckets[i]
    BY <1>1, <2>1, <2>2, <2>4 DEF TypeOK
  <2>6. SchedulerOff'
    BY <1>9, <1>11 DEF SchedulerOff
  <2>7. DOMAIN buckets'[p] = 1 .. Len(q) - 1
    BY <2>4, <2>5
  <2>8. \A j \in DOMAIN q : j # k => q[j] # c
    BY <1>1, <2>1, <2>2 DEF QueuesAgree
  <2> HIDE DEF q
  <2>9. ASSUME NEW i \in Priorities, NEW l \in DOMAIN buckets'[i]
        PROVE  /\ buckets'[i][l] \in InUse'
               /\ ctx'[buckets'[i][l]].ct_state = FLOW_QOS
               /\ ctx'[buckets'[i][l]].priority = i
               /\ \A m \in DOMAIN buckets'[i] :
                    buckets'[i][m] = buckets'[i][l] => m = l
    <3>1. CASE i # p
      <4>1. buckets'[i] = buckets[i] /\ buckets[i][l] # c
        BY <1>1, <2>5, <2>9, <3>1 DEF QueuesAgree
      <4>2. QED
        BY <1>1, <1>4, <1>5, <1>6, <2>9, <4>1 DEF QueuesAgree
    <3>2. CASE i = p
      <4> DEFINE at(m) == IF m < k THEN m ELSE m + 1
      <4>1. \A m \in 1 .. Len(q) - 1 :
              at(m) \in DOMAIN q /\ at(m) # k /\ buckets'[p][m] = q[at(m)]
        BY <2>3, <2>4, <2>5
      <4>2. \A m, n \in 1 .. Len(q) - 1 : at(m) = at(n) => m = n
        BY <2>3
      <4> HIDE DEF at
      <4>3. l \in 1 .. Len(q) - 1
        BY <2>7, <3>2
      <4>4. /\ q[at(l)] \in InUse /\ q[at(l)] # c
            /\ ctx[q[at(l)]].ct_state = FLOW_QOS
            /\ ctx[q[at(l)]].priority = p
            /\ \A j \in DOMAIN q : q[j] = q[at(l)] => j = at(l)
        BY <1>1, <2>1, <2>8, <4>1, <4>3 DEF QueuesAgree, q
      <4>5. buckets'[i][l] = q[at(l)]
        BY <3>2, <4>1, <4>3
      <4>6. /\ buckets'[i][l] \in InUse'
            /\ ctx'[buckets'[i][l]].ct_state = FLOW_QOS
            /\ ctx'[buckets'[i][l]].priority = i
        BY <1>4, <1>5, <1>6, <3>2, <4>4, <4>5
      <4>7. ASSUME NEW m \in DOMAIN buckets'[i], buckets'[i][m] = buckets'[i][l]
            PROVE  m = l
        <5>1. m \in 1 .. Len(q) - 1
          BY <2>7, <3>2
        <5>2. at(m) \in DOMAIN q /\ q[at(m)] = q[at(l)]
          BY <3>2, <4>1, <4>5, <4>7, <5>1
        <5>3. QED
          BY <4>2, <4>3, <4>4, <5>1, <5>2
      <4>8. QED
        BY <4>6, <4>7
    <3>3. QED
      BY <3>1, <3>2
  <2>10. ASSUME NEW d \in InUse', ctx'[d].ct_state = FLOW_QOS
         PROVE  Queued(d)'
    <3>1. d # c /\ d \in InUse /\ ctx[d].ct_state = FLOW_QOS
      BY <1>4, <1>5, <1>6, <2>10
    <3>2. PICK i \in Priorities : \E l \in DOMAIN buckets[i] : buckets[i][l] = d
      BY <1>1, <3>1 DEF QueuesAgree, Queued
    <3>3. PICK l \in DOMAIN buckets[i] : buckets[i][l] = d
      BY <3>2
    <3>4. CASE i # p
      BY <2>5, <3>3, <3>4 DEF Queued
    <3>5. CASE i = p
      <4>1. l \in 1 .. Len(q) /\ l # k /\ q[l] = d
        BY <2>2, <2>3, <3>1, <3>3, <3>5 DEF q
      <4>2. CASE l < k
        <5>1. l \in 1 .. Len(q) - 1 /\ buckets'[p][l] = d
          BY <2>3, <2>4, <2>5, <4>1, <4>2
        <5>2. QED
          BY <2>1, <2>7, <5>1 DEF Queued
      <4>3. CASE l > k
        <5>1. l - 1 \in 1 .. Len(q) - 1 /\ buckets'[p][l - 1] = d
          BY <2>3, <2>4, <2>5, <4>1, <4>3
        <5>2. QED
          BY <2>1, <2>7, <5>1 DEF Queued
      <4>4. QED
        BY <2>3, <4>1, <4>2, <4>3
    <3>6. QED
      BY <3>4, <3>5
  <2>11. QueuesAgree'
    BY <2>9, <2>10 DEF QueuesAgree
  <2>12. QED
    BY <1>5, <1>7, <1>8, <2>6, <2>11 DEF Agreement
<1>12. QED
  BY <1>10, <1>11

(* The ageing of a hardware entry keeps the invariant.                      *)
LEMMA HwExpireInv ==
  ASSUME Agreement, TypeOK', ~torn', NEW s \in HwSlots, HwExpire(s)
  PROVE  Agreement'
<1> DEFINE c == hw[s]
<1>1. TypeOK /\ SchedulerOff /\ PoolAgrees /\ QueuesAgree /\ WatchersAgree
      /\ BudgetAgrees /\ PressureAgrees
  BY DEF Agreement
<1>2. s \in Installed /\ hw[s] # NULL /\ s \notin late
  BY DEF HwExpire, Installed, NoteEnd
<1>3. s \in Held /\ c \in InUse /\ c \in Ctxs /\ ctx[c].ct_state = HW_FWD
      /\ ctx[c].entry = s /\ ctx[c].timer = FALSE
  BY <1>1, <1>2 DEF WatchersAgree, InUse, Held, TypeOK, Context
<1>4. /\ hw' = [hw EXCEPT ![s] = NULL] /\ late' = late /\ DelConn(c)
      /\ ReturnBudget(c) /\ \A t \in late : hw[t] # c
      /\ UNCHANGED <<ctx, buckets, hwCongested, due, round, weight>>
  BY <1>2, <1>3 DEF HwExpire, NoteEnd
<1>5. /\ hw'[s] = NULL /\ \A t \in HwSlots \ {s} : hw'[t] = hw[t]
      /\ Installed' = Installed \ {s} /\ Installed \subseteq HwSlots
      /\ Held' = Held \ {s} /\ Held \subseteq Installed
  <2>1. hw'[s] = NULL /\ \A t \in HwSlots \ {s} : hw'[t] = hw[t]
    BY <1>1, <1>4 DEF TypeOK
  <2>2. Installed' = Installed \ {s} /\ Installed \subseteq HwSlots
    BY <2>1 DEF Installed
  <2>3. QED
    BY <1>4, <2>1, <2>2 DEF Held
<1>5a. /\ Cardinality(Held') \in Nat
       /\ Cardinality(Held) = Cardinality(Held') + 1
  BY <1>3, <1>5, HeldRemoved
<1> HIDE DEF c
<1>6. /\ PoolAgrees'
      /\ CT' \in [Flows -> Ctxs \cup {NULL}]
      /\ POOL' = POOL \cup {c} /\ POOL' \subseteq Ctxs
      /\ InUse' = InUse \ {c}
  <2>1. ctx' \in [Ctxs -> Context] /\ \A d \in Ctxs : ctx'[d].flow = ctx[d].flow
    BY <1>1, <1>4 DEF TypeOK
  <2>2. QED
    BY <1>1, <1>3, <1>4, <2>1, DelConnPool
<1>7. QueuesAgree'
  <2>1. \A i \in Priorities : \A k \in DOMAIN buckets[i] : buckets[i][k] # c
    BY <1>1, <1>3 DEF QueuesAgree, FLOW_QOS, HW_FWD
  <2>2. \A d : Queued(d)' <=> Queued(d)
    BY <1>4 DEF Queued
  <2>3. QED
    BY <1>1, <1>4, <1>6, <2>1, <2>2 DEF QueuesAgree
<1>8. WatchersAgree'
  <2>1. \A d \in InUse' : ctx'[d].timer <=> ctx'[d].ct_state # HW_FWD
    BY <1>1, <1>4, <1>6 DEF WatchersAgree
  <2>2. \A d \in InUse' : ctx'[d].ct_state = HW_FWD =>
           ctx'[d].entry \in HwSlots \ late' /\ hw'[ctx'[d].entry] = d
    BY <1>1, <1>4, <1>5, <1>6 DEF WatchersAgree, c
  <2>3. \A t \in Held' :
          /\ ctx'[hw'[t]].ct_state = HW_FWD
          /\ ctx'[hw'[t]].entry = t
    BY <1>1, <1>4, <1>5 DEF WatchersAgree
  <2>4. \A d \in POOL' : ~ctx'[d].timer
    BY <1>1, <1>3, <1>4, <1>6 DEF WatchersAgree
  <2>5. ASSUME NEW t \in Installed'
        PROVE  hw'[t] \in InUse'
    <3>1. t \in Installed /\ t # s /\ hw'[t] = hw[t] /\ hw[t] \in InUse
      BY <1>1, <1>5, <2>5 DEF WatchersAgree
    <3>2. hw[t] # c
      BY <1>1, <1>3, <1>4, <3>1 DEF WatchersAgree, Held
    <3> QED
      BY <1>6, <3>1, <3>2
  <2>6. late' \subseteq Installed'
    BY <1>1, <1>2, <1>4, <1>5 DEF WatchersAgree
  <2>7. QED
    BY <2>1, <2>2, <2>3, <2>4, <2>5, <2>6 DEF WatchersAgree
<1>9. SchedulerOff'
  BY <1>1, <1>4 DEF SchedulerOff
<1>10. CASE ENABLE_FLOWQOS
  <2>1. maxEntry' = (IF maxEntry + 1 > MaxOffloadedEntry
                       THEN MaxOffloadedEntry ELSE maxEntry + 1)
        /\ returned' = returned + 1
    BY <1>3, <1>4, <1>10 DEF ReturnBudget, ReturnEntryEvent
  <2>2. maxEntry + Cardinality(Held') + 1 = MaxOffloadedEntry
    BY <1>1, <1>5a, <1>10, ConnSchedAssumption DEF BudgetAgrees, TypeOK
  <2>3. maxEntry' = maxEntry + 1 /\ maxEntry \in Int
    BY <1>1, <1>5a, <2>1, <2>2, ConnSchedAssumption DEF TypeOK
  <2>4. BudgetAgrees'
    BY <1>5a, <1>10, <2>2, <2>3, ConnSchedAssumption DEF BudgetAgrees
  <2>5. PressureAgrees'
    <3>1. Occupied' + returned' = Occupied + returned /\ Watermark' = Watermark
      BY <1>1, <2>1, <2>3, ConnSchedAssumption DEF Occupied, Watermark, TypeOK
    <3>2. QED
      BY <1>1, <1>4, <3>1 DEF PressureAgrees
  <2>6. QED
    BY <1>6, <1>7, <1>8, <1>9, <2>4, <2>5 DEF Agreement
<1>11. CASE ~ENABLE_FLOWQOS
  <2>1. CT_NUM' = CT_NUM + 1 /\ UNCHANGED <<maxEntry, returned>>
    BY <1>4, <1>11 DEF ReturnBudget
  <2>2. CT_NUM + Cardinality(Held') + 1 = MaxOffloadedEntry
    BY <1>1, <1>5a, <1>11, ConnSchedAssumption DEF BudgetAgrees, TypeOK
  <2>3. BudgetAgrees'
    BY <1>1, <1>5a, <1>11, <2>1, <2>2, ConnSchedAssumption DEF BudgetAgrees, TypeOK
  <2>4. PressureAgrees'
    BY <1>1, <1>4, <2>1 DEF PressureAgrees, Occupied
  <2>5. QED
    BY <1>6, <1>7, <1>8, <1>9, <2>3, <2>4 DEF Agreement
<1>12. QED
  BY <1>10, <1>11

(* The steps of a round that move no entry.                                 *)
LEMMA ClockInv ==
  ASSUME Agreement, TypeOK',
         GapElapses \/ StartRound \/ \E i \in Priorities : NextQueue(i)
  PROVE  Agreement'
<1>1. TypeOK /\ SchedulerOff /\ PoolAgrees /\ QueuesAgree /\ WatchersAgree
      /\ BudgetAgrees /\ PressureAgrees
  BY DEF Agreement
<1>2. UNCHANGED <<CT, POOL, ctx, buckets, maxEntry, CT_NUM, hwCongested, hw,
                  late, returned>>
  BY DEF GapElapses, StartRound, NextQueue, history
<1>3. ~ENABLE_FLOWQOS => ~due' /\ round' = Idle
  <2>1. CASE GapElapses
    BY <1>1, <2>1 DEF GapElapses
  <2>2. CASE StartRound
    BY <1>1, <2>2 DEF StartRound, SchedulerOff
  <2>3. CASE \E i \in Priorities : NextQueue(i)
    <3>1. round # Idle
      BY <2>3, ConnSchedAssumption DEF NextQueue, Priorities, Idle
    <3> QED
      BY <1>1, <3>1 DEF SchedulerOff
  <2>4. QED
    BY <2>1, <2>2, <2>3
<1>4. InUse' = InUse /\ Installed' = Installed /\ Held' = Held
      /\ \A d : Queued(d)' <=> Queued(d)
  BY <1>2 DEF InUse, Installed, Held, Queued
<1>5. SchedulerOff'
  BY <1>1, <1>2, <1>3 DEF SchedulerOff
<1>6. PoolAgrees' /\ QueuesAgree' /\ WatchersAgree'
  BY <1>1, <1>2, <1>4 DEF PoolAgrees, QueuesAgree, WatchersAgree
<1>7. BudgetAgrees' /\ PressureAgrees'
  BY <1>1, <1>2, <1>4 DEF BudgetAgrees, PressureAgrees, Occupied
<1>8. QED
  BY <1>5, <1>6, <1>7 DEF Agreement

(* The offload of the head of a queue keeps the invariant.                  *)
LEMMA OffloadHeadInv ==
  ASSUME Agreement, TypeOK', "done" \in Outcomes,
         NEW i \in Priorities, NEW h \in Handles("done"), OffloadHead(i, h)
  PROVE  Agreement'
<1> DEFINE q == buckets[i]
<1> DEFINE c == Head(q)
<1> DEFINE R == Offloaded(ctx[c], h)
<1>1. TypeOK /\ SchedulerOff /\ PoolAgrees /\ QueuesAgree /\ WatchersAgree
      /\ BudgetAgrees /\ PressureAgrees
  BY DEF Agreement
<1>2. round = i /\ q # <<>> /\ weight[i] > 0 /\ maxEntry > 0
  BY DEF OffloadHead, Serving
<1>3. /\ hw' = Install(h, c) /\ ctx' = [ctx EXCEPT ![c] = R]
      /\ buckets' = [buckets EXCEPT ![i] = Tail(@)]
      /\ maxEntry' = maxEntry - 1
      /\ weight' = [weight EXCEPT ![i] = @ - 1]
      /\ hwCongested' = CongestedAfter(maxEntry - 1) /\ returned' = 0
      /\ UNCHANGED <<CT, POOL, CT_NUM, due, round, late>>
  BY DEF OffloadHead
<1>4. q \in Seq(Ctxs) /\ Len(q) \in Nat \ {0} /\ DOMAIN q = 1 .. Len(q)
      /\ c = q[1] /\ c \in Ctxs /\ Tail(q) \in Seq(Ctxs)
      /\ Len(Tail(q)) = Len(q) - 1 /\ DOMAIN Tail(q) = 1 .. Len(q) - 1
      /\ \A k \in 1 .. Len(q) - 1 : Tail(q)[k] = q[k + 1]
  BY <1>1, <1>2 DEF TypeOK
<1>5. /\ c \in InUse /\ ctx[c].ct_state = FLOW_QOS /\ ctx[c].priority = i
      /\ ctx[c] \in Context
      /\ \A k \in 1 .. Len(q) : q[k] = c => k = 1
  <2>1. 1 \in DOMAIN q /\ q[1] = c /\ ctx[c] \in Context
    BY <1>1, <1>4 DEF TypeOK
  <2> QED
    BY <1>1, <1>4, <2>1 DEF QueuesAgree
<1>6. ENABLE_FLOWQOS
  BY <1>1, <1>2 DEF SchedulerOff
<1>7. h \in HwSlots /\ hw[h] = NULL /\ hw' = [hw EXCEPT ![h] = c]
  BY <1>3, ConnSchedAssumption DEF Handles, Install
<1>8. R \in Context /\ R.flow = ctx[c].flow /\ R.priority = ctx[c].priority
      /\ R.timer = FALSE /\ R.ct_state = HW_FWD /\ R.entry = h
  BY <1>5, <1>7 DEF Context, Offloaded
<1> HIDE DEF q, c, R
<1>9. /\ hw'[h] = c /\ \A s \in HwSlots \ {h} : hw'[s] = hw[s]
      /\ Installed' = Installed \cup {h} /\ h \notin Installed
      /\ Installed \subseteq HwSlots
  BY <1>1, <1>4, <1>7, InstallProperties
<1>9a. /\ Held' = Held \cup {h} /\ h \notin Held /\ h \notin late
       /\ late \subseteq Installed /\ Held \subseteq Installed
  BY <1>1, <1>3, <1>9 DEF Held, WatchersAgree
<1>10. /\ ctx' \in [Ctxs -> Context] /\ ctx'[c] = R
       /\ \A d \in Ctxs \ {c} : ctx'[d] = ctx[d]
  BY <1>1, <1>3, <1>4, <1>8 DEF TypeOK
<1>11. InUse' = InUse /\ InUse \subseteq Ctxs
  BY <1>3 DEF InUse
<1>12. /\ buckets' \in [Priorities -> Seq(Ctxs)]
       /\ buckets'[i] = Tail(q) /\ \A j \in Priorities \ {i} : buckets'[j] = buckets[j]
  BY <1>1, <1>3, <1>4 DEF TypeOK, q
<1>14. SchedulerOff'
  BY <1>6 DEF SchedulerOff
<1>15. PoolAgrees'
  BY <1>1, <1>3, <1>5, <1>8, <1>10, <1>11 DEF PoolAgrees
<1>16. QueuesAgree'
  <2>1. ASSUME NEW j \in Priorities, NEW k \in DOMAIN buckets'[j]
        PROVE  /\ buckets'[j][k] \in InUse'
               /\ ctx'[buckets'[j][k]].ct_state = FLOW_QOS
               /\ ctx'[buckets'[j][k]].priority = j
               /\ \A l \in DOMAIN buckets'[j] :
                    buckets'[j][l] = buckets'[j][k] => l = k
    <3>1. CASE j # i
      <4>1. buckets'[j] = buckets[j] /\ buckets[j][k] # c
        BY <1>1, <1>5, <1>12, <2>1, <3>1 DEF QueuesAgree
      <4>2. QED
        BY <1>1, <1>10, <1>11, <2>1, <4>1 DEF QueuesAgree
    <3>2. CASE j = i
      <4>1. k \in 1 .. Len(q) - 1 /\ buckets'[j][k] = q[k + 1]
            /\ k + 1 \in DOMAIN q /\ q[k + 1] # c
        BY <1>4, <1>5, <1>12, <3>2
      <4>2. /\ q[k + 1] \in InUse
            /\ ctx[q[k + 1]].ct_state = FLOW_QOS /\ ctx[q[k + 1]].priority = i
            /\ \A l \in DOMAIN q : q[l] = q[k + 1] => l = k + 1
        BY <1>1, <4>1 DEF QueuesAgree, q
      <4>3. \A l \in DOMAIN buckets'[j] :
              l \in Int /\ l + 1 \in DOMAIN q /\ buckets'[j][l] = q[l + 1]
        BY <1>4, <1>12, <3>2
      <4>4. \A l \in DOMAIN buckets'[j] : buckets'[j][l] = buckets'[j][k] => l = k
        BY <4>1, <4>2, <4>3
      <4>5. QED
        BY <1>10, <1>11, <3>2, <4>1, <4>2, <4>4
    <3>3. QED
      BY <3>1, <3>2
  <2>2. ASSUME NEW d \in InUse', ctx'[d].ct_state = FLOW_QOS
        PROVE  Queued(d)'
    <3>1. d # c /\ d \in InUse /\ ctx[d].ct_state = FLOW_QOS
      BY <1>8, <1>10, <1>11, <2>2 DEF FLOW_QOS, HW_FWD
    <3>2. PICK j \in Priorities : \E k \in DOMAIN buckets[j] : buckets[j][k] = d
      BY <1>1, <3>1 DEF QueuesAgree, Queued
    <3>3. PICK k \in DOMAIN buckets[j] : buckets[j][k] = d
      BY <3>2
    <3>4. CASE j # i
      BY <1>12, <3>3, <3>4 DEF Queued
    <3>5. CASE j = i
      <4>1. k \in 2 .. Len(q) /\ q[k] = d
        BY <1>4, <3>1, <3>3, <3>5 DEF q
      <4>2. k - 1 \in DOMAIN buckets'[i] /\ buckets'[i][k - 1] = d
        BY <1>4, <1>12, <4>1
      <4>3. QED
        BY <4>2 DEF Queued
    <3>6. QED
      BY <3>4, <3>5
  <2>3. QED
    BY <2>1, <2>2 DEF QueuesAgree
<1>17. WatchersAgree'
  <2>1. /\ \A s \in Installed : hw[s] \in InUse
        /\ \A s \in Held : hw[s] # c
    BY <1>1, <1>5 DEF WatchersAgree, FLOW_QOS, HW_FWD
  <2>2. \A d \in InUse' : ctx'[d].timer <=> ctx'[d].ct_state # HW_FWD
    BY <1>1, <1>8, <1>10, <1>11 DEF WatchersAgree
  <2>3. \A d \in InUse' : ctx'[d].ct_state = HW_FWD =>
           ctx'[d].entry \in HwSlots \ late /\ hw'[ctx'[d].entry] = d
    BY <1>1, <1>7, <1>8, <1>9, <1>9a, <1>10, <1>11, ConnSchedAssumption DEF WatchersAgree
  <2>4. \A s \in Installed' : hw'[s] \in InUse'
    BY <1>5, <1>9, <1>11, <2>1
  <2>5. \A s \in Held' :
          /\ ctx'[hw'[s]].ct_state = HW_FWD
          /\ ctx'[hw'[s]].entry = s
    <3>1. ASSUME NEW s \in Held
          PROVE  /\ ctx'[hw'[s]].ct_state = HW_FWD
                 /\ ctx'[hw'[s]].entry = s
      <4>1. hw'[s] = hw[s] /\ hw[s] \in Ctxs \ {c}
        BY <1>9, <1>9a, <1>11, <2>1
      <4> QED
        BY <1>1, <1>10, <4>1 DEF WatchersAgree
    <3> QED
      BY <1>8, <1>9, <1>9a, <1>10, <3>1
  <2>6. \A d \in POOL' : ~ctx'[d].timer
    BY <1>1, <1>3, <1>5, <1>10 DEF WatchersAgree, InUse, TypeOK
  <2>7. late' \subseteq Installed'
    BY <1>3, <1>9, <1>9a
  <2>8. QED
    BY <1>3, <2>2, <2>3, <2>4, <2>5, <2>6, <2>7 DEF WatchersAgree
<1>18. BudgetAgrees'
  <2>1. /\ Cardinality(Held) \in Nat
        /\ Cardinality(Held') = Cardinality(Held) + 1
    BY <1>7, <1>9a, HeldAdded
  <2>2. QED
    BY <1>1, <1>3, <1>6, <2>1, ConnSchedAssumption DEF BudgetAgrees, TypeOK
<1>19. PressureAgrees'
  <2>1. Occupied' + returned' = MaxOffloadedEntry - (maxEntry - 1)
        /\ MaxOffloadedEntry - (maxEntry - 1) > 0 /\ Watermark' = Watermark
    BY <1>1, <1>2, <1>3, ConnSchedAssumption DEF Occupied, Watermark, TypeOK
  <2>2. QED
    BY <1>3, <2>1 DEF PressureAgrees, CongestedAfter
<1>20. QED
  BY <1>14, <1>15, <1>16, <1>17, <1>18, <1>19 DEF Agreement

(* A round given up at an entry that was refused or came too late keeps the *)
(* invariant.                                                               *)
LEMMA AbandonRoundInv ==
  ASSUME Agreement, TypeOK', NEW i \in Priorities,
         NEW o \in Outcomes, o # "done", NEW h \in Handles(o), AbandonRound(i, o, h)
  PROVE  Agreement'
<1> DEFINE c == Head(buckets[i])
<1> DEFINE R == [ctx[c] EXCEPT !.entry = h]
<1>1. TypeOK /\ SchedulerOff /\ PoolAgrees /\ QueuesAgree /\ WatchersAgree
      /\ BudgetAgrees /\ PressureAgrees
  BY DEF Agreement
<1>2. /\ hw' = Install(h, c) /\ ctx' = [ctx EXCEPT ![c] = R]
      /\ round' = Idle /\ weight' = Weight
      /\ late' = (IF o = "late" THEN late \cup {h} ELSE late)
      /\ UNCHANGED <<CT, POOL, buckets, maxEntry, CT_NUM, hwCongested, due, returned>>
  BY DEF AbandonRound, NoteLate
<1>3. buckets[i] \in Seq(Ctxs) /\ buckets[i] # <<>>
  BY <1>1 DEF TypeOK, AbandonRound, Serving
<1>4. 1 \in DOMAIN buckets[i] /\ c = buckets[i][1]
  BY <1>3
<1>5. c \in InUse /\ c \in Ctxs /\ ctx[c].ct_state = FLOW_QOS /\ ctx[c] \in Context
  BY <1>1, <1>4 DEF QueuesAgree, InUse, TypeOK
<1>6. R.flow = ctx[c].flow /\ R.priority = ctx[c].priority
      /\ R.timer = ctx[c].timer /\ R.ct_state = ctx[c].ct_state
  BY <1>5 DEF Context
<1> HIDE DEF c, R
<1>7. /\ \A d \in Ctxs \ {c} : ctx'[d] = ctx[d]
      /\ \A d \in Ctxs : /\ ctx'[d].flow = ctx[d].flow
                         /\ ctx'[d].priority = ctx[d].priority
                         /\ ctx'[d].timer = ctx[d].timer
                         /\ ctx'[d].ct_state = ctx[d].ct_state
  BY <1>1, <1>2, <1>5, <1>6 DEF TypeOK
<1>8. InUse' = InUse /\ InUse \subseteq Ctxs /\ \A d : Queued(d)' <=> Queued(d)
  BY <1>2 DEF InUse, Queued
<1>9. /\ Held' = Held /\ Held \subseteq HwSlots
      /\ late' \subseteq Installed'
      /\ \A s \in Installed' : hw'[s] \in InUse'
      /\ \A s \in Installed : hw'[s] = hw[s] /\ s \notin late' \ late
  <2>1. late \subseteq Installed /\ c \in InUse' /\ InUse \subseteq InUse'
        /\ \A s \in Installed : hw[s] \in InUse
    BY <1>1, <1>5, <1>8 DEF WatchersAgree
  <2>2. hw' = Install(h, c) /\ late' = (IF o = "late" THEN late \cup {h} ELSE late)
        /\ TypeOK
    BY <1>1, <1>2
  <2> QED
    BY <1>5, <2>1, <2>2, InstallStaysLate
<1>10. SchedulerOff'
  BY <1>1, <1>2 DEF SchedulerOff
<1>11. PoolAgrees'
  BY <1>1, <1>2, <1>7, <1>8 DEF PoolAgrees
<1>12. QueuesAgree'
  BY <1>1, <1>2, <1>7, <1>8 DEF QueuesAgree
<1>13. WatchersAgree'
  <2>1. \A d \in InUse' : ctx'[d].timer <=> ctx'[d].ct_state # HW_FWD
    BY <1>1, <1>7, <1>8 DEF WatchersAgree
  <2>2. ASSUME NEW d \in InUse', ctx'[d].ct_state = HW_FWD
        PROVE  ctx'[d].entry \in HwSlots \ late' /\ hw'[ctx'[d].entry] = d
    <3>1. d \in InUse /\ ctx[d].ct_state = HW_FWD /\ d # c /\ ctx'[d] = ctx[d]
      BY <1>5, <1>7, <1>8, <2>2 DEF FLOW_QOS, HW_FWD
    <3>2. ctx[d].entry \in Held /\ hw[ctx[d].entry] = d
      BY <1>1, <1>8, <3>1, ConnSchedAssumption DEF WatchersAgree, Held, Installed
    <3> QED
      BY <1>9, <3>1, <3>2 DEF Held
  <2>3. ASSUME NEW s \in Held'
        PROVE  /\ ctx'[hw'[s]].ct_state = HW_FWD
               /\ ctx'[hw'[s]].entry = s
    <3>1. s \in Held /\ hw'[s] = hw[s] /\ hw[s] \in InUse
          /\ ctx[hw[s]].ct_state = HW_FWD /\ ctx[hw[s]].entry = s
      BY <1>1, <1>9, <2>3 DEF WatchersAgree, Held
    <3>2. hw[s] # c /\ hw[s] \in Ctxs
      BY <1>5, <1>8, <3>1 DEF FLOW_QOS, HW_FWD
    <3> QED
      BY <1>7, <3>1, <3>2
  <2>4. \A d \in POOL' : ~ctx'[d].timer
    BY <1>1, <1>2, <1>7 DEF WatchersAgree, TypeOK
  <2>5. QED
    BY <1>9, <2>1, <2>2, <2>3, <2>4 DEF WatchersAgree
<1>14. BudgetAgrees' /\ PressureAgrees'
  BY <1>1, <1>2, <1>9 DEF BudgetAgrees, PressureAgrees, Occupied
<1>15. QED
  BY <1>10, <1>11, <1>12, <1>13, <1>14 DEF Agreement

(* The state after initialisation satisfies the invariant.                  *)
LEMMA InitInv == Init => Agreement
<1> SUFFICES ASSUME Init PROVE Agreement
  OBVIOUS
<1>1. TypeOK
  BY InitType
<1>2. InUse = {} /\ Installed = {} /\ Held = {}
  BY DEF Init, InUse, Installed, Held
<1>3. SchedulerOff /\ QueuesAgree
  BY <1>2 DEF Init, SchedulerOff, QueuesAgree
<1>4. PoolAgrees
  BY <1>2, ConnSchedAssumption DEF Init, PoolAgrees
<1>5. WatchersAgree
  BY <1>2 DEF Init, WatchersAgree, UnusedContext
<1>6. BudgetAgrees
  BY <1>2, FS_EmptySet, ConnSchedAssumption DEF Init, BudgetAgrees
<1>7. PressureAgrees
  BY ConnSchedAssumption DEF Init, PressureAgrees, Occupied
<1>8. QED
  BY <1>1, <1>3, <1>4, <1>5, <1>6, <1>7 DEF Agreement

(* A step that changes nothing keeps the invariant.                         *)
LEMMA StutterInv == Agreement /\ UNCHANGED vars => Agreement'
<1> SUFFICES ASSUME Agreement, UNCHANGED vars PROVE Agreement'
  OBVIOUS
<1>1. InUse' = InUse /\ Installed' = Installed /\ Held' = Held
      /\ (\A d : Queued(d)' <=> Queued(d))
      /\ UNCHANGED <<CT, POOL, ctx, buckets, maxEntry, CT_NUM, hwCongested,
                     due, round, weight, hw, late, torn, returned>>
  BY DEF vars, history, InUse, Installed, Held, Queued
<1>2. TypeOK' /\ SchedulerOff' /\ PoolAgrees'
  BY <1>1 DEF Agreement, TypeOK, SchedulerOff, PoolAgrees
<1>3. QueuesAgree'
  BY <1>1 DEF Agreement, QueuesAgree
<1>4. WatchersAgree'
  BY <1>1 DEF Agreement, WatchersAgree
<1>5. BudgetAgrees' /\ PressureAgrees'
  BY <1>1 DEF Agreement, BudgetAgrees, PressureAgrees, Occupied
<1>6. QED
  BY <1>2, <1>3, <1>4, <1>5 DEF Agreement

(* Every step of the core keeps the invariant, but one that ends a          *)
(* connection with a late entry.                                            *)
LEMMA NextInv ==
  ASSUME Agreement, ~torn', [Next]_vars
  PROVE  Agreement'
<1>1. TypeOK'
  BY TypeStep DEF Agreement
<1>2. CASE \E f \in Flows : Packet(f)
  <2>1. PICK f \in Flows : Packet(f)
    BY <1>2
  <2>2. CASE \E c \in Ctxs, p \in Priorities : PacketProcessor(f, c, p)
    BY <1>1, <2>2, PacketForwardedInv, PacketEnqueuesInv, PacketOffloadsInv
    DEF PacketProcessor
  <2>3. CASE AddConnFails(f)
    BY <2>3, AddConnFailsSame, StutterInv
  <2> QED
    BY <2>1, <2>2, <2>3 DEF Packet
<1>3. CASE \E c \in Ctxs : SwExpire(c)
  BY <1>1, <1>3, SwExpireInv
<1>4. CASE \E s \in HwSlots : HwExpire(s)
  BY <1>1, <1>4, HwExpireInv
<1>5. CASE GapElapses
  BY <1>1, <1>5, ClockInv
<1>6. CASE Round
  <2>1. CASE StartRound \/ \E i \in Priorities : NextQueue(i)
    BY <1>1, <2>1, ClockInv
  <2>2. CASE \E i \in Priorities : "done" \in Outcomes /\ Scheduled(i)
    BY <1>1, <2>2, OffloadHeadInv DEF Scheduled
  <2>3. CASE \E i \in Priorities : \E o \in Outcomes \ {"done"} :
               \E h \in Handles(o) : AbandonRound(i, o, h)
    BY <1>1, <2>3, AbandonRoundInv
  <2>4. QED
    BY <1>6, <2>1, <2>2, <2>3 DEF Round
<1>7. CASE UNCHANGED vars
  BY <1>7, StutterInv
<1>8. QED
  BY <1>2, <1>3, <1>4, <1>5, <1>6, <1>7 DEF Next

(* What was torn stays torn.                                                *)
LEMMA TornStays ==
  ASSUME TypeOK, torn, [Next]_vars
  PROVE  torn'
<1>1. CASE (\E c \in Ctxs : SwExpire(c)) \/ (\E s \in HwSlots : HwExpire(s))
  <2>1. \A c : NoteEnd(c) => torn'
    BY DEF NoteEnd
  <2> QED
    BY <1>1, <2>1 DEF SwExpire, HwExpire
<1>2. CASE \E f \in Flows : Packet(f)
  <2>1. CASE \E f \in Flows : AddConnFails(f)
    BY <2>1 DEF AddConnFails, history
  <2>2. CASE \E f \in Flows, c \in Ctxs, p \in Priorities : PacketProcessor(f, c, p)
    <3>1. PICK f \in Flows, c \in Ctxs, p \in Priorities : PacketProcessor(f, c, p)
      BY <2>2
    <3>2. \A o, h : PacketOffloads(f, c, p, o, h) => torn' = torn
      BY DEF PacketOffloads
    <3>3. PacketForwarded(f, c, p) \/ PacketEnqueues(f, c, p) => torn' = torn
      BY DEF PacketForwarded, PacketEnqueues, history
    <3> QED
      BY <3>1, <3>2, <3>3 DEF PacketProcessor
  <2> QED
    BY <1>2, <2>1, <2>2 DEF Packet
<1>3. CASE GapElapses \/ Round
  BY <1>3 DEF GapElapses, Round, StartRound, NextQueue, Scheduled, OffloadHead,
              AbandonRound, history
<1>4. CASE UNCHANGED vars
  BY <1>4 DEF vars, history
<1> QED
  BY <1>1, <1>2, <1>3, <1>4 DEF Next

(* Hash, pool, queues, timers, hardware entries and budgets of a core agree *)
(* however packets, expiries, refusals, late completions and rounds of      *)
(* flowQoS_conntrack.c and flowQoS_qos.c follow each other, until a         *)
(* connection ends that has a late entry.                                   *)
THEOREM Invariance == Spec => []IInv
<1>1. Init => TypeOK /\ IInv
  BY InitType, InitInv DEF IInv
<1>2. TypeOK /\ IInv /\ [Next]_vars => TypeOK' /\ IInv'
  BY TypeStep, TornStays, NextInv DEF IInv
<1>3. QED
  BY <1>1, <1>2, PTL DEF Spec

(* CT_CTX_POOL and the hash partition the contexts: until torn, no context  *)
(* leaks and none is freed twice.                                           *)
THEOREM PoolSafety == Spec => []PoolExact
<1>1. IInv => PoolExact
  BY DEF IInv, Agreement, PoolExact
<1>2. QED
  BY <1>1, Invariance, PTL

(* The queues hold the connections in FLOW_QOS_STATE and no other.          *)
THEOREM QueueSafety == Spec => []QueuesExact
<1>1. IInv => QueuesExact
  BY DEF IInv, Agreement, QueuesExact
<1>2. QED
  BY <1>1, Invariance, PTL

(* Each connection has one ageing mechanism, each freed context none; only  *)
(* a late entry points at a connection that does not hold it.               *)
THEOREM WatcherSafety == Spec => []OneWatcher
<1>1. IInv => OneWatcher
  BY DEF IInv, Agreement, OneWatcher
<1>2. QED
  BY <1>1, Invariance, PTL

(* The budget is conserved, and what the hardware holds beyond              *)
(* maxOffloadedEntry are late entries.                                      *)
THEOREM BudgetSafety ==
  Spec => [](BudgetExact /\ (~torn => Cardinality(Held) <= MaxOffloadedEntry))
<1>1. IInv => BudgetExact /\ (~torn => Cardinality(Held) <= MaxOffloadedEntry)
  <2> SUFFICES ASSUME IInv, ~torn
               PROVE  BudgetAgrees /\ Cardinality(Held) <= MaxOffloadedEntry
    BY DEF BudgetExact
  <2>1. TypeOK /\ BudgetAgrees
    BY DEF IInv, Agreement
  <2>2. Cardinality(Held) \in Nat
    BY ConnSchedAssumption, FS_Subset, FS_CardinalityType DEF Held, Installed
  <2>3. QED
    BY <2>1, <2>2, ConnSchedAssumption DEF TypeOK, BudgetAgrees
<1>2. QED
  BY <1>1, Invariance, PTL

(* The congestion flag tells the entries held at the last offload from the  *)
(* watermark, for every budget and every watermark.                         *)
THEOREM PressureSafety == Spec => []PressureExact
<1>1. IInv => PressureExact
  BY DEF IInv, Agreement, PressureExact
<1>2. QED
  BY <1>1, Invariance, PTL

-----------------------------------------------------------------------------
(* What a round of flowQoS_do_entry_event has behind it.                    *)
LEMMA RoundProgressStep ==
  ASSUME TypeOK, RoundProgress, [Next]_vars
  PROVE  RoundProgress'
<1>1. CASE \E f \in Flows : Packet(f)
  <2>1. CASE \E f \in Flows : AddConnFails(f)
    BY <2>1, AddConnFailsSame DEF RoundProgress, vars
  <2>2. CASE \E f \in Flows, c \in Ctxs, p \in Priorities : PacketProcessor(f, c, p)
    BY <2>2 DEF PacketProcessor, PacketForwarded, PacketEnqueues, PacketOffloads, qosVars,
                RoundProgress
  <2> QED
    BY <1>1, <2>1, <2>2 DEF Packet
<1>2. CASE \E c \in Ctxs : SwExpire(c)
  BY <1>2 DEF SwExpire, qosVars, RoundProgress
<1>3. CASE \E s \in HwSlots : HwExpire(s)
  BY <1>3 DEF HwExpire, RoundProgress
<1>4. CASE GapElapses
  BY <1>4 DEF GapElapses, RoundProgress
<1>5. CASE StartRound
  BY <1>5, ConnSchedAssumption DEF StartRound, RoundProgress, Priorities
<1>6. ASSUME NEW i \in Priorities, NextQueue(i)
      PROVE  RoundProgress'
  <2>1. /\ round = i /\ round' = i - 1
        /\ UNCHANGED <<buckets, maxEntry>>
        /\ i # 0 => weight' = weight
        /\ i = 0 => round' = Idle
        /\ i # Idle /\ i \in Int
    BY <1>6, ConnSchedAssumption DEF NextQueue, Idle, Priorities
  <2>2. buckets[i] = <<>> \/ weight[i] = 0 \/ maxEntry = 0
    BY <1>6, <2>1, ConnSchedAssumption DEF NextQueue, Serving, TypeOK
  <2>3. \A j \in Priorities : j > i - 1 => j = i \/ j > i
    BY <2>1, ConnSchedAssumption DEF Priorities
  <2>4. QED
    BY <2>1, <2>2, <2>3 DEF RoundProgress
<1>7. ASSUME NEW i \in Priorities, Scheduled(i)
      PROVE  RoundProgress'
  <2>1. /\ round = i /\ round' = i /\ maxEntry > 0
        /\ buckets' = [buckets EXCEPT ![i] = Tail(@)]
        /\ weight' = [weight EXCEPT ![i] = @ - 1]
        /\ i # Idle /\ i \in Int
    BY <1>7, ConnSchedAssumption DEF Scheduled, OffloadHead, Serving, Idle, Priorities
  <2>2. \A j \in Priorities : j > i => buckets'[j] = buckets[j] /\ weight'[j] = weight[j]
    BY <2>1 DEF TypeOK
  <2>3. QED
    BY <2>1, <2>2 DEF RoundProgress, TypeOK
<1>8. ASSUME NEW i \in Priorities, NEW o \in Outcomes \ {"done"},
             NEW h \in Handles(o), AbandonRound(i, o, h)
      PROVE  RoundProgress'
  BY <1>8 DEF AbandonRound, RoundProgress
<1>9. CASE UNCHANGED vars
  BY <1>9 DEF vars, RoundProgress
<1>10. QED
  BY <1>1, <1>2, <1>3, <1>4, <1>5, <1>6, <1>7, <1>8, <1>9 DEF Next, Round

(* The queues a round has passed stay served until it ends.                 *)
LEMMA RoundProgressInvariance == Spec => []RoundProgress
<1>1. Init => RoundProgress
  BY DEF Init, RoundProgress
<1>2. TypeOK /\ RoundProgress /\ [Next]_vars => RoundProgress'
  BY RoundProgressStep
<1>3. QED
  BY <1>1, <1>2, TypeCorrect, PTL DEF Spec

(* Packets leave the scheduler's own state alone.                           *)
LEMMA PacketFrame ==
  ASSUME NEW f \in Flows, Packet(f)
  PROVE  maxEntry' = maxEntry /\ due' = due
<1>0. CASE AddConnFails(f)
  BY <1>0, AddConnFailsSame DEF vars
<1> SUFFICES ASSUME NEW c \in Ctxs, NEW p \in Priorities, PacketProcessor(f, c, p)
             PROVE  maxEntry' = maxEntry /\ due' = due
  BY <1>0 DEF Packet
<1>1. \/ PacketForwarded(f, c, p)
      \/ PacketEnqueues(f, c, p)
      \/ \E o \in Outcomes : \E h \in Handles(o) : PacketOffloads(f, c, p, o, h)
  BY DEF PacketProcessor
<1>2. CASE PacketForwarded(f, c, p)
  BY <1>2 DEF PacketForwarded, qosVars
<1>3. CASE PacketEnqueues(f, c, p)
  BY <1>3 DEF PacketEnqueues, qosVars
<1>4. CASE \E o \in Outcomes : \E h \in Handles(o) : PacketOffloads(f, c, p, o, h)
  <2>1. PICK o \in Outcomes : \E h \in Handles(o) : PacketOffloads(f, c, p, o, h)
    BY <1>4
  <2>2. PICK h \in Handles(o) : PacketOffloads(f, c, p, o, h)
    BY <2>1
  <2>3. QED
    BY <2>2 DEF PacketOffloads, qosVars
<1>5. QED
  BY <1>1, <1>2, <1>3, <1>4

(* Every step that offloads takes the oldest entry of the right queue.      *)
LEMMA ServesInOrderStep ==
  ASSUME TypeOK, RoundProgress, Next
  PROVE  ServesInOrder
<1>1. maxEntry \in Nat /\ TypeOK
  BY ConnSchedAssumption DEF TypeOK
<1>2. CASE \E i \in Priorities : Scheduled(i)
  <2>1. PICK i \in Priorities : Scheduled(i)
    BY <1>2
  <2>2. /\ round = i /\ maxEntry > 0 /\ round # Idle
        /\ buckets' = [buckets EXCEPT ![i] = Tail(@)]
    BY <2>1, ConnSchedAssumption DEF Scheduled, OffloadHead, Serving, Idle, Priorities
  <2>3. /\ buckets'[i] = Tail(buckets[i])
        /\ \A j \in Priorities \ {i} : Len(buckets'[j]) = Len(buckets[j])
    BY <1>1, <2>2 DEF TypeOK
  <2>4. \A j \in Priorities : Len(buckets[j]) \in Nat
    BY <1>1 DEF TypeOK
  <2>5. \A j \in Priorities : j > i => buckets[j] = <<>> \/ weight[j] = 0
    BY <1>1, <2>2 DEF RoundProgress
  <2>6. QED
    BY <2>3, <2>4, <2>5 DEF ServesInOrder
<1>3. CASE ~\E i \in Priorities : Scheduled(i)
  <2>1. ~(maxEntry' < maxEntry)
    <3>1. CASE \E f \in Flows : Packet(f)
      BY <1>1, <3>1, PacketFrame
    <3>2. CASE \E c \in Ctxs : SwExpire(c)
      BY <1>1, <3>2 DEF SwExpire, qosVars
    <3>3. CASE \E s \in HwSlots : HwExpire(s)
      BY <1>1, <3>3, ConnSchedAssumption
         DEF HwExpire, ReturnBudget, ReturnEntryEvent, TypeOK
    <3>4. CASE GapElapses
      BY <1>1, <3>4 DEF GapElapses
    <3>5. CASE Round
      <4>1. \/ StartRound
            \/ \E i \in Priorities : NextQueue(i)
            \/ \E i \in Priorities : \E o \in Outcomes \ {"done"} :
                 \E h \in Handles(o) : AbandonRound(i, o, h)
        BY <1>3, <3>5 DEF Round
      <4>2. maxEntry' = maxEntry
        BY <4>1 DEF StartRound, NextQueue, AbandonRound
      <4>3. QED
        BY <1>1, <4>2
    <3>6. QED
      BY <3>1, <3>2, <3>3, <3>4, <3>5 DEF Next
  <2>2. QED
    BY <2>1 DEF ServesInOrder
<1>4. QED
  BY <1>2, <1>3

(* The weighted round serves the queues in order of priority and each queue *)
(* in order of arrival, whatever completions come late and whatever that    *)
(* has torn.                                                                *)
THEOREM WeightedOrder == Spec => PriorityOrder
<1>1. TypeOK /\ RoundProgress /\ [Next]_vars => [ServesInOrder]_vars
  BY ServesInOrderStep
<1>2. QED
  BY <1>1, TypeCorrect, RoundProgressInvariance, PTL DEF Spec, PriorityOrder

(* The step that closes a round leaves nothing it could have served.        *)
LEMMA ClosesWhenServedStep ==
  ASSUME TypeOK, RoundProgress, Next
  PROVE  ClosesWhenServed
<1> SUFFICES ASSUME due, ~due'
             PROVE  \A i \in Priorities :
                      buckets[i] = <<>> \/ weight[i] = 0 \/ maxEntry = 0
  BY DEF ClosesWhenServed
<1>1. NextQueue(0)
  <2>1. CASE \E f \in Flows : Packet(f)
    BY <2>1, PacketFrame
  <2>2. CASE \E c \in Ctxs : SwExpire(c)
    BY <2>2 DEF SwExpire, qosVars
  <2>3. CASE \E s \in HwSlots : HwExpire(s)
    BY <2>3 DEF HwExpire
  <2>4. CASE GapElapses
    BY <2>4 DEF GapElapses
  <2>5. CASE Round
    <3>1. CASE StartRound
      BY <3>1 DEF StartRound
    <3>2. ASSUME NEW i \in Priorities, NextQueue(i)
          PROVE  NextQueue(0)
      BY <3>2 DEF NextQueue
    <3>3. ASSUME NEW i \in Priorities, Scheduled(i)
          PROVE  FALSE
      BY <3>3 DEF Scheduled, OffloadHead
    <3>4. ASSUME NEW i \in Priorities, NEW o \in Outcomes \ {"done"},
                 NEW h \in Handles(o), AbandonRound(i, o, h)
          PROVE  FALSE
      BY <3>4 DEF AbandonRound
    <3>5. QED
      BY <2>5, <3>1, <3>2, <3>3, <3>4 DEF Round
  <2>6. QED
    BY <2>1, <2>2, <2>3, <2>4, <2>5 DEF Next
<1>2. round = 0 /\ ~Serving(0) /\ 0 \in Priorities
  BY <1>1, ConnSchedAssumption DEF NextQueue, Priorities
<1>3. buckets[0] = <<>> \/ weight[0] = 0 \/ maxEntry = 0
  BY <1>2, ConnSchedAssumption DEF Serving, TypeOK
<1>4. \A i \in Priorities : i # 0 => i > 0
  BY ConnSchedAssumption DEF Priorities
<1>5. QED
  BY <1>2, <1>3, <1>4 DEF RoundProgress, Idle

(* A round ends only when nothing more can be done in it.                   *)
THEOREM RoundThoroughness == Spec => RoundComplete
<1>1. TypeOK /\ RoundProgress /\ [Next]_vars => [ClosesWhenServed]_vars
  BY ClosesWhenServedStep
<1>2. QED
  BY <1>1, TypeCorrect, RoundProgressInvariance, PTL DEF Spec, RoundComplete

-----------------------------------------------------------------------------
(* The source NAT.  Its steps are steps of the scheduler or leave its       *)
(* variables alone, so everything above holds of it too.                    *)

(* The flow of a LAN side connection leads to a port nobody else has.       *)
LanLinked ==
  /\ \A h \in Hosts, s \in Servers, p \in SnatPorts :
       snat_table[LanFlow(h, s)] = p => ~Free(p) /\ snat_table[WanFlow(s, p)] = p
  /\ \A h, g \in Hosts, s, t \in Servers, p \in SnatPorts :
       snat_table[LanFlow(h, s)] = p /\ snat_table[LanFlow(g, t)] = p
         => LanFlow(h, s) = LanFlow(g, t)

Distinct == \A i, j \in DOMAIN bucket : bucket[i] = bucket[j] => i = j

(* PortsExact without its sets: the server of a port that is not free.      *)
PortsState ==
  \A p \in SnatPorts :
    /\ Free(p) => \A s \in Servers : snat_table[WanFlow(s, p)] = NULL
    /\ ~Free(p) => \E s \in Servers : \A t \in Servers :
                     snat_table[WanFlow(t, p)] # NULL <=> t = s
    /\ \A s \in Servers : snat_table[WanFlow(s, p)] \in {p, NULL}

-----------------------------------------------------------------------------
(* The keys of the table are different for different connections.           *)
LEMMA LanKeys ==
  ASSUME NEW h \in Hosts, NEW s \in Servers
  PROVE  /\ LanFlow(h, s) \in Flows /\ LanFlow(h, s) \in LanFlows
         /\ LanFlow(h, s).from = h /\ LanFlow(h, s).to = s
         /\ LanFlow(h, s) \notin WanFlows
         /\ \A g \in Hosts, t \in Servers :
              LanFlow(h, s) = LanFlow(g, t) => h = g /\ s = t
  BY SnatAssumption DEF LanFlow, LanFlows

LEMMA WanKeys ==
  ASSUME NEW s \in Servers, NEW p \in SnatPorts
  PROVE  /\ WanFlow(s, p) \in Flows /\ WanFlow(s, p) \in WanFlows
         /\ WanFlow(s, p).from = s /\ WanFlow(s, p).to = p
         /\ WanFlow(s, p) \notin LanFlows
         /\ \A t \in Servers, q \in SnatPorts :
              WanFlow(s, p) = WanFlow(t, q) => s = t /\ p = q
  BY SnatAssumption DEF WanFlow, WanFlows

LEMMA LanPick ==
  ASSUME NEW f \in LanFlows
  PROVE  \E h \in Hosts, s \in Servers : f = LanFlow(h, s)
  BY DEF LanFlows

LEMMA WanPick ==
  ASSUME NEW f \in WanFlows
  PROVE  \E s \in Servers, p \in SnatPorts : f = WanFlow(s, p)
  BY DEF WanFlows

(* The sets of PortsExact say what PortsState says.                         *)
LEMMA PortsSame == SnatTypeOK /\ Distinct => (PortsExact <=> PortsState)
<1> SUFFICES ASSUME NEW p \in SnatPorts
             PROVE  /\ Reserved(p) = {} <=> \A s \in Servers : snat_table[WanFlow(s, p)] = NULL
                    /\ \A s \in Servers : Reserved(p) = {s} <=>
                         \A t \in Servers : snat_table[WanFlow(t, p)] # NULL <=> t = s
  BY DEF PortsExact, PortsState, Distinct
<1> QED
  BY DEF Reserved

-----------------------------------------------------------------------------
(* flowQoS_snat_pool_get takes the first port out of the list ...           *)
LEMMA GetProperties ==
  ASSUME bucket \in Seq(SnatPorts), Distinct, bucket # <<>>, bucket' = Tail(bucket)
  PROVE  /\ Head(bucket) \in SnatPorts /\ Free(Head(bucket))
         /\ bucket' \in Seq(SnatPorts) /\ Distinct'
         /\ \A q : Free(q)' <=> Free(q) /\ q # Head(bucket)
<1>1. /\ Len(bucket) \in Nat /\ Len(bucket) > 0 /\ Head(bucket) = bucket[1]
      /\ DOMAIN bucket = 1 .. Len(bucket)
      /\ bucket' \in Seq(SnatPorts) /\ DOMAIN bucket' = 1 .. Len(bucket) - 1
      /\ \A i \in 1 .. Len(bucket) - 1 : bucket'[i] = bucket[i + 1]
  OBVIOUS
<1>2. Head(bucket) \in SnatPorts /\ Free(Head(bucket))
  BY <1>1 DEF Free
<1>3. Distinct'
  BY <1>1 DEF Distinct
<1>4. ASSUME NEW q PROVE Free(q)' <=> Free(q) /\ q # Head(bucket)
  <2>1. ASSUME Free(q)' PROVE Free(q) /\ q # Head(bucket)
    <3>1. PICK i \in 1 .. Len(bucket) - 1 : bucket[i + 1] = q
      BY <1>1, <2>1 DEF Free
    <3> QED
      BY <1>1, <3>1 DEF Free, Distinct
  <2>2. ASSUME Free(q), q # Head(bucket) PROVE Free(q)'
    <3>1. PICK i \in 1 .. Len(bucket) : bucket[i] = q
      BY <1>1, <2>2 DEF Free
    <3>2. i # 1 /\ i - 1 \in 1 .. Len(bucket) - 1 /\ bucket'[i - 1] = q
      BY <1>1, <2>2, <3>1
    <3> QED
      BY <1>1, <3>2 DEF Free
  <2> QED
    BY <2>1, <2>2
<1> QED
  BY <1>1, <1>2, <1>3, <1>4

(* ... and flowQoS_snat_pool_put puts one there again.                      *)
LEMMA PutProperties ==
  ASSUME bucket \in Seq(SnatPorts), Distinct, NEW p \in SnatPorts, ~Free(p), PoolPut(p)
  PROVE  /\ bucket' \in Seq(SnatPorts) /\ Distinct'
         /\ \A q : Free(q)' <=> Free(q) \/ q = p
<1>1. /\ Len(bucket) \in Nat /\ DOMAIN bucket = 1 .. Len(bucket)
      /\ bucket' \in Seq(SnatPorts) /\ DOMAIN bucket' = 1 .. Len(bucket) + 1
      /\ bucket'[1] = p
      /\ \A i \in 1 .. Len(bucket) : bucket'[i + 1] = bucket[i]
  BY DEF PoolPut
<1>2. \A i \in 2 .. Len(bucket) + 1 : i - 1 \in 1 .. Len(bucket) /\ bucket'[i] = bucket[i - 1]
  BY <1>1
<1>3. ASSUME NEW i \in DOMAIN bucket', NEW j \in DOMAIN bucket', bucket'[i] = bucket'[j]
      PROVE  i = j
  <2>1. ASSUME NEW k \in DOMAIN bucket', k # 1
        PROVE  k - 1 \in DOMAIN bucket /\ bucket[k - 1] = bucket'[k] /\ bucket'[k] # p
    <3>1. k \in 2 .. Len(bucket) + 1
      BY <1>1, <2>1
    <3>2. k - 1 \in DOMAIN bucket /\ bucket[k - 1] = bucket'[k]
      BY <1>1, <1>2, <3>1
    <3> QED
      BY <3>2 DEF Free
  <2>2. CASE i = 1 \/ j = 1
    BY <1>1, <1>3, <2>1, <2>2
  <2>3. CASE i # 1 /\ j # 1
    <3>1. i - 1 = j - 1
      BY <1>3, <2>1, <2>3 DEF Distinct
    <3> QED
      BY <1>1, <3>1
  <2> QED
    BY <2>2, <2>3
<1>4. ASSUME NEW q PROVE Free(q)' <=> Free(q) \/ q = p
  <2>1. ASSUME Free(q)' PROVE Free(q) \/ q = p
    <3>1. PICK i \in 1 .. Len(bucket) + 1 : bucket'[i] = q
      BY <1>1, <2>1 DEF Free
    <3>2. CASE i = 1
      BY <1>1, <3>1, <3>2
    <3>3. CASE i # 1
      BY <1>1, <1>2, <3>1, <3>3 DEF Free
    <3> QED
      BY <3>2, <3>3
  <2>2. ASSUME Free(q) PROVE Free(q)'
    <3>1. PICK i \in 1 .. Len(bucket) : bucket[i] = q
      BY <1>1, <2>2 DEF Free
    <3>2. i + 1 \in DOMAIN bucket' /\ bucket'[i + 1] = q
      BY <1>1, <3>1
    <3> QED
      BY <3>2 DEF Free
  <2>3. ASSUME q = p PROVE Free(q)'
    BY <1>1, <2>3 DEF Free
  <2> QED
    BY <2>1, <2>2, <2>3
<1> QED
  BY <1>1, <1>3, <1>4 DEF Distinct

-----------------------------------------------------------------------------
TableType ==
  /\ bucket \in Seq(SnatPorts)
  /\ snat_table \in [Flows -> SnatPorts \cup {NULL}]
  /\ entries \in [SnatPorts -> Hosts \cup {NULL}]

TableInv == TableType /\ Distinct /\ PortsState /\ LanLinked

(* All ports are in the list at the start, and no key is in the table.      *)
LEMMA InitTable == SnatInit => TableInv
<1> SUFFICES ASSUME SnatInit PROVE TableInv
  OBVIOUS
<1> DEFINE n == Cardinality(SnatPorts)
<1>1. n \in Nat /\ bucket \in [1 .. n -> SnatPorts] /\ Distinct
  BY SnatAssumption, FS_CardinalityType DEF SnatInit, Distinct
<1>2. bucket \in Seq(SnatPorts)
  BY <1>1
<1>3. \A f \in Flows : snat_table[f] = NULL
  BY DEF SnatInit
<1>4. \A p \in SnatPorts : Free(p)
  <2>1. bucket \in Injection(1 .. n, SnatPorts)
    BY <1>1 DEF Injection, IsInjective, Distinct
  <2>2. Cardinality(1 .. n) = n
    BY <1>1, FS_Interval
  <2>3. bucket \in Surjection(1 .. n, SnatPorts)
    BY <2>1, <2>2, SnatAssumption, FS_Injection
  <2> QED
    BY <1>1, <2>3 DEF Surjection, Free
<1>5. TableType
  BY <1>2 DEF SnatInit, TableType
<1>6. PortsState
  BY <1>3, <1>4, WanKeys DEF PortsState
<1>7. LanLinked
  BY <1>3, LanKeys, SnatAssumption DEF LanLinked
<1> QED
  BY <1>1, <1>5, <1>6, <1>7 DEF TableInv

(* newConn_handler takes a free port, so no other key leads to it.          *)
LEMMA AcceptTable ==
  ASSUME TableInv, NEW h \in Hosts, NEW s \in Servers, NEW p \in SnatPorts,
         LanAccepts(h, s, p)
  PROVE  /\ TableInv' /\ Free(p)
         /\ \A q : Free(q)' <=> Free(q) /\ q # p
         /\ snat_table'[LanFlow(h, s)] = p /\ snat_table'[WanFlow(s, p)] = p
         /\ \A f \in Flows \ {LanFlow(h, s), WanFlow(s, p)} : snat_table'[f] = snat_table[f]
         /\ entries'[p] = h /\ \A q \in SnatPorts \ {p} : entries'[q] = entries[q]
<1>1. /\ bucket # <<>> /\ p = Head(bucket) /\ bucket' = Tail(bucket)
      /\ entries' = [entries EXCEPT ![p] = h]
      /\ snat_table' = [snat_table EXCEPT ![LanFlow(h, s)] = p, ![WanFlow(s, p)] = p]
  BY DEF LanAccepts, PoolGet, Assign, AddKeys
<1>2. TableType /\ Distinct /\ PortsState /\ LanLinked
  BY DEF TableInv
<1>3. /\ Free(p) /\ bucket' \in Seq(SnatPorts) /\ Distinct'
      /\ \A q : Free(q)' <=> Free(q) /\ q # p
  BY <1>1, <1>2, GetProperties DEF TableType
<1>4. /\ LanFlow(h, s) \in Flows /\ WanFlow(s, p) \in Flows
      /\ LanFlow(h, s) # WanFlow(s, p)
  BY LanKeys, WanKeys
<1>5. /\ snat_table'[LanFlow(h, s)] = p /\ snat_table'[WanFlow(s, p)] = p
      /\ \A f \in Flows \ {LanFlow(h, s), WanFlow(s, p)} : snat_table'[f] = snat_table[f]
      /\ snat_table' \in [Flows -> SnatPorts \cup {NULL}]
  BY <1>1, <1>2, <1>4 DEF TableType
<1>6. /\ entries'[p] = h /\ \A q \in SnatPorts \ {p} : entries'[q] = entries[q]
      /\ entries' \in [SnatPorts -> Hosts \cup {NULL}]
  BY <1>1, <1>2 DEF TableType
<1>7. p # NULL
  BY SnatAssumption
<1>8. \A t \in Servers, q \in SnatPorts :
        (t # s \/ q # p) => snat_table'[WanFlow(t, q)] = snat_table[WanFlow(t, q)]
  BY <1>5, LanKeys, WanKeys
<1>9. PortsState'
  <2> SUFFICES ASSUME NEW q \in SnatPorts
               PROVE  /\ Free(q)' => \A t \in Servers : snat_table'[WanFlow(t, q)] = NULL
                      /\ ~Free(q)' => \E t \in Servers : \A u \in Servers :
                                        snat_table'[WanFlow(u, q)] # NULL <=> u = t
                      /\ \A t \in Servers : snat_table'[WanFlow(t, q)] \in {q, NULL}
    BY DEF PortsState
  <2>1. CASE q = p
    <3>1. \A t \in Servers : snat_table[WanFlow(t, p)] = NULL
      BY <1>2, <1>3 DEF PortsState
    <3>2. \A t \in Servers : snat_table'[WanFlow(t, p)] # NULL <=> t = s
      BY <1>5, <1>7, <1>8, <3>1
    <3> QED
      BY <1>3, <1>5, <1>8, <2>1, <3>1, <3>2
  <2>2. CASE q # p
    <3>1. \A t \in Servers : snat_table'[WanFlow(t, q)] = snat_table[WanFlow(t, q)]
      BY <1>8, <2>2
    <3>2. Free(q)' <=> Free(q)
      BY <1>3, <2>2
    <3> QED
      BY <1>2, <3>1, <3>2 DEF PortsState
  <2> QED
    BY <2>1, <2>2
<1>10. \A g \in Hosts, t \in Servers :
         \/ LanFlow(g, t) = LanFlow(h, s)
         \/ /\ snat_table'[LanFlow(g, t)] = snat_table[LanFlow(g, t)]
            /\ snat_table[LanFlow(g, t)] # p
  <2>1. \A g \in Hosts, t \in Servers : snat_table[LanFlow(g, t)] # p
    BY <1>2, <1>3, <1>7 DEF LanLinked
  <2> QED
    BY <2>1, <1>5, LanKeys, WanKeys
<1>11. LanLinked'
  <2>1. ASSUME NEW g \in Hosts, NEW t \in Servers, NEW q \in SnatPorts,
               snat_table'[LanFlow(g, t)] = q
        PROVE  ~Free(q)' /\ snat_table'[WanFlow(t, q)] = q
    <3>1. CASE LanFlow(g, t) = LanFlow(h, s)
      <4>1. g = h /\ t = s /\ q = p
        BY <1>5, <2>1, <3>1, LanKeys
      <4> QED
        BY <1>3, <1>5, <4>1
    <3>2. CASE LanFlow(g, t) # LanFlow(h, s)
      <4>1. snat_table[LanFlow(g, t)] = q /\ q # p
        BY <1>10, <2>1, <3>2
      <4>2. ~Free(q) /\ snat_table[WanFlow(t, q)] = q
        BY <1>2, <4>1 DEF LanLinked
      <4> QED
        BY <1>3, <1>8, <4>1, <4>2
    <3> QED
      BY <3>1, <3>2
  <2>2. ASSUME NEW g \in Hosts, NEW k \in Hosts, NEW t \in Servers, NEW u \in Servers,
               NEW q \in SnatPorts,
               snat_table'[LanFlow(g, t)] = q, snat_table'[LanFlow(k, u)] = q
        PROVE  LanFlow(g, t) = LanFlow(k, u)
    BY <1>2, <1>5, <1>10, <2>2 DEF LanLinked
  <2> QED
    BY <2>1, <2>2 DEF LanLinked
<1> QED
  BY <1>3, <1>5, <1>6, <1>9, <1>11 DEF TableInv, TableType

(* A refused key costs at most the key of a connection that is not made.    *)
LEMMA RefuseTable ==
  ASSUME TableInv, NEW h \in Hosts, NEW s \in Servers,
         UpstreamRefused(h) \/ DownstreamRefused(h, s)
  PROVE  /\ TableInv'
         /\ bucket' = bucket
         /\ \A f \in Flows \ {LanFlow(h, s)} : snat_table'[f] = snat_table[f]
         /\ \A q \in SnatPorts : ~Free(q) => entries'[q] = entries[q]
<1>1. TableType /\ Distinct /\ PortsState /\ LanLinked
  BY DEF TableInv
<1>2. /\ bucket # <<>> /\ bucket' = bucket
      /\ entries' = [entries EXCEPT ![Head(bucket)] = h]
      /\ \/ snat_table' = snat_table
         \/ snat_table' = [snat_table EXCEPT ![LanFlow(h, s)] = NULL]
  BY DEF UpstreamRefused, DownstreamRefused, Assign
<1>3. Head(bucket) \in SnatPorts /\ Free(Head(bucket))
  BY <1>1, <1>2 DEF TableType, Free
<1>4. \A q \in SnatPorts : ~Free(q) => entries'[q] = entries[q]
  BY <1>1, <1>2, <1>3 DEF TableType
<1>5. LanFlow(h, s) \in Flows
  BY LanKeys
<1>6. /\ \A f \in Flows \ {LanFlow(h, s)} : snat_table'[f] = snat_table[f]
      /\ snat_table'[LanFlow(h, s)] \in {snat_table[LanFlow(h, s)], NULL}
      /\ snat_table' \in [Flows -> SnatPorts \cup {NULL}]
  BY <1>1, <1>2, <1>5 DEF TableType
<1>7. TableType'
  BY <1>1, <1>2, <1>3, <1>6 DEF TableType
<1>8. \A q : Free(q)' <=> Free(q)
  BY <1>2 DEF Free
<1>9. \A t \in Servers, q \in SnatPorts : snat_table'[WanFlow(t, q)] = snat_table[WanFlow(t, q)]
  BY <1>6, LanKeys, WanKeys
<1>10. PortsState'
  BY <1>1, <1>8, <1>9 DEF PortsState
<1>11. \A g \in Hosts, t \in Servers, q \in SnatPorts :
         snat_table'[LanFlow(g, t)] = q => snat_table[LanFlow(g, t)] = q
  BY <1>6, LanKeys, SnatAssumption
<1>12. LanLinked'
  BY <1>1, <1>8, <1>9, <1>11 DEF LanLinked
<1>13. Distinct'
  BY <1>1, <1>2 DEF Distinct
<1> QED
  BY <1>2, <1>4, <1>6, <1>7, <1>10, <1>12, <1>13 DEF TableInv

(* agingConn_handler gives a port back together with both of its keys.      *)
LEMMA AgeTable ==
  ASSUME TableInv, NEW h \in Hosts, NEW s \in Servers, NEW p \in SnatPorts,
         snat_table[LanFlow(h, s)] = p,
         DelKeys(h, s, p), PoolPut(p), UNCHANGED entries
  PROVE  /\ TableInv'
         /\ \A q : Free(q)' <=> Free(q) \/ q = p
         /\ \A f \in Flows \ {LanFlow(h, s), WanFlow(s, p)} : snat_table'[f] = snat_table[f]
<1>1. TableType /\ Distinct /\ PortsState /\ LanLinked /\ p # NULL
  BY SnatAssumption DEF TableInv
<1>2. ~Free(p) /\ snat_table[WanFlow(s, p)] = p
  BY <1>1 DEF LanLinked
<1>3. /\ bucket' \in Seq(SnatPorts) /\ Distinct'
      /\ \A q : Free(q)' <=> Free(q) \/ q = p
  BY <1>1, <1>2, PutProperties DEF TableType
<1>4. /\ LanFlow(h, s) \in Flows /\ WanFlow(s, p) \in Flows
      /\ LanFlow(h, s) # WanFlow(s, p)
  BY LanKeys, WanKeys
<1>5. /\ snat_table'[LanFlow(h, s)] = NULL /\ snat_table'[WanFlow(s, p)] = NULL
      /\ \A f \in Flows \ {LanFlow(h, s), WanFlow(s, p)} : snat_table'[f] = snat_table[f]
      /\ snat_table' \in [Flows -> SnatPorts \cup {NULL}]
  BY <1>1, <1>4 DEF TableType, DelKeys
<1>6. \A t \in Servers, q \in SnatPorts :
        (t # s \/ q # p) => snat_table'[WanFlow(t, q)] = snat_table[WanFlow(t, q)]
  BY <1>5, LanKeys, WanKeys
<1>7. PortsState'
  <2> SUFFICES ASSUME NEW q \in SnatPorts
               PROVE  /\ Free(q)' => \A t \in Servers : snat_table'[WanFlow(t, q)] = NULL
                      /\ ~Free(q)' => \E t \in Servers : \A u \in Servers :
                                        snat_table'[WanFlow(u, q)] # NULL <=> u = t
                      /\ \A t \in Servers : snat_table'[WanFlow(t, q)] \in {q, NULL}
    BY DEF PortsState
  <2>1. CASE q = p
    <3>1. PICK t \in Servers : \A u \in Servers : snat_table[WanFlow(u, p)] # NULL <=> u = t
      BY <1>1, <1>2 DEF PortsState
    <3>2. t = s
      BY <1>1, <1>2, <3>1
    <3>3. \A u \in Servers : snat_table'[WanFlow(u, p)] = NULL
      BY <1>5, <1>6, <3>1, <3>2
    <3> QED
      BY <1>3, <2>1, <3>3
  <2>2. CASE q # p
    <3>1. \A t \in Servers : snat_table'[WanFlow(t, q)] = snat_table[WanFlow(t, q)]
      BY <1>6, <2>2
    <3>2. Free(q)' <=> Free(q)
      BY <1>3, <2>2
    <3> QED
      BY <1>1, <3>1, <3>2 DEF PortsState
  <2> QED
    BY <2>1, <2>2
<1>8. ASSUME NEW g \in Hosts, NEW t \in Servers, NEW q \in SnatPorts,
             snat_table'[LanFlow(g, t)] = q
      PROVE  snat_table[LanFlow(g, t)] = q /\ q # p
  <2>1. LanFlow(g, t) # LanFlow(h, s)
    BY <1>5, <1>8, SnatAssumption
  <2>2. snat_table[LanFlow(g, t)] = q
    BY <1>5, <1>8, <2>1, LanKeys, WanKeys
  <2> QED
    BY <1>1, <2>1, <2>2 DEF LanLinked
<1>9. LanLinked'
  <2>1. ASSUME NEW g \in Hosts, NEW t \in Servers, NEW q \in SnatPorts,
               snat_table'[LanFlow(g, t)] = q
        PROVE  ~Free(q)' /\ snat_table'[WanFlow(t, q)] = q
    BY <1>1, <1>3, <1>6, <1>8, <2>1 DEF LanLinked
  <2>2. ASSUME NEW g \in Hosts, NEW k \in Hosts, NEW t \in Servers, NEW u \in Servers,
               NEW q \in SnatPorts,
               snat_table'[LanFlow(g, t)] = q, snat_table'[LanFlow(k, u)] = q
        PROVE  LanFlow(g, t) = LanFlow(k, u)
    BY <1>1, <1>8, <2>2 DEF LanLinked
  <2> QED
    BY <2>1, <2>2 DEF LanLinked
<1> QED
  BY <1>1, <1>3, <1>5, <1>7, <1>9 DEF TableInv, TableType

-----------------------------------------------------------------------------
ActionType ==
  /\ action \in [Ctxs -> SnatPorts \cup Hosts \cup {NULL}]
  /\ lost \in BOOLEAN /\ orphaned \in BOOLEAN

(* agingConn_handler keeps the pool and the table in step, whichever        *)
(* connection it is called for and however often.                           *)
LEMMA AgingTable ==
  ASSUME TableInv, NEW f, AgingConn(f), orphaned \in BOOLEAN
  PROVE  TableInv' /\ orphaned' \in BOOLEAN
<1>1. CASE f \in LanFlows /\ snat_table[f] # NULL
  <2>1. PICK h \in Hosts, s \in Servers : f = LanFlow(h, s)
    BY <1>1, LanPick
  <2>2. f \in Flows /\ f.from = h /\ f.to = s
    BY <2>1, LanKeys
  <2>3. PICK p \in SnatPorts : snat_table[f] = p
    BY <1>1, <2>2 DEF TableInv, TableType
  <2>4. DelKeys(h, s, p) /\ PoolPut(p) /\ UNCHANGED entries /\ orphaned' \in BOOLEAN
    BY <1>1, <2>2, <2>3 DEF AgingConn
  <2> QED
    BY <2>1, <2>3, <2>4, AgeTable
<1>2. CASE ~(f \in LanFlows /\ snat_table[f] # NULL)
  <2>1. UNCHANGED <<bucket, snat_table, entries, orphaned>>
    BY <1>2 DEF AgingConn, snatVars
  <2> QED
    BY <2>1 DEF TableInv, TableType, Distinct, PortsState, LanLinked, Free
<1> QED
  BY <1>1, <1>2

(* No step of the application takes its pool and its table apart, whatever  *)
(* the connection table makes of it.                                        *)
LEMMA TableStep ==
  ASSUME TableInv, ActionType, [SnatNext]_allVars
  PROVE  TableInv' /\ ActionType'
<1>1. ASSUME UNCHANGED snatVars
      PROVE  TableInv'
  BY <1>1 DEF snatVars, TableInv, TableType, Distinct, PortsState, LanLinked, Free
<1>2. CASE UNCHANGED <<snatVars, action, lost, orphaned>>
  BY <1>1, <1>2 DEF ActionType
<1>3. ASSUME NEW f \in Flows, NEW c \in Ctxs, KnownPacket(f, c)
      PROVE  TableInv' /\ ActionType'
  BY <1>2, <1>3 DEF KnownPacket
<1>4. ASSUME NEW h \in Hosts, NEW s \in Servers, NEW p \in SnatPorts, NEW c \in Ctxs,
             NewUpstream(h, s, p, c)
      PROVE  TableInv' /\ ActionType'
  <2>1. LanAccepts(h, s, p) /\ action' = [action EXCEPT ![c] = p]
        /\ UNCHANGED <<lost, orphaned>>
    BY <1>4 DEF NewUpstream
  <2> QED
    BY <2>1, AcceptTable DEF ActionType
<1>5. ASSUME NEW h \in Hosts, NEW s \in Servers, NEW p \in SnatPorts,
             UpstreamNotAdded(h, s, p)
      PROVE  TableInv' /\ ActionType'
  <2>1. LanAccepts(h, s, p) /\ lost' = TRUE /\ UNCHANGED <<action, orphaned>>
    BY <1>5 DEF UpstreamNotAdded
  <2> QED
    BY <2>1, AcceptTable DEF ActionType
<1>6. ASSUME NEW h \in Hosts, NEW s \in Servers, UpstreamDropped(h, s)
      PROVE  TableInv' /\ ActionType'
  BY <1>6, RefuseTable DEF UpstreamDropped, ActionType
<1>7. ASSUME NEW s \in Servers, NEW p \in SnatPorts, NEW c \in Ctxs, NewDownstream(s, p, c)
      PROVE  TableInv' /\ ActionType'
  <2>1. /\ snat_table[WanFlow(s, p)] # NULL
        /\ action' = [action EXCEPT ![c] = ReplyTo(snat_table[WanFlow(s, p)])]
        /\ UNCHANGED snatVars /\ UNCHANGED <<lost, orphaned>>
    BY <1>7 DEF NewDownstream
  <2>2. snat_table[WanFlow(s, p)] = p
    BY <2>1 DEF TableInv, PortsState
  <2>3. entries[p] \in Hosts \cup {NULL}
    BY DEF TableInv, TableType
  <2>4. action' \in [Ctxs -> SnatPorts \cup Hosts \cup {NULL}]
    BY <2>1, <2>2, <2>3 DEF ActionType, ReplyTo
  <2> QED
    BY <1>1, <2>1, <2>4 DEF ActionType
<1>8. ASSUME NEW s \in Servers, NEW p \in SnatPorts, DownstreamNotAdded(s, p)
      PROVE  TableInv' /\ ActionType'
  BY <1>2, <1>8 DEF DownstreamNotAdded
<1>9. CASE SnatExpire
  BY <1>9, AgingTable DEF SnatExpire, ActionType
<1>10. CASE UNCHANGED allVars
  BY <1>2, <1>10 DEF allVars
<1> QED
  BY <1>3, <1>4, <1>5, <1>6, <1>7, <1>8, <1>9, <1>10 DEF SnatNext

-----------------------------------------------------------------------------
(* A packet is accounted to the context of its flow, a free one if there is *)
(* none, and no other context changes.                                      *)
LEMMA PacketOwner ==
  ASSUME Agreement, NEW f \in Flows, NEW c \in Ctxs, NEW p \in Priorities,
         PacketProcessor(f, c, p)
  PROVE  /\ ctx'[c].flow = f /\ \A d \in Ctxs \ {c} : ctx'[d] = ctx[d]
         /\ \/ CT[f] = c /\ c \in InUse /\ ctx[c].flow = f /\ POOL' = POOL
            \/ CT[f] = NULL /\ c \in POOL /\ POOL' = POOL \ {c}
<1>1. TypeOK /\ PoolAgrees /\ WatchersAgree
  BY DEF Agreement
<1>2. /\ Lookup(f, c, p)
      /\ \E R : ctx' = [ctx EXCEPT ![c] = R] /\ R.flow = Counted(f, c, p).flow
  <2>1. CASE PacketForwarded(f, c, p)
    BY <2>1 DEF PacketForwarded
  <2>2. CASE PacketEnqueues(f, c, p)
    BY <2>2, SnatAssumption DEF PacketEnqueues
  <2>3. ASSUME NEW o \in Outcomes, NEW h \in Handles(o), PacketOffloads(f, c, p, o, h)
        PROVE  /\ Lookup(f, c, p)
               /\ \E R : ctx' = [ctx EXCEPT ![c] = R] /\ R.flow = Counted(f, c, p).flow
    <3>1. Lookup(f, c, p)
      BY <2>3 DEF PacketOffloads
    <3>2. Counted(f, c, p) \in Context
      BY <1>1, <3>1, LookupProperties
    <3>3. /\ Offloaded(Counted(f, c, p), h).flow = Counted(f, c, p).flow
          /\ [Counted(f, c, p) EXCEPT !.entry = h].flow = Counted(f, c, p).flow
      BY <3>2 DEF Offloaded, Context
    <3> QED
      BY <2>3, <3>1, <3>3 DEF PacketOffloads
  <2> QED
    BY <2>1, <2>2, <2>3 DEF PacketProcessor
<1>3. Counted(f, c, p).flow = f
  BY <1>1, <1>2, LookupProperties
<1>4. ctx'[c].flow = f /\ \A d \in Ctxs \ {c} : ctx'[d] = ctx[d]
  BY <1>1, <1>2, <1>3 DEF TypeOK
<1>5. \/ CT[f] = c /\ c \in InUse /\ POOL' = POOL
      \/ CT[f] = NULL /\ c \in POOL /\ POOL' = POOL \ {c}
  BY <1>1, <1>2, LookupProperties
<1> QED
  BY <1>1, <1>4, <1>5 DEF PoolAgrees

(* An expiry frees the context of a living connection.                      *)
LEMMA ExpireOwner ==
  ASSUME Agreement, NEW c \in Ctxs,
         SwExpire(c) \/ \E s \in HwSlots : hw[s] = c /\ HwExpire(s)
  PROVE  /\ c \in InUse /\ POOL' = POOL \cup {c}
         /\ \A d \in Ctxs : ctx'[d].flow = ctx[d].flow
<1>1. TypeOK /\ PoolAgrees /\ WatchersAgree
  BY DEF Agreement
<1>2. CASE SwExpire(c)
  <2>1. c \in InUse
    BY <1>1, <1>2 DEF SwExpire, WatchersAgree, InUse
  <2>2. POOL' = POOL \cup {c} /\ ctx' = [ctx EXCEPT ![c].timer = FALSE]
    BY <1>2 DEF SwExpire, DelConn
  <2> QED
    BY <1>1, <2>1, <2>2 DEF TypeOK, Context
<1>3. ASSUME NEW s \in HwSlots, hw[s] = c, HwExpire(s)
      PROVE  /\ c \in InUse /\ POOL' = POOL \cup {c}
             /\ \A d \in Ctxs : ctx'[d].flow = ctx[d].flow
  BY <1>1, <1>3 DEF HwExpire, DelConn, WatchersAgree, Installed
<1> QED
  BY <1>2, <1>3

-----------------------------------------------------------------------------
(* What the table says of the living connections, by their keys.            *)
ReplyState ==
  \A c \in InUse, h \in Hosts, s \in Servers :
    ctx[c].flow = LanFlow(h, s) =>
      /\ action[c] \in SnatPorts
      /\ snat_table[LanFlow(h, s)] = action[c]
      /\ entries[action[c]] = h

Holds(c, p) == ctx[c].flow \in LanFlows /\ action[c] = p

LostState == ~lost => \A p \in SnatPorts : Free(p) \/ \E c \in InUse : Holds(c, p)

DownState ==
  ~orphaned => \A c \in InUse, s \in Servers, p \in SnatPorts :
    ctx[c].flow = WanFlow(s, p) =>
      snat_table[WanFlow(s, p)] = p /\ action[c] = entries[p]

MapState == ReplyState /\ LostState /\ DownState

MapInv == TableInv /\ ActionType /\ MapState

(* Two connections never have the same flow.                                *)
LEMMA OwnFlow ==
  ASSUME Agreement
  PROVE  /\ \A c \in InUse : ctx[c].flow \in Flows /\ CT[ctx[c].flow] = c /\ c # NULL
         /\ \A c, d \in InUse : ctx[c].flow = ctx[d].flow => c = d
  BY ConnSchedAssumption DEF Agreement, PoolAgrees, InUse

(* The port of a living LAN side connection is taken, and by it alone.      *)
LEMMA OwnPort ==
  ASSUME Agreement, MapInv, NEW c \in InUse, NEW h \in Hosts, NEW s \in Servers,
         ctx[c].flow = LanFlow(h, s)
  PROVE  /\ action[c] \in SnatPorts /\ ~Free(action[c]) /\ action[c] # NULL
         /\ snat_table[LanFlow(h, s)] = action[c]
         /\ \A d \in InUse : ctx[d].flow \in LanFlows /\ action[d] = action[c] => d = c
<1>1. action[c] \in SnatPorts /\ snat_table[LanFlow(h, s)] = action[c]
  BY DEF MapInv, MapState, ReplyState
<1>2. ~Free(action[c]) /\ action[c] # NULL
  BY <1>1, SnatAssumption DEF MapInv, TableInv, LanLinked
<1>3. ASSUME NEW d \in InUse, ctx[d].flow \in LanFlows, action[d] = action[c]
      PROVE  d = c
  <2>1. PICK g \in Hosts, t \in Servers : ctx[d].flow = LanFlow(g, t)
    BY <1>3, LanPick
  <2>2. snat_table[LanFlow(g, t)] = action[c]
    BY <1>3, <2>1 DEF MapInv, MapState, ReplyState
  <2>3. LanFlow(g, t) = LanFlow(h, s)
    BY <1>1, <2>2 DEF MapInv, TableInv, LanLinked
  <2> QED
    BY <2>1, <2>3, OwnFlow
<1> QED
  BY <1>1, <1>2, <1>3

(* A packet of a known connection changes nothing the application sees.     *)
LEMMA KnownPacketMap ==
  ASSUME Agreement, MapInv, NEW f \in Flows, NEW c \in Ctxs, KnownPacket(f, c)
  PROVE  MapState'
<1>1. PICK p \in Priorities : PacketProcessor(f, c, p)
  BY DEF KnownPacket, Accounted
<1>2. /\ CT[f] # NULL
      /\ UNCHANGED <<bucket, snat_table, entries, action, lost, orphaned>>
  BY DEF KnownPacket, snatVars
<1>3. InUse' = InUse /\ \A d \in InUse : ctx'[d].flow = ctx[d].flow
  BY <1>1, <1>2, PacketOwner DEF InUse
<1>6. ReplyState'
  BY <1>2, <1>3 DEF MapInv, MapState, ReplyState
<1>7. LostState'
  BY <1>2, <1>3 DEF MapInv, MapState, LostState, Holds, Free
<1>8. DownState'
  BY <1>2, <1>3 DEF MapInv, MapState, DownState
<1> QED
  BY <1>6, <1>7, <1>8 DEF MapState

(* What a port taken for a flow without connection leaves of the others.    *)
LEMMA AcceptOthers ==
  ASSUME Agreement, MapInv, NEW h \in Hosts, NEW s \in Servers, NEW p \in SnatPorts,
         LanAccepts(h, s, p), CT[LanFlow(h, s)] = NULL,
         NEW d \in InUse
  PROVE  /\ ctx[d].flow # LanFlow(h, s)
         /\ \A g \in Hosts, t \in Servers :
              ctx[d].flow = LanFlow(g, t) =>
                /\ action[d] \in SnatPorts /\ action[d] # p
                /\ snat_table'[LanFlow(g, t)] = action[d]
                /\ entries'[action[d]] = g
         /\ ~orphaned => \A t \in Servers, q \in SnatPorts :
              ctx[d].flow = WanFlow(t, q) =>
                snat_table'[WanFlow(t, q)] = q /\ action[d] = entries'[q]
<1>1. ctx[d].flow # LanFlow(h, s)
  BY OwnFlow
<1>2. TableInv
  BY DEF MapInv
<1>3. /\ Free(p) /\ p # NULL
      /\ \A f \in Flows \ {LanFlow(h, s), WanFlow(s, p)} : snat_table'[f] = snat_table[f]
      /\ \A q \in SnatPorts \ {p} : entries'[q] = entries[q]
  BY <1>2, AcceptTable, SnatAssumption
<1>4. ASSUME NEW g \in Hosts, NEW t \in Servers, ctx[d].flow = LanFlow(g, t)
      PROVE  /\ action[d] \in SnatPorts /\ action[d] # p
             /\ snat_table'[LanFlow(g, t)] = action[d]
             /\ entries'[action[d]] = g
  <2>1. action[d] \in SnatPorts /\ action[d] # p /\ snat_table[LanFlow(g, t)] = action[d]
    BY <1>3, <1>4, OwnPort
  <2>2. entries[action[d]] = g
    BY <1>4 DEF MapInv, MapState, ReplyState
  <2>3. LanFlow(g, t) \in Flows \ {LanFlow(h, s), WanFlow(s, p)}
    BY <1>1, <1>4, LanKeys, WanKeys
  <2> QED
    BY <1>3, <2>1, <2>2, <2>3
<1>5. ASSUME ~orphaned, NEW t \in Servers, NEW q \in SnatPorts, ctx[d].flow = WanFlow(t, q)
      PROVE  snat_table'[WanFlow(t, q)] = q /\ action[d] = entries'[q]
  <2>1. snat_table[WanFlow(t, q)] = q /\ action[d] = entries[q] /\ q # NULL
    BY <1>5, SnatAssumption DEF MapInv, MapState, DownState
  <2>2. q # p
    BY <1>2, <1>3, <2>1 DEF TableInv, PortsState
  <2>3. WanFlow(t, q) \in Flows \ {LanFlow(h, s), WanFlow(s, p)}
    BY <2>2, LanKeys, WanKeys
  <2> QED
    BY <1>3, <2>1, <2>2, <2>3
<1> QED
  BY <1>1, <1>4, <1>5

(* The first packet of a LAN side connection.                               *)
LEMMA NewUpstreamMap ==
  ASSUME Agreement, MapInv, NEW h \in Hosts, NEW s \in Servers, NEW p \in SnatPorts,
         NEW c \in Ctxs, NewUpstream(h, s, p, c)
  PROVE  MapState'
<1>1. /\ CT[LanFlow(h, s)] = NULL /\ LanAccepts(h, s, p) /\ TableInv /\ ActionType
      /\ action' = [action EXCEPT ![c] = p]
      /\ UNCHANGED <<lost, orphaned>>
  BY DEF NewUpstream, MapInv
<1>2. PICK r \in Priorities : PacketProcessor(LanFlow(h, s), c, r)
  BY DEF NewUpstream, Accounted
<1>3. /\ ctx'[c].flow = LanFlow(h, s) /\ InUse' = InUse \cup {c} /\ c \notin InUse
      /\ \A d \in InUse : ctx'[d] = ctx[d]
  <2>1. LanFlow(h, s) \in Flows /\ c # NULL
    BY LanKeys, ConnSchedAssumption
  <2> QED
    BY <1>1, <1>2, <2>1, PacketOwner DEF InUse
<1>4. action'[c] = p /\ \A d \in InUse : action'[d] = action[d]
  BY <1>1, <1>3 DEF ActionType, InUse
<1>5. /\ \A q : Free(q)' <=> Free(q) /\ q # p
      /\ snat_table'[LanFlow(h, s)] = p
      /\ entries'[p] = h
  BY <1>1, AcceptTable
<1>7. ReplyState'
  <2> SUFFICES ASSUME NEW d \in InUse', NEW g \in Hosts, NEW t \in Servers,
                      ctx'[d].flow = LanFlow(g, t)
               PROVE  /\ action'[d] \in SnatPorts
                      /\ snat_table'[LanFlow(g, t)] = action'[d]
                      /\ entries'[action'[d]] = g
    BY DEF ReplyState
  <2>1. CASE d = c
    <3>1. g = h /\ t = s
      BY <1>3, <2>1, LanKeys
    <3> QED
      BY <1>4, <1>5, <2>1, <3>1
  <2>2. CASE d \in InUse
    BY <1>1, <1>3, <1>4, <2>2, AcceptOthers
  <2> QED
    BY <1>3, <2>1, <2>2
<1>8. LostState'
  <2> SUFFICES ASSUME ~lost', NEW q \in SnatPorts, ~Free(q)'
               PROVE  \E d \in InUse' : Holds(d, q)'
    BY DEF LostState
  <2>1. CASE q = p
    <3>1. Holds(c, q)'
      BY <1>3, <1>4, <2>1, LanKeys DEF Holds
    <3> QED
      BY <1>3, <3>1
  <2>2. CASE q # p
    <3>1. PICK d \in InUse : Holds(d, q)
      BY <1>1, <1>5, <2>2 DEF MapInv, MapState, LostState
    <3>2. Holds(d, q)'
      BY <1>3, <1>4, <3>1 DEF Holds
    <3> QED
      BY <1>3, <3>2
  <2> QED
    BY <2>1, <2>2
<1>9. DownState'
  <2> SUFFICES ASSUME ~orphaned', NEW d \in InUse', NEW t \in Servers, NEW q \in SnatPorts,
                      ctx'[d].flow = WanFlow(t, q)
               PROVE  snat_table'[WanFlow(t, q)] = q /\ action'[d] = entries'[q]
    BY DEF DownState
  <2>1. d \in InUse
    BY <1>3, LanKeys, WanKeys
  <2> QED
    BY <1>1, <1>3, <1>4, <2>1, AcceptOthers
<1> QED
  BY <1>7, <1>8, <1>9 DEF MapState

(* A port taken for a connection that cannot be added is not counted on.    *)
LEMMA NotAddedMap ==
  ASSUME Agreement, MapInv, NEW h \in Hosts, NEW s \in Servers, NEW p \in SnatPorts,
         UpstreamNotAdded(h, s, p)
  PROVE  MapState'
<1>1. /\ LanAccepts(h, s, p) /\ lost' = TRUE /\ UNCHANGED <<action, orphaned>>
      /\ LanFlow(h, s) \in Flows /\ AddConnFails(LanFlow(h, s))
  BY LanKeys DEF UpstreamNotAdded
<1>2. CT[LanFlow(h, s)] = NULL /\ InUse' = InUse /\ ctx' = ctx
  BY <1>1, AddConnFailsSame DEF AddConnFails, vars, InUse
<1>3. LostState'
  BY <1>1 DEF LostState
<1>4. ReplyState'
  BY <1>1, <1>2, AcceptOthers DEF ReplyState
<1>5. DownState'
  BY <1>1, <1>2, AcceptOthers DEF DownState
<1> QED
  BY <1>3, <1>4, <1>5 DEF MapState

(* A refused key belongs to no living connection.                           *)
LEMMA DroppedMap ==
  ASSUME Agreement, MapInv, NEW h \in Hosts, NEW s \in Servers, UpstreamDropped(h, s)
  PROVE  MapState'
<1>1. /\ CT[LanFlow(h, s)] = NULL /\ TableInv /\ ActionType
      /\ UNCHANGED <<action, lost, orphaned>>
      /\ InUse' = InUse /\ ctx' = ctx
  BY DEF UpstreamDropped, MapInv, vars, InUse
<1>2. /\ bucket' = bucket
      /\ \A f \in Flows \ {LanFlow(h, s)} : snat_table'[f] = snat_table[f]
      /\ \A q \in SnatPorts : ~Free(q) => entries'[q] = entries[q]
  BY <1>1, RefuseTable DEF UpstreamDropped
<1>3. \A d \in InUse : ctx[d].flow # LanFlow(h, s) /\ snat_table'[ctx[d].flow] = snat_table[ctx[d].flow]
  BY <1>1, <1>2, OwnFlow
<1>5. ReplyState'
  <2> SUFFICES ASSUME NEW d \in InUse, NEW g \in Hosts, NEW t \in Servers,
                      ctx[d].flow = LanFlow(g, t)
               PROVE  /\ action[d] \in SnatPorts
                      /\ snat_table'[LanFlow(g, t)] = action[d]
                      /\ entries'[action[d]] = g
    BY <1>1 DEF ReplyState
  <2>1. action[d] \in SnatPorts /\ ~Free(action[d]) /\ snat_table[LanFlow(g, t)] = action[d]
    BY OwnPort
  <2>2. entries[action[d]] = g
    BY DEF MapInv, MapState, ReplyState
  <2> QED
    BY <1>2, <1>3, <2>1, <2>2
<1>6. LostState'
  <2>1. \A q : Free(q)' <=> Free(q)
    BY <1>2 DEF Free
  <2>2. \A d, q : Holds(d, q)' <=> Holds(d, q)
    BY <1>1 DEF Holds
  <2> QED
    BY <1>1, <2>1, <2>2 DEF MapInv, MapState, LostState
<1>7. DownState'
  <2> SUFFICES ASSUME ~orphaned, NEW d \in InUse, NEW t \in Servers, NEW q \in SnatPorts,
                      ctx[d].flow = WanFlow(t, q)
               PROVE  snat_table'[WanFlow(t, q)] = q /\ action[d] = entries'[q]
    BY <1>1 DEF DownState
  <2>1. snat_table[WanFlow(t, q)] = q /\ action[d] = entries[q] /\ q # NULL
    BY SnatAssumption DEF MapInv, MapState, DownState
  <2>2. ~Free(q)
    BY <1>1, <2>1 DEF TableInv, PortsState
  <2> QED
    BY <1>2, <1>3, <2>1, <2>2
<1> QED
  BY <1>5, <1>6, <1>7 DEF MapState

(* The first packet of a WAN side connection.                               *)
LEMMA NewDownstreamMap ==
  ASSUME Agreement, MapInv, NEW s \in Servers, NEW p \in SnatPorts, NEW c \in Ctxs,
         NewDownstream(s, p, c)
  PROVE  MapState'
<1>1. /\ CT[WanFlow(s, p)] = NULL /\ snat_table[WanFlow(s, p)] # NULL
      /\ action' = [action EXCEPT ![c] = ReplyTo(snat_table[WanFlow(s, p)])]
      /\ UNCHANGED <<bucket, snat_table, entries, lost, orphaned>>
      /\ TableInv /\ ActionType
  BY DEF NewDownstream, snatVars, MapInv
<1>2. PICK r \in Priorities : PacketProcessor(WanFlow(s, p), c, r)
  BY DEF NewDownstream, Accounted
<1>3. /\ ctx'[c].flow = WanFlow(s, p) /\ InUse' = InUse \cup {c} /\ c \notin InUse
      /\ \A d \in InUse : ctx'[d] = ctx[d]
  <2>1. WanFlow(s, p) \in Flows /\ c # NULL
    BY WanKeys, ConnSchedAssumption
  <2> QED
    BY <1>1, <1>2, <2>1, PacketOwner DEF InUse
<1>4. snat_table[WanFlow(s, p)] = p
  BY <1>1 DEF TableInv, PortsState
<1>5. action'[c] = entries[p] /\ \A d \in InUse : action'[d] = action[d]
  BY <1>1, <1>3, <1>4 DEF ActionType, InUse, ReplyTo
<1>8. ReplyState'
  <2> SUFFICES ASSUME NEW d \in InUse', NEW g \in Hosts, NEW t \in Servers,
                      ctx'[d].flow = LanFlow(g, t)
               PROVE  /\ action'[d] \in SnatPorts
                      /\ snat_table'[LanFlow(g, t)] = action'[d]
                      /\ entries'[action'[d]] = g
    BY DEF ReplyState
  <2>1. d \in InUse
    BY <1>3, LanKeys, WanKeys
  <2> QED
    BY <1>1, <1>3, <1>5, <2>1 DEF MapInv, MapState, ReplyState
<1>9. LostState'
  <2> SUFFICES ASSUME ~lost', NEW q \in SnatPorts, ~Free(q)'
               PROVE  \E d \in InUse' : Holds(d, q)'
    BY DEF LostState
  <2>1. ~Free(q)
    BY <1>1 DEF Free
  <2>2. PICK d \in InUse : Holds(d, q)
    BY <1>1, <2>1 DEF MapInv, MapState, LostState
  <2>3. Holds(d, q)'
    BY <1>3, <1>5, <2>2 DEF Holds
  <2> QED
    BY <1>3, <2>3
<1>10. DownState'
  <2> SUFFICES ASSUME ~orphaned', NEW d \in InUse', NEW t \in Servers, NEW q \in SnatPorts,
                      ctx'[d].flow = WanFlow(t, q)
               PROVE  snat_table'[WanFlow(t, q)] = q /\ action'[d] = entries'[q]
    BY DEF DownState
  <2>1. CASE d = c
    <3>1. t = s /\ q = p
      BY <1>3, <2>1, WanKeys
    <3> QED
      BY <1>1, <1>4, <1>5, <2>1, <3>1
  <2>2. CASE d \in InUse
    BY <1>1, <1>3, <1>5, <2>2 DEF MapInv, MapState, DownState
  <2> QED
    BY <1>3, <2>1, <2>2
<1> QED
  BY <1>8, <1>9, <1>10 DEF MapState

(* A connection of the WAN side that cannot be added.                       *)
LEMMA DownstreamNotAddedMap ==
  ASSUME MapInv, NEW s \in Servers, NEW p \in SnatPorts, DownstreamNotAdded(s, p)
  PROVE  MapState'
<1>1. UNCHANGED <<POOL, ctx, bucket, snat_table, entries, action, lost, orphaned>>
  BY AddConnFailsSame, WanKeys DEF DownstreamNotAdded, vars, snatVars
<1> QED
  BY <1>1 DEF MapInv, MapState, ReplyState, LostState, DownState, Holds, Free, InUse

(* agingConn_handler after the connection table has freed context c.        *)
LEMMA ExpireMap ==
  ASSUME Agreement, MapInv, NEW c \in InUse, POOL' = POOL \cup {c},
         \A d \in Ctxs : ctx'[d].flow = ctx[d].flow,
         AgingConn(ctx[c].flow), UNCHANGED <<action, lost>>
  PROVE  MapState'
<1>1. TableInv /\ ActionType /\ InUse' = InUse \ {c}
  BY DEF MapInv, InUse
<1>2. \A d \in InUse \ {c} : ctx'[d].flow = ctx[d].flow /\ ctx[d].flow # ctx[c].flow
  BY OwnFlow DEF InUse
<1>3. CASE ctx[c].flow \in LanFlows
  <2>1. PICK h \in Hosts, s \in Servers : ctx[c].flow = LanFlow(h, s)
    BY <1>3, LanPick
  <2> DEFINE p == action[c]
  <2>2. /\ p \in SnatPorts /\ ~Free(p) /\ p # NULL /\ snat_table[LanFlow(h, s)] = p
        /\ \A d \in InUse : ctx[d].flow \in LanFlows /\ action[d] = p => d = c
    BY <2>1, OwnPort
  <2> HIDE DEF p
  <2>3. /\ DelKeys(h, s, p) /\ PoolPut(p) /\ UNCHANGED entries
        /\ orphaned' = (orphaned \/ CT[WanFlow(s, p)] # NULL)
    BY <1>3, <2>1, <2>2, LanKeys DEF AgingConn
  <2>4. /\ \A q : Free(q)' <=> Free(q) \/ q = p
        /\ \A f \in Flows \ {LanFlow(h, s), WanFlow(s, p)} : snat_table'[f] = snat_table[f]
    BY <1>1, <2>2, <2>3, AgeTable
  <2>6. ReplyState'
    <3> SUFFICES ASSUME NEW d \in InUse \ {c}, NEW g \in Hosts, NEW t \in Servers,
                        ctx[d].flow = LanFlow(g, t)
                 PROVE  /\ action[d] \in SnatPorts
                        /\ snat_table'[LanFlow(g, t)] = action[d]
                        /\ entries'[action[d]] = g
      BY <1>1, <1>2 DEF ReplyState
    <3>1. action[d] \in SnatPorts /\ snat_table[LanFlow(g, t)] = action[d]
          /\ entries[action[d]] = g
      BY DEF MapInv, MapState, ReplyState
    <3>2. LanFlow(g, t) \in Flows \ {LanFlow(h, s), WanFlow(s, p)}
      BY <1>2, <2>1, <2>2, LanKeys, WanKeys
    <3> QED
      BY <2>3, <2>4, <3>1, <3>2
  <2>7. LostState'
    <3> SUFFICES ASSUME ~lost, NEW q \in SnatPorts, ~Free(q)'
                 PROVE  \E d \in InUse' : Holds(d, q)'
      BY DEF LostState
    <3>1. PICK d \in InUse : Holds(d, q)
      BY <2>4 DEF MapInv, MapState, LostState
    <3>2. d # c
      BY <2>4, <3>1 DEF Holds, p
    <3>3. Holds(d, q)'
      BY <1>2, <3>1, <3>2 DEF Holds
    <3> QED
      BY <1>1, <3>2, <3>3
  <2>8. DownState'
    <3> SUFFICES ASSUME ~orphaned', NEW d \in InUse \ {c}, NEW t \in Servers, NEW q \in SnatPorts,
                        ctx[d].flow = WanFlow(t, q)
                 PROVE  snat_table'[WanFlow(t, q)] = q /\ action[d] = entries'[q]
      BY <1>1, <1>2 DEF DownState
    <3>1. ~orphaned /\ CT[WanFlow(s, p)] = NULL
      BY <2>3
    <3>2. snat_table[WanFlow(t, q)] = q /\ action[d] = entries[q]
      BY <3>1 DEF MapInv, MapState, DownState
    <3>3. WanFlow(t, q) # WanFlow(s, p)
      BY <3>1, OwnFlow
    <3>4. WanFlow(t, q) \in Flows \ {LanFlow(h, s), WanFlow(s, p)}
      BY <3>3, LanKeys, WanKeys
    <3> QED
      BY <2>3, <2>4, <3>2, <3>4
  <2> QED
    BY <2>6, <2>7, <2>8 DEF MapState
<1>4. CASE ctx[c].flow \notin LanFlows
  <2>1. UNCHANGED <<bucket, snat_table, entries, orphaned>>
    BY <1>4 DEF AgingConn, snatVars
  <2>4. ReplyState'
    BY <1>1, <1>2, <2>1 DEF MapInv, MapState, ReplyState
  <2>5. LostState'
    <3> SUFFICES ASSUME ~lost, NEW q \in SnatPorts, ~Free(q)'
                 PROVE  \E d \in InUse' : Holds(d, q)'
      BY DEF LostState
    <3>1. ~Free(q)
      BY <2>1 DEF Free
    <3>2. PICK d \in InUse : Holds(d, q)
      BY <3>1 DEF MapInv, MapState, LostState
    <3>3. d # c /\ Holds(d, q)'
      BY <1>2, <1>4, <3>2 DEF Holds
    <3> QED
      BY <1>1, <3>3
  <2>6. DownState'
    BY <1>1, <1>2, <2>1 DEF MapInv, MapState, DownState
  <2> QED
    BY <2>4, <2>5, <2>6 DEF MapState
<1> QED
  BY <1>3, <1>4

-----------------------------------------------------------------------------
(* The pool and the table agree always, and with the connections until a    *)
(* connection ends that has a late entry.                                   *)
SnatInv ==
  /\ TypeOK /\ TableInv /\ ActionType
  /\ ~torn => Agreement /\ MapState

LEMMA InitSnat == SnatInit => SnatInv
<1> SUFFICES ASSUME SnatInit PROVE SnatInv
  OBVIOUS
<1>1. Init /\ InUse = {}
  BY DEF SnatInit, Init, InUse
<1>2. \A p \in SnatPorts : Free(p)
  <2>1. PortsState /\ \A f \in Flows : snat_table[f] = NULL
    BY InitTable DEF TableInv, SnatInit
  <2> QED
    BY <2>1, WanKeys DEF PortsState
<1>3. ActionType
  BY DEF SnatInit, ActionType
<1>4. ReplyState /\ LostState /\ DownState
  BY <1>1, <1>2 DEF ReplyState, LostState, DownState
<1> QED
  BY <1>1, <1>3, <1>4, InitType, InitInv, InitTable DEF SnatInv, MapState

(* Every step of the application is one of the connection table, or leaves  *)
(* it alone.                                                                *)
LEMMA SnatStepTable ==
  ASSUME [SnatNext]_allVars
  PROVE  [Next]_vars
<1>1. ASSUME NEW f \in Flows, NEW c \in Ctxs, Accounted(f, c)
      PROVE  Next
  BY <1>1 DEF Accounted, Packet, Next
<1>2. ASSUME NEW f \in Flows, NEW c \in Ctxs, KnownPacket(f, c)
      PROVE  Next
  BY <1>1, <1>2 DEF KnownPacket
<1>3. ASSUME NEW h \in Hosts, NEW s \in Servers, NEW p \in SnatPorts, NEW c \in Ctxs,
             NewUpstream(h, s, p, c)
      PROVE  Next
  BY <1>1, <1>3, LanKeys DEF NewUpstream
<1>4. ASSUME NEW h \in Hosts, NEW s \in Servers, NEW p \in SnatPorts,
             UpstreamNotAdded(h, s, p)
      PROVE  Next
  BY <1>4, LanKeys DEF UpstreamNotAdded, Packet, Next
<1>5. ASSUME NEW h \in Hosts, NEW s \in Servers, UpstreamDropped(h, s)
      PROVE  UNCHANGED vars
  BY <1>5 DEF UpstreamDropped
<1>6. ASSUME NEW s \in Servers, NEW p \in SnatPorts, NEW c \in Ctxs, NewDownstream(s, p, c)
      PROVE  Next
  BY <1>1, <1>6, WanKeys DEF NewDownstream
<1>7. ASSUME NEW s \in Servers, NEW p \in SnatPorts, DownstreamNotAdded(s, p)
      PROVE  Next
  BY <1>7, WanKeys DEF DownstreamNotAdded, Packet, Next
<1>8. CASE SnatExpire
  BY <1>8 DEF SnatExpire, Next
<1>9. CASE UNCHANGED allVars
  BY <1>9 DEF allVars
<1> QED
  BY <1>2, <1>3, <1>4, <1>5, <1>6, <1>7, <1>8, <1>9 DEF SnatNext

LEMMA SnatStepMap ==
  ASSUME Agreement, MapInv, SnatNext
  PROVE  MapState'
<1>1. CASE SnatExpire
  <2>1. ASSUME NEW c \in Ctxs, SwExpire(c), AgingConn(ctx[c].flow), UNCHANGED <<action, lost>>
        PROVE  MapState'
    BY <2>1, ExpireOwner, ExpireMap
  <2>2. ASSUME NEW s \in HwSlots, HwExpire(s), AgingConn(ctx[hw[s]].flow),
               UNCHANGED <<action, lost>>
        PROVE  MapState'
    <3>1. hw[s] \in Ctxs
      BY <2>2 DEF HwExpire, Agreement, TypeOK
    <3>2. /\ hw[s] \in InUse /\ POOL' = POOL \cup {hw[s]}
          /\ \A d \in Ctxs : ctx'[d].flow = ctx[d].flow
      BY <2>2, <3>1, ExpireOwner
    <3> QED
      BY <2>2, <3>2, ExpireMap
  <2> QED
    BY <1>1, <2>1, <2>2 DEF SnatExpire
<1> QED
  BY <1>1, KnownPacketMap, NewUpstreamMap, NotAddedMap, DroppedMap, NewDownstreamMap,
     DownstreamNotAddedMap
     DEF SnatNext

LEMMA SnatInvariance == SnatSpec => []SnatInv
<1>1. SnatInv /\ [SnatNext]_allVars => SnatInv'
  <2> SUFFICES ASSUME SnatInv, [SnatNext]_allVars PROVE SnatInv'
    OBVIOUS
  <2>1. [Next]_vars
    BY SnatStepTable
  <2>2. TypeOK' /\ TableInv' /\ ActionType'
    BY <2>1, TypeStep, TableStep DEF SnatInv
  <2>3. ASSUME ~torn'
        PROVE  Agreement' /\ MapState'
    <3>1. Agreement /\ MapState
      BY <2>1, <2>3, TornStays DEF SnatInv
    <3>2. CASE UNCHANGED allVars
      <4>1. UNCHANGED <<POOL, ctx, bucket, snat_table, entries, action, lost, orphaned>>
        BY <3>2 DEF allVars, snatVars, vars
      <4>2. MapState'
        BY <3>1, <4>1 DEF MapState, ReplyState, LostState, DownState, Holds, Free, InUse
      <4> QED
        BY <2>1, <2>3, <3>1, <4>2, NextInv
    <3>3. CASE SnatNext
      BY <2>1, <2>3, <3>1, <3>3, NextInv, SnatStepMap DEF SnatInv, MapInv
    <3> QED
      BY <3>2, <3>3
  <2> QED
    BY <2>2, <2>3 DEF SnatInv
<1> QED
  BY <1>1, InitSnat, PTL DEF SnatSpec

(* The list of flowQoS_snat.c and its table agree: a port is free or        *)
(* reserved towards one server, whatever is refused, expires, comes late or *)
(* cannot be added, for all hosts, servers and ports.                       *)
THEOREM PortSafety == SnatSpec => []PortsExact
<1>1. SnatInv => PortsExact
  BY PortsSame DEF SnatInv, TableInv, TableType, ActionType, SnatTypeOK
<1> QED
  BY <1>1, SnatInvariance, PTL

(* As long as a LAN side connection lives, an answer to the port that       *)
(* newConn_handler gave it finds its host.                                  *)
THEOREM ReplySafety == SnatSpec => []ReplyFindsHost
<1>1. ASSUME SnatInv PROVE ReplyFindsHost
  <2> SUFFICES ASSUME ~torn, NEW c \in InUse, ctx[c].flow \in LanFlows
               PROVE  /\ action[c] \in SnatPorts
                      /\ snat_table[ctx[c].flow] = action[c]
                      /\ snat_table[WanFlow(ctx[c].flow.to, action[c])] = action[c]
                      /\ entries[action[c]] = ctx[c].flow.from
    BY DEF ReplyFindsHost, Upstream
  <2>1. PICK h \in Hosts, s \in Servers : ctx[c].flow = LanFlow(h, s)
    BY LanPick
  <2>2. /\ action[c] \in SnatPorts /\ snat_table[LanFlow(h, s)] = action[c]
        /\ entries[action[c]] = h
    BY <1>1, <2>1 DEF SnatInv, MapState, ReplyState
  <2>3. snat_table[WanFlow(s, action[c])] = action[c]
    BY <1>1, <2>2 DEF SnatInv, TableInv, LanLinked
  <2> QED
    BY <2>1, <2>2, <2>3, LanKeys
<1> QED
  BY <1>1, SnatInvariance, PTL

(* No port leaks until a connection fails to be added behind the handler.   *)
THEOREM NoLeak == SnatSpec => []NoPortLost
<1>1. SnatInv => NoPortLost
  BY DEF SnatInv, MapState, LostState, Holds, NoPortLost, Upstream
<1> QED
  BY <1>1, SnatInvariance, PTL

(* Packets of a server go to the host its port is mapped to, until a        *)
(* mapping goes while the connection of the WAN side still lives.           *)
THEOREM DownstreamSafety == SnatSpec => []DownstreamCurrent
<1>1. ASSUME SnatInv PROVE DownstreamCurrent
  <2> SUFFICES ASSUME ~orphaned, ~torn, NEW c \in InUse, ctx[c].flow \in WanFlows
               PROVE  /\ snat_table[ctx[c].flow] = ctx[c].flow.to
                      /\ action[c] = entries[ctx[c].flow.to]
    BY DEF DownstreamCurrent, Downstream
  <2>1. PICK s \in Servers, p \in SnatPorts : ctx[c].flow = WanFlow(s, p)
    BY WanPick
  <2>2. snat_table[WanFlow(s, p)] = p /\ action[c] = entries[p]
    BY <1>1, <2>1 DEF SnatInv, MapState, DownState
  <2> QED
    BY <2>1, <2>2, WanKeys
<1> QED
  BY <1>1, SnatInvariance, PTL
=============================================================================
