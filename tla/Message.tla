------------------------------- MODULE Message -------------------------------
(***************************************************************************)
(* flowQoS_message.c: the main core hands a task to every worker core      *)
(* through one ring each and collects their replies through another.  The  *)
(* messages come from one pool that all cores share.                       *)
(*                                                                         *)
(* A message is the number of the call it belongs to.  In the code a reply *)
(* carries the constant 1 and nothing compares it with a call: the numbers *)
(* in the reply rings are read by the properties only.                     *)
(***************************************************************************)
EXTENDS Integers, Sequences, FiniteSets

CONSTANTS
  SlaveNum,        \* worker cores
  MAX_RING_COUNT,  \* size of a ring; one place less can be used
  MaxCalls         \* bound: calls of flowQoS_message_multiThread_do

ASSUME MessageAssumption ==
  /\ SlaveNum \in Nat \ {0}
  /\ MAX_RING_COUNT \in Nat \ {0}
  /\ MaxCalls \in Nat

Slaves == 1 .. SlaveNum

VARIABLES
  call,     \* number of the master's present or last call
  master,   \* where the master is
  at,       \* the slave its loop is at
  got,      \* replies collected, res of flowQoS_message_multicast_recv
  ret,      \* what the last call has returned
  slave,    \* where each slave is
  task,     \* the task each slave has taken last
  last,     \* the task it has finished last
  tx,       \* master_to_slave_ring
  rx,       \* slave_to_master_ring
  pool,     \* free messages of FlowQoS_MESSAGE_POOL
  timely    \* history: the master has not given up on a worker so far

masterVars == <<call, master, at, got, ret>>
vars == <<call, master, at, got, ret, slave, task, last, tx, rx, pool, timely>>

PoolSize == SlaveNum * 2 * MAX_RING_COUNT

(* flowQoS_message_init                                                     *)
Init ==
  /\ call = 0 /\ master = "idle" /\ at = 1 /\ got = 0 /\ ret = 0
  /\ slave = [s \in Slaves |-> "poll"]
  /\ task = [s \in Slaves |-> 0]
  /\ last = [s \in Slaves |-> 0]
  /\ tx = [s \in Slaves |-> <<>>]
  /\ rx = [s \in Slaves |-> <<>>]
  /\ pool = PoolSize
  /\ timely = TRUE

(* rte_ring_enqueue fails on a ring that is full.                           *)
Full(ring) == Len(ring) >= MAX_RING_COUNT - 1

(* Mutant: the message is not freed when the ring is full.                  *)
EnqueueLeaks(rings, s, m) ==
  IF Full(rings[s]) THEN UNCHANGED <<rings, pool>>
                    ELSE rings' = [rings EXCEPT ![s] = Append(@, m)] /\ UNCHANGED pool

(* flowQoS_send_msg after flowQoS_make_msg: the message in hand goes into   *)
(* the ring or back to the pool.                                            *)
Enqueue(rings, s, m) ==
  IF Full(rings[s])
    THEN pool' = pool + 1 /\ UNCHANGED rings
    ELSE rings' = [rings EXCEPT ![s] = Append(@, m)] /\ UNCHANGED pool

-----------------------------------------------------------------------------
(* flowQoS_message_multiThread_do on the main core.                         *)

Call ==
  /\ master = "idle" /\ call < MaxCalls
  /\ call' = call + 1
  /\ master' = "make" /\ at' = 1
  /\ UNCHANGED <<got, ret, slave, task, last, tx, rx, pool, timely>>

(* The loop goes to the next slave, or its end leads to `done'.             *)
Advance(loop, done) ==
  IF at < SlaveNum THEN at' = at + 1 /\ master' = loop
                   ELSE at' = 1 /\ master' = done

(* flowQoS_make_msg in flowQoS_message_multicast_send                       *)
MasterMakes ==
  /\ master = "make"
  /\ IF pool > 0
       THEN pool' = pool - 1 /\ master' = "enqueue" /\ UNCHANGED <<at, got>>
       ELSE Advance("make", "recv") /\ got' = 0 /\ UNCHANGED pool
  /\ UNCHANGED <<call, ret, slave, task, last, tx, rx, timely>>

MasterEnqueues ==
  /\ master = "enqueue"
  /\ Enqueue(tx, at, call)
  /\ Advance("make", "recv")
  /\ got' = 0
  /\ UNCHANGED <<call, ret, slave, task, last, rx, timely>>

(* flowQoS_recv_msg takes a reply out of the ring of slave `at' ...         *)
MasterDequeues ==
  /\ master = "recv"
  /\ rx[at] # <<>>
  /\ rx' = [rx EXCEPT ![at] = Tail(@)]
  /\ master' = "free"
  /\ UNCHANGED <<call, at, got, ret, slave, task, last, tx, pool, timely>>

(* ... and frees it.                                                        *)
MasterFrees ==
  /\ master = "free"
  /\ pool' = pool + 1
  /\ got' = got + 1
  /\ Advance("recv", "return")
  /\ UNCHANGED <<call, ret, slave, task, last, tx, rx, timely>>

(* 300 times 10 ms without a reply.                                         *)
MasterGivesUp ==
  /\ master = "recv"
  /\ rx[at] = <<>>
  /\ Advance("recv", "return")
  /\ timely' = FALSE
  /\ UNCHANGED <<call, got, ret, slave, task, last, tx, rx, pool>>

MasterReturns ==
  /\ master = "return"
  /\ ret' = IF got = SlaveNum THEN 1 ELSE 0
  /\ master' = "idle"
  /\ UNCHANGED <<call, at, got, slave, task, last, tx, rx, pool, timely>>

-----------------------------------------------------------------------------
(* flowQoS_message_multiThread_do_slave, in every pass of a worker's loop.  *)

SlaveDequeues(s) ==
  /\ slave[s] = "poll"
  /\ tx[s] # <<>>
  /\ task' = [task EXCEPT ![s] = Head(tx[s])]
  /\ tx' = [tx EXCEPT ![s] = Tail(@)]
  /\ slave' = [slave EXCEPT ![s] = "free"]
  /\ UNCHANGED <<masterVars, last, rx, pool, timely>>

SlaveFrees(s) ==
  /\ slave[s] = "free"
  /\ pool' = pool + 1
  /\ slave' = [slave EXCEPT ![s] = "run"]
  /\ UNCHANGED <<masterVars, task, last, tx, rx, timely>>

(* Mutant: the reply is not sent.                                           *)
SlaveRunsSilently(s) ==
  /\ slave[s] = "run"
  /\ last' = [last EXCEPT ![s] = task[s]]
  /\ slave' = [slave EXCEPT ![s] = "poll"]
  /\ UNCHANGED <<masterVars, task, tx, rx, pool, timely>>

(* Mutant: the reply is made before the task is run.                        *)
SlaveRunsLater(s) ==
  /\ slave[s] = "run"
  /\ slave' = [slave EXCEPT ![s] = "make"]
  /\ UNCHANGED <<masterVars, task, last, tx, rx, pool, timely>>

(* task.cb(task.args)                                                       *)
SlaveRuns(s) ==
  /\ slave[s] = "run"
  /\ last' = [last EXCEPT ![s] = task[s]]
  /\ slave' = [slave EXCEPT ![s] = "make"]
  /\ UNCHANGED <<masterVars, task, tx, rx, pool, timely>>

SlaveMakes(s) ==
  /\ slave[s] = "make"
  /\ IF pool > 0
       THEN pool' = pool - 1 /\ slave' = [slave EXCEPT ![s] = "enqueue"]
       ELSE UNCHANGED pool /\ slave' = [slave EXCEPT ![s] = "poll"]
  /\ UNCHANGED <<masterVars, task, last, tx, rx, timely>>

SlaveEnqueues(s) ==
  /\ slave[s] = "enqueue"
  /\ Enqueue(rx, s, task[s])
  /\ slave' = [slave EXCEPT ![s] = "poll"]
  /\ UNCHANGED <<masterVars, task, last, tx, timely>>

(* The steps of a call, but for the end of a wait.                          *)
MasterProceeds ==
  \/ MasterMakes
  \/ MasterEnqueues
  \/ MasterDequeues
  \/ MasterFrees
  \/ MasterReturns

Master == Call \/ MasterGivesUp \/ MasterProceeds

Slave(s) ==
  \/ SlaveDequeues(s)
  \/ SlaveFrees(s)
  \/ SlaveRuns(s)
  \/ SlaveMakes(s)
  \/ SlaveEnqueues(s)

Next == Master \/ \E s \in Slaves : Slave(s)

Spec == Init /\ [][Next]_vars

(* The workers poll without pause, every task returns, and a call of the    *)
(* master goes on; nothing makes the master call, or give up.               *)
FairSpec ==
  /\ Spec
  /\ WF_vars(MasterProceeds)
  /\ \A s \in Slaves : WF_vars(Slave(s))

-----------------------------------------------------------------------------
(* Rings, pool and program counters have the values the code gives them.    *)
TypeOK ==
  /\ call \in 0 .. MaxCalls
  /\ master \in {"idle", "make", "enqueue", "recv", "free", "return"}
  /\ at \in Slaves /\ got \in 0 .. SlaveNum /\ ret \in {0, 1}
  /\ slave \in [Slaves -> {"poll", "free", "run", "make", "enqueue"}]
  /\ task \in [Slaves -> 0 .. MaxCalls] /\ last \in [Slaves -> 0 .. MaxCalls]
  /\ \A s \in Slaves : Len(tx[s]) < MAX_RING_COUNT /\ Len(rx[s]) < MAX_RING_COUNT
  /\ pool \in 0 .. PoolSize /\ timely \in BOOLEAN

(* The messages a core holds between a ring and the pool.                   *)
InHand ==
  (IF master \in {"enqueue", "free"} THEN 1 ELSE 0)
    + Cardinality({s \in Slaves : slave[s] \in {"free", "enqueue"}})

(* The sum of f over S, as the size of a disjoint union, about which the    *)
(* library has theorems.                                                    *)
Units(f, S) == UNION {{s} \X (1 .. f[s]) : s \in S}
SumOver(f, S) == Cardinality(Units(f, S))
Sum(f) == SumOver(f, Slaves)

InRings == Sum([s \in Slaves |-> Len(tx[s]) + Len(rx[s])])

(* No message is lost or freed twice, over full rings, replies nobody waits *)
(* for any more and workers that lag behind, and no ring overflows.         *)
MessagesExact == TypeOK /\ pool + InHand + InRings = PoolSize

(* "master core sends task to slaves through rte_ring and waits for the     *)
(* task being finished ... return 1 if succeed" (flowQoS_message.h): when a *)
(* call has returned 1, every worker has finished the task of this call,    *)
(* and a worker runs a task only while its call is in progress (the         *)
(* arguments may be in the caller's frame, as in printFlowQoS_master).      *)
(* Both hold as long as flowQoS_message_multicast_recv has never given up.  *)
TimelySuccess ==
  timely =>
    /\ master = "idle" /\ ret = 1 => \A s \in Slaves : last[s] = call
    /\ \A s \in Slaves : slave[s] = "run" => task[s] = call /\ master # "idle"

(* flowQoS_message_multiThread_do returns even if it never gave up: master  *)
(* and workers do not wait for one another, also with full rings and after  *)
(* calls that did give up.                                                  *)
CallsReturn == master # "idle" ~> master = "idle"
=============================================================================
