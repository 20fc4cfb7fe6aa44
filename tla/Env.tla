-------------------------------- MODULE Env ---------------------------------
(***************************************************************************)
(* Start and end of a program (flowQoS_env.c, common/src/dpdk_utils.c):    *)
(* what flowQoS_env_init acquires, what it rolls back when a step fails,   *)
(* and what flowQoS_env_destroy releases.  The applications ignore the     *)
(* result of flowQoS_env_init: they go on, and call flowQoS_env_destroy,   *)
(* after a failure too.                                                    *)
(*                                                                         *)
(* DPDK and doca-flow are external: any call of theirs that the code       *)
(* checks may fail, the ones that undo something succeed.                  *)
(***************************************************************************)
EXTENDS Integers, Sequences, FiniteSets

Ports == {0, 1}       \* NB_PORTS

VARIABLES
  pc,
  init_ok,    \* history: flowQoS_env_init returned DOCA_SUCCESS
  argp,       \* doca_argp, the EAL and doca-flow: "none", "up" or "down"
  eal,
  doca,
  mempool,    \* MBUF_POOL has been made
  eth,        \* the ports of DPDK
  bound,      \* hairpin bindings, pairs of a sending and a receiving port
  ports,      \* ports[]: NULL, a live doca-flow port or one destroyed
  cut,        \* history: a hairpin binding failed half way
  misuse      \* history: what was used or released after its end

envVars == <<pc, init_ok, argp, eal, doca, mempool, eth, bound, ports, cut, misuse>>

Lifecycle == {"none", "up", "down"}

EnvInit ==
  /\ pc = "argp"
  /\ init_ok = FALSE
  /\ argp = "none" /\ eal = "none" /\ doca = "none"
  /\ mempool = FALSE
  /\ eth = [p \in Ports |-> "none"]
  /\ bound = {}
  /\ ports = [p \in Ports |-> "none"]
  /\ cut = FALSE
  /\ misuse = {}

-----------------------------------------------------------------------------
(* dpdk_utils.c                                                             *)

(* Mutant: the last port is left out.                                       *)
ClosePortsBut(n) ==
  [p \in Ports |-> IF p < n - 1 /\ eth[p] # "none" THEN "closed" ELSE eth[p]]

(* dpdk_ports_fini: the valid ports below n are stopped and closed.         *)
ClosePorts(n) ==
  [p \in Ports |-> IF p < n /\ eth[p] # "none" THEN "closed" ELSE eth[p]]

(* Mutant: the ports that were started before the failing one stay open.    *)
RollbackForgotten(n) == eth

(* dpdk_ports_init closes the ports before the one that failed.             *)
Rollback(n) == ClosePorts(n)

(* The bindings of port p, as sender and as receiver; its peer is p ^ 1.    *)
Hairpins(p) == {<<p, 1 - p>>, <<1 - p, p>>}

(* disable_hairpin_queues(n) when b is bound: unbind_hairpin_queues for     *)
(* each valid port below n.                                                 *)
Unbind(b, n) ==
  b \ UNION {Hairpins(p) : p \in {q \in Ports : q < n /\ eth[q] = "started"}}

(* What every failure inside dpdk_queues_and_ports_init leads to in         *)
(* flowQoS_env_init: dpdk_fini, doca_argp_destroy, EXIT_FAILURE.            *)
DpdkFailed ==
  /\ eal' = "down"
  /\ argp' = "down"
  /\ pc' = "main"

(* allocate_mempool: one pool for all ports, which nothing frees.           *)
AllocateMempool == mempool' = TRUE

(* dpdk_queues_and_ports_init up to the ports: too few ports or lcores, no  *)
(* memory for the pool, or afterwards no metadata field.                    *)
CheckDevices ==
  /\ pc = "devices"
  /\ \/ AllocateMempool /\ pc' = "port0" /\ UNCHANGED <<eal, argp>>
     \/ DpdkFailed /\ (AllocateMempool \/ UNCHANGED mempool)
  /\ UNCHANGED <<init_ok, doca, eth, bound, ports, cut, misuse>>

PortStep(p) == IF p = 0 THEN "port0" ELSE "port1"
BindStep(p) == IF p = 0 THEN "bind0" ELSE "bind1"

(* setup_hairpin_queues: the port has its queues but is not started, which  *)
(* is also how a failure in the middle of them leaves it.                   *)
SetupHairpinQueues == "configured"

(* port_init: configure, queues, hairpin queues, isolation, start.  A port  *)
(* whose start was not reached is left as it is.                            *)
PortInit(p) ==
  /\ pc = PortStep(p)
  /\ \/ /\ eth' = [eth EXCEPT ![p] = "started"]
        /\ pc' = IF p = 0 THEN "port1" ELSE "bind0"
        /\ UNCHANGED <<eal, argp>>
     \/ /\ \E s \in {"probed", SetupHairpinQueues} :
             eth' = [Rollback(p) EXCEPT ![p] = s]
        /\ DpdkFailed
  /\ UNCHANGED <<init_ok, doca, mempool, bound, ports, cut, misuse>>

(* enable_hairpin_queues: bind_hairpin_queues binds the port's sender to    *)
(* its peer's receiver, then the peer's sender to the port's receiver.      *)
BindHairpin(p) ==
  /\ pc = BindStep(p)
  /\ bound' = bound \cup Hairpins(p)
  /\ pc' = IF p = 0 THEN "bind1" ELSE "doca"
  /\ UNCHANGED <<init_ok, argp, eal, doca, mempool, eth, ports, cut, misuse>>

(* A binding fails, the port's first or its second one: the ports before p  *)
(* are unbound, what port p itself has bound is not, and all are closed.    *)
BindFails(p) ==
  /\ pc = BindStep(p)
  /\ \E half \in {{}, {<<p, 1 - p>>}} :
       /\ bound' = Unbind(bound \cup half, p)
       /\ cut' = (bound' # {})
  /\ eth' = ClosePorts(2)
  /\ DpdkFailed
  /\ UNCHANGED <<init_ok, doca, mempool, ports, misuse>>

-----------------------------------------------------------------------------
(* flowQoS_env_init                                                         *)

ArgpInit ==
  /\ pc = "argp"
  /\ \/ argp' = "up" /\ pc' = "eal"
     \/ UNCHANGED argp /\ pc' = "main"
  /\ UNCHANGED <<init_ok, eal, doca, mempool, eth, bound, ports, cut, misuse>>

(* doca_argp_start parses the arguments and calls dpdk_init.                *)
ArgpStart ==
  /\ pc = "eal"
  /\ \/ /\ eal' = "up" /\ pc' = "devices"
        /\ eth' = [p \in Ports |-> "probed"]
        /\ UNCHANGED argp
     \/ argp' = "down" /\ pc' = "main" /\ UNCHANGED <<eal, eth>>
  /\ UNCHANGED <<init_ok, doca, mempool, bound, ports, cut, misuse>>

(* init_doca_flow; its failure returns with everything before it in place.  *)
InitDocaFlow ==
  /\ pc = "doca"
  /\ \/ doca' = "up" /\ pc' = "start0"
     \/ pc' = "main" /\ UNCHANGED doca
  /\ UNCHANGED <<init_ok, argp, eal, mempool, eth, bound, ports, cut, misuse>>

(* destroy_doca_flow_ports: the pointers keep their values.                 *)
Destroyed == [p \in Ports |-> IF ports[p] = "none" THEN "none" ELSE "down"]

(* create_doca_flow_port                                                    *)
CreateDocaFlowPort(p) == [ports EXCEPT ![p] = "up"]

(* init_doca_flow_ports: port 0 is started, port 1 is started and paired.   *)
(* A failure destroys what was started, and doca-flow with it.              *)
StartDocaPort(p) ==
  /\ pc = (IF p = 0 THEN "start0" ELSE "start1")
  /\ \/ /\ ports' = CreateDocaFlowPort(p)
        /\ pc' = IF p = 0 THEN "start1" ELSE "message"
        /\ UNCHANGED doca
     \/ /\ \E s \in {"none", "down"} :   \* not started, or started and not paired
             /\ s = "down" => p = 1
             /\ ports' = [Destroyed EXCEPT ![p] = s]
        /\ doca' = "down"
        /\ pc' = "main"
  /\ UNCHANGED <<init_ok, argp, eal, mempool, eth, bound, cut, misuse>>

(* flowQoS_message_init                                                     *)
MessageInit ==
  /\ pc = "message"
  /\ init_ok' \in BOOLEAN
  /\ pc' = "main"
  /\ UNCHANGED <<argp, eal, doca, mempool, eth, bound, ports, cut, misuse>>

-----------------------------------------------------------------------------
(* flowQoS_env_destroy                                                      *)

(* Something is released that is not up.                                    *)
Misused ==
  (IF \E p \in Ports : ports[p] = "down" THEN {"ports"} ELSE {})
    \cup (IF doca = "up" THEN {} ELSE {"doca"})
    \cup (IF eal = "up" THEN {} ELSE {"eal"})
    \cup (IF argp = "up" THEN {} ELSE {"argp"})

(* The hairpins are disabled, then the ports are closed.                    *)
DpdkQueuesAndPortsFini ==
  /\ bound' = Unbind(bound, 2)
  /\ eth' = ClosePorts(2)

EnvDestroy ==
  /\ pc = "exit"
  /\ misuse' = misuse \cup Misused
  /\ ports' = Destroyed
  /\ doca' = "down"
  /\ DpdkQueuesAndPortsFini
  /\ eal' = "down"
  /\ argp' = "down"
  /\ pc' = "ended"
  /\ UNCHANGED <<init_ok, mempool, cut>>

EnvNext ==
  \/ ArgpInit \/ ArgpStart \/ CheckDevices
  \/ \E p \in Ports :
       PortInit(p) \/ BindHairpin(p) \/ BindFails(p) \/ StartDocaPort(p)
  \/ InitDocaFlow \/ MessageInit \/ EnvDestroy

-----------------------------------------------------------------------------
EnvTypeOK ==
  /\ pc \in {"argp", "eal", "devices", "port0", "port1", "bind0", "bind1", "doca",
             "start0", "start1", "message", "main", "running", "exit", "ended", "crashed"}
  /\ init_ok \in BOOLEAN /\ mempool \in BOOLEAN /\ cut \in BOOLEAN
  /\ argp \in Lifecycle /\ eal \in Lifecycle /\ doca \in Lifecycle
  /\ eth \in [Ports -> {"none", "probed", "configured", "started", "closed"}]
  /\ bound \subseteq Ports \X Ports
  /\ ports \in [Ports -> Lifecycle]
  /\ misuse \subseteq {"ports", "doca", "eal", "argp", "pipe"}

(* A program whose flowQoS_env_init succeeded ends with everything released *)
(* once and nothing used after its end, whatever failed in between.         *)
CleanExit ==
  pc = "ended" /\ init_ok =>
    /\ misuse = {}
    /\ \A p \in Ports : eth[p] = "closed" /\ ports[p] = "down"

(* Each partial failure of dpdk_queues_and_ports_init closes the ports that *)
(* had been started, so that none runs once the EAL is down, and hairpin    *)
(* bindings are between running ports: both ends are unbound before a port  *)
(* is closed.  A binding that fails half way on the first port is the       *)
(* exception: enable_hairpin_queues unbinds the ports before it only.       *)
PortsOrderly ==
  /\ EnvTypeOK
  /\ eal = "down" => \A p \in Ports : eth[p] # "started"
  /\ ~cut => \A b \in bound : eth[b[1]] = "started" /\ eth[b[2]] = "started"
=============================================================================
