------------------------------ MODULE Startup -------------------------------
(***************************************************************************)
(* The main functions of the applications (apps/), between flowQoS_env_init*)
(* and flowQoS_env_destroy: the pipes they build, the entries they install *)
(* and what they do when one of these fails.  A main is a list of steps,   *)
(* each with the code's answer to its failure:                             *)
(*   exit    goto EXIT or return 0 to a caller that does;                  *)
(*   return  flowQoS_conntrack_init_port returns 0, its callers test < 0   *)
(*           and go on;                                                    *)
(*   note    the result is tested after some more steps;                   *)
(*   ignore  the result is not tested.                                     *)
(***************************************************************************)
EXTENDS Pipe, FiniteSetsExt

CONSTANTS
  Apps,         \* the applications started
  MaxEntries    \* capacity of a drop pipe (MAX_RULES * 2) and of conntrack's pipes

Programs == {"firewall", "lb", "snat", "ar", "ecmp", "vxlan"}

ASSUME StartupAssumption == Apps \subseteq Programs /\ MaxEntries \in Nat

VARIABLES
  app,
  at,           \* the next step of main
  noted,        \* a noted step failed
  enabled,      \* attr.PORT_CT_ENABLED
  open          \* history: the entries whose result is ignored came in time

mainVars == <<app, at, noted, enabled, open>>

Protocols == {"TCP", "UDP"}

MainInit ==
  /\ app \in Apps
  /\ at = 1
  /\ noted = FALSE
  /\ enabled = {}
  /\ open = TRUE

-----------------------------------------------------------------------------
(* Pipes: a name and the port.                                              *)
Hairpin(p) == <<"hairpin_pipe", p>>
DropPipe(proto, p) == <<proto, p>>
RssPipe(p) == <<"RSS-PIPE", p>>
ConnPipe(proto, p) == IF proto = "TCP" THEN <<"TCP-PIPE", p>> ELSE <<"UDP-PIPE", p>>
DownstreamPipe(proto) == IF proto = "TCP" THEN <<"LAN-TCP", 0>> ELSE <<"LAN-UDP", 0>>
FwdPipe == <<"FWD-PIPE", 1>>
ProbePipe == <<"PROBE-PIPE", 1>>
EcmpPipe(p) == <<"fwd", p>>
SprayPipe(p) == <<"stream", p>>

AllPipes ==
  (UNION {{Hairpin(p), RssPipe(p), EcmpPipe(p), SprayPipe(p)} : p \in Ports})
    \cup {DropPipe(x, p) : x \in Protocols, p \in Ports}
    \cup {ConnPipe(x, p) : x \in Protocols, p \in Ports}
    \cup {DownstreamPipe(x) : x \in Protocols}
    \cup {FwdPipe, ProbePipe}

(* The fields a pipe matches.                                               *)
Source(x) == {"SIP", "SPORT", x}
Tuple(x) == {"SIP", "SPORT", "DIP", "DPORT", x}

(* The arguments of flowQoS_build_pipe.                                     *)
PipeOf(i) ==
  LET To(match, matched, unmatched, next, amount) ==
        [port_id |-> i[2], match |-> match, matched |-> matched,
         unmatched |-> unmatched, next |-> next, max_entry_amount |-> amount]
      Proto == IF i \in {ConnPipe("TCP", i[2]), DownstreamPipe("TCP")} THEN "TCP" ELSE "UDP"
  IN CASE i[1] = "hairpin_pipe" -> To({}, PORT, DROP, NULL, 2)
       [] i[1] \in Protocols -> To(Source(i[1]), DROP, PIPE, Hairpin(i[2]), MaxEntries)
       [] i[1] = "RSS-PIPE" -> To({}, RSS_TO_QUEUE, DROP, NULL, 2)
       [] i[1] \in {"UDP-PIPE", "TCP-PIPE"} ->
            To(Tuple(Proto), PORT, PIPE, RssPipe(i[2]), MaxEntries + 1)
       [] i[1] \in {"LAN-TCP", "LAN-UDP"} -> To(Source(Proto), PORT, PIPE, RssPipe(0), 100)
       [] i = FwdPipe -> To({}, PORT, DROP, NULL, 10000)
       [] i = ProbePipe -> To({"DIP", "UDP", "DPORT"}, RSS_TO_QUEUE, PIPE, FwdPipe, 10000)
       [] i[1] = "fwd" -> To({}, PORT, DROP, NULL, 100)
       [] i[1] = "stream" -> To({"DIP", "UDP"}, RSS_TO_QUEUE, DROP, NULL, 10)

-----------------------------------------------------------------------------
(* Steps.                                                                   *)
Build(i, fail) == [op |-> "build", pipe |-> i, match |-> NULL, action |-> NULL, fail |-> fail]
Entry(i, match, action, fail) ==
  [op |-> "entry", pipe |-> i, match |-> match, action |-> action, fail |-> fail]
Verify == [op |-> "verify"]
Enable(p) == [op |-> "enable", port |-> p]

(* Cores, memory or tables that may be missing, which is tested.            *)
Acquire == [op |-> "acquire"]

(* flowQoS_conntrack_init_env: the pool, then a hash table on each core.    *)
ConntrackInitEnv == <<Acquire>>

ConntrackInitPort(p) ==
  <<Build(RssPipe(p), "ignore"), Entry(RssPipe(p), NULL, NULL, "ignore"),
    Build(ConnPipe("UDP", p), "return"), Build(ConnPipe("TCP", p), "return"), Enable(p)>>

FirewallMain ==
  LET Port(p) == <<Build(Hairpin(p), "exit"), Build(DropPipe("TCP", p), "exit"),
                   Build(DropPipe("UDP", p), "exit"), Entry(Hairpin(p), NULL, NULL, "ignore")>>
  IN Port(0) \o Port(1)

(* The services of LB_load_params and the real servers behind each.         *)
Services == <<[dip |-> "vip", dport |-> 80, proto |-> "TCP", rport |-> 80],
              [dip |-> "vip", dport |-> 5001, proto |-> "UDP", rport |-> 5001],
              [dip |-> "vip", dport |-> 5001, proto |-> "TCP", rport |-> 5001]>>
RealServers == <<"rs102", "rs103">>

(* LB_load_params: the service tables of the cores, then one entry for each *)
(* real server.                                                             *)
LB_load_params ==
  LET Server(s, r) == Entry(DownstreamPipe(s.proto), [src_ip |-> r, src_port |-> s.rport],
                            [src_ip |-> s.dip, src_port |-> s.dport], "exit")
      Service(s) == <<Server(s, RealServers[1]), Server(s, RealServers[2])>>
  IN <<Acquire>> \o Service(Services[1]) \o Service(Services[2]) \o Service(Services[3])

(* LB_init: the pipes of the LAN port, tested together, then the WAN port.  *)
LB_init ==
  <<Build(RssPipe(0), "note"), Entry(RssPipe(0), NULL, NULL, "note"),
    Build(DownstreamPipe("TCP"), "note"), Build(DownstreamPipe("UDP"), "note"), Verify>>
    \o ConntrackInitEnv \o ConntrackInitPort(1) \o LB_load_params

(* init_snat: two cores, conntrack on both ports, flowQoS_snat_pool_init.   *)
InitSnat ==
  <<Acquire>> \o ConntrackInitEnv \o ConntrackInitPort(0) \o ConntrackInitPort(1) \o <<Acquire>>

(* The main of adaptive routing with two cores; MBUF_POOL is looked up last.*)
AdaptiveMain ==
  ConntrackInitEnv \o ConntrackInitPort(0)
    \o <<Build(FwdPipe, "exit"), Entry(FwdPipe, NULL, NULL, "exit"), Build(ProbePipe, "exit"),
         Entry(ProbePipe, [dst_ip |-> "host", dst_port |-> 4788], NULL, "exit"), Acquire>>

(* The same main with another number of cores.                              *)
EcmpMain ==
  <<Build(EcmpPipe(0), "exit"), Entry(EcmpPipe(0), NULL, NULL, "ignore"),
    Build(EcmpPipe(1), "exit"), Entry(EcmpPipe(1), NULL, NULL, "ignore")>>

SprayMain ==
  LET Port(p) == <<Build(SprayPipe(p), "ignore"),
                   Entry(SprayPipe(p), [dst_ip |-> IF p = 1 THEN "dst" ELSE "src"], NULL, "ignore")>>
  IN Port(0) \o Port(1)

Steps ==
  CASE app = "firewall" -> FirewallMain
    [] app = "lb" -> LB_init
    [] app = "snat" -> InitSnat
    [] app = "ar" -> AdaptiveMain
    [] app = "ecmp" -> EcmpMain
    [] app = "vxlan" -> SprayMain

(* The pipes of the programs are there, and NULL is neither a pipe nor an   *)
(* entry of theirs.                                                         *)
ASSUME MainsAssumption ==
  /\ AllPipes \subseteq PipeIds
  /\ \A i \in AllPipes : PipeOf(i) # NULL
  /\ \A s \in {FirewallMain, LB_init, InitSnat, AdaptiveMain, EcmpMain, SprayMain} :
       \A k \in DOMAIN s :
         s[k].op = "entry" =>
           [pipe |-> s[k].pipe, match |-> s[k].match, action |-> s[k].action] # NULL

-----------------------------------------------------------------------------
Step == Steps[at]
Doing(op) == pc = "main" /\ at <= Len(Steps) /\ Step.op = op

(* Mutant: the step that enables the port is not skipped.                   *)
ReturnTooLate == Min({k \in at .. Len(Steps) : Steps[k].op = "enable"})

(* The step after flowQoS_conntrack_init_port.                              *)
Return == Min({k \in at .. Len(Steps) : Steps[k].op = "enable"}) + 1

(* What main does after a step that failed.                                 *)
Failed(fail) ==
  /\ pc' = IF fail = "exit" THEN "exit" ELSE pc
  /\ at' = IF fail = "return" THEN Return ELSE at + 1
  /\ noted' = (noted \/ fail = "note")

Succeeded == at' = at + 1 /\ UNCHANGED <<pc, noted>>

envBut == <<init_ok, argp, eal, doca, mempool, eth, bound, ports, cut>>   \* not pc, misuse

MainBuild ==
  /\ Doing("build")
  /\ \/ BuildPipe(Step.pipe, PipeOf(Step.pipe)) /\ Succeeded /\ UNCHANGED misuse
     \/ BuildPipeFails(Step.pipe[2]) /\ Failed(Step.fail) /\ UNCHANGED pipes
  /\ UNCHANGED <<envBut, hw, pending, app, enabled, open>>

MainEntry ==
  /\ Doing("entry") /\ pipes[Step.pipe] # NULL
  /\ \E h \in Handles \cup {NULL}, done \in 0 .. Cardinality(Handles) :
       /\ AddEntry(Step.pipe, Step.match, Step.action, h, done)
       /\ IF AddEntryResult(h, done) THEN Succeeded /\ UNCHANGED open
          ELSE Failed(Step.fail) /\ open' = (open /\ Step.fail # "ignore")
  /\ UNCHANGED <<envBut, misuse, pipes, app, enabled>>

(* flowQoS_add_entry reads the pipe it is given: the program ends there     *)
(* when the pipe could not be built.                                        *)
MainCrash ==
  /\ Doing("entry") /\ pipes[Step.pipe] = NULL
  /\ pc' = "crashed"
  /\ UNCHANGED <<envBut, misuse, pipeVars, mainVars>>

MainVerify ==
  /\ Doing("verify")
  /\ IF noted THEN pc' = "exit" /\ UNCHANGED at ELSE at' = at + 1 /\ UNCHANGED pc
  /\ UNCHANGED <<envBut, misuse, pipeVars, app, noted, enabled, open>>

MainAcquire ==
  /\ Doing("acquire")
  /\ \/ pc' = "exit" /\ UNCHANGED at
     \/ at' = at + 1 /\ UNCHANGED pc
  /\ UNCHANGED <<envBut, misuse, pipeVars, app, noted, enabled, open>>

MainEnable ==
  /\ Doing("enable")
  /\ enabled' = enabled \cup {Step.port}
  /\ at' = at + 1
  /\ UNCHANGED <<envVars, pipeVars, app, noted, open>>

(* launch_worker, flowQoS_cmd                                               *)
MainLaunch ==
  /\ pc = "main" /\ at > Len(Steps)
  /\ pc' = "running"
  /\ UNCHANGED <<envBut, misuse, pipeVars, mainVars>>

(* The command quit ends flowQoS_cmd; stop_worker.                          *)
Quit ==
  /\ pc = "running"
  /\ pc' = "exit"
  /\ UNCHANGED <<envBut, misuse, pipeVars, mainVars>>

MainNext ==
  \/ MainBuild \/ MainEntry \/ MainCrash \/ MainVerify \/ MainAcquire
  \/ MainEnable \/ MainLaunch \/ Quit

-----------------------------------------------------------------------------
MainTypeOK ==
  /\ app \in Apps
  /\ at \in 1 .. Len(Steps) + 1
  /\ noted \in BOOLEAN /\ open \in BOOLEAN
  /\ enabled \subseteq Ports
  /\ \A i \in PipeIds : pipes[i] \in {NULL, PipeOf(i)}
  /\ \A h \in Handles : hw[h] = NULL \/ hw[h].pipe \in PipeIds
  /\ \A p \in Ports : Len(pending[p]) <= Cardinality(Handles)

(* When the load balancer runs, the answer of every real server leaves      *)
(* through the WAN port under the address of its service, and of no other;  *)
(* anything else from the LAN goes to the cores: whatever else failed or    *)
(* completed late in LB_init.                                               *)
DownstreamReady ==
  app = "lb" /\ pc = "running" =>
    /\ \A k \in DOMAIN Services, n \in DOMAIN RealServers :
         LET s == Services[k]
             m == [proto |-> s.proto, src_ip |-> RealServers[n], src_port |-> s.rport]
             i == DownstreamPipe(s.proto)
         IN /\ Fate(i, m) = PORT
            /\ \A h \in Hits(i, m) : hw[h].action = [src_ip |-> s.dip, src_port |-> s.dport]
    /\ \A x \in Protocols :
         Walk(DownstreamPipe(x), [proto |-> x, src_ip |-> "other", src_port |-> 80]) = RSS_TO_QUEUE

Unknown(x) == [proto |-> x, src_ip |-> "new", src_port |-> 1, dst_ip |-> "vip", dst_port |-> 80]

(* A port on which conntrack is enabled has its pipes, and a packet of a    *)
(* connection not offloaded reaches the cores; the result of the RSS entry  *)
(* is ignored, so this needs that the entry came in time.                   *)
NewTrafficSeen ==
  \A p \in enabled, x \in Protocols :
    /\ pipes[RssPipe(p)] # NULL /\ pipes[ConnPipe(x, p)] # NULL
    /\ open => Walk(ConnPipe(x, p), Unknown(x)) = RSS_TO_QUEUE

(* When adaptive routing runs, the echoes of its probes reach the cores and *)
(* everything else from the network goes to the host.                       *)
ProbesReturn ==
  app = "ar" /\ pc = "running" =>
    /\ Walk(ProbePipe, [proto |-> "UDP", dst_ip |-> "host", dst_port |-> 4788]) = RSS_TO_QUEUE
    /\ \A x \in Protocols :
         Walk(ProbePipe, [proto |-> x, dst_ip |-> "host", dst_port |-> 80]) = PORT

(* Whatever pipe or entry failed or completed late on the way, a program    *)
(* that serves has what it serves with: the load balancer the entries for   *)
(* the answers of its real servers, adaptive routing the way back of its    *)
(* probes, and every port conntrack is enabled on the pipes that bring new  *)
(* connections to the cores.                                                *)
ReadyToServe == MainTypeOK /\ DownstreamReady /\ NewTrafficSeen /\ ProbesReturn
=============================================================================
