------------------------------- MODULE Router -------------------------------
(***************************************************************************)
(* The ARP and routing module (flowQoS_router.c): the addresses of the     *)
(* ports, one ARP table per port, the routing table with its LPM index,    *)
(* the commands that change them and the ARP packets that teach them.      *)
(*                                                                         *)
(* Commands run one after the other on the main core; the workers handle   *)
(* ARP packets meanwhile.  Every access to an ARP table is one critical    *)
(* section of that table's lock and hence one step; ifconfig is several    *)
(* sections with packets in between.  Only the main core takes the lock of *)
(* the routing table.                                                      *)
(*                                                                         *)
(* Addresses have W bits (32 in the code).                                 *)
(***************************************************************************)
EXTENDS Integers, FiniteSets, FiniteSetsExt, Functions

CONSTANTS
  W,          \* bits of an address
  PortNum,    \* NB_PORTS
  MaxRules,   \* IPV4_L3FWD_LPM_MAX_RULES
  Macs,
  NULL,
  IfAddrs,    \* the <<address, prefix>> an operator may give to a port
  RouteNets,  \* the <<address, prefix>> of route commands
  Gateways,   \* the gateways of route commands
  Hosts       \* the addresses that ARP packets and commands speak of

Addr     == 0 .. 2^W - 1
Prefixes == 0 .. W
PortIds  == 0 .. PortNum - 1
Pos      == 0 .. MaxRules - 1

ASSUME RouterAssumption ==
  /\ W \in Nat \ {0}
  /\ PortNum \in Nat \ {0}
  /\ MaxRules \in Nat
  /\ NULL \notin Macs \cup Pos /\ NULL \notin [gw : Addr, port : PortIds]
  /\ IfAddrs \subseteq Addr \X (1 .. W)
  /\ RouteNets \subseteq Addr \X (1 .. W)
  /\ Gateways \subseteq Addr
  /\ Hosts \subseteq Addr

VARIABLES
  localPortInfo,  \* address and prefix of each port
  arps,           \* the ARP table of each port, NULL before it is allocated
  route,          \* routingTable.ip/prefix/gw_ip/port_id
  lpm,            \* the rte_lpm: rule -> position, NULL when absent
  lock,           \* routingTable.lock: "free" or "write"
  cmd,            \* the command the main core is executing
  accepted,       \* history: the routes addRoute has returned 1 for, NULL
                  \*   once a rule was left without its route
  known           \* history: for each port the last mac given for each
                  \*   address, NULL once it learned from outside its net

vars == <<localPortInfo, arps, route, lpm, lock, cmd, accepted, known>>
routeVars == <<route, lpm, lock, accepted>>
arpVars   == <<arps, known>>

Idle == [pc |-> "idle"]

(* addr & ~((1 << (32 - prefix)) - 1).  For the prefix 0 of a port without  *)
(* address the shift by 32 is undefined; the processors shift by 32 % 32.   *)
Net(addr, prefix) == IF prefix = 0 THEN addr ELSE addr - (addr % 2^(W - prefix))

NoRoute == [ip |-> 0, prefix |-> 0, gw |-> 0, port |-> 0]
Route   == [ip : Addr, prefix : Prefixes, gw : Addr, port : PortIds]

(* flowQoS_router_initRoutingTable                                          *)
InitRoutingTable ==
  /\ route = [i \in Pos |-> NoRoute]
  /\ lpm = [r \in Addr \X (1 .. W) |-> NULL]
  /\ lock = "free"

(* registRoutingModule: the tables are static and start as zeroes.          *)
Init ==
  /\ localPortInfo = [p \in PortIds |-> [ip |-> 0, prefix |-> 0]]
  /\ arps = [p \in PortIds |-> NULL]
  /\ InitRoutingTable
  /\ cmd = Idle
  /\ accepted = {}
  /\ known = [p \in PortIds |-> NULL]

(* flowQoS_router_isLocalIP: the ports whose network addr is in; the first  *)
(* one is returned.                                                         *)
LocalPorts(addr) ==
  {p \in PortIds : LET i == localPortInfo[p]
                   IN Net(addr, i.prefix) = Net(i.ip, i.prefix)}

-----------------------------------------------------------------------------
(* The ARP tables: an array indexed by the host part of the address, which  *)
(* holds the whole address and the mac; address 0 marks a free place.       *)

(* ip & arp_tables[port_id].Mask                                            *)
ArpIndex(t, addr) == addr % t.size

EmptyTable(prefix) ==
  [size |-> 2^(W - prefix),
   at   |-> [i \in 0 .. 2^(W - prefix) - 1 |-> [ip |-> 0, mac |-> NULL]]]

(* flowQoS_router_get_arp: the mac, or NULL when it returns 0.              *)
GetArp(p, addr) ==
  IF arps[p] = NULL THEN NULL
  ELSE LET e == arps[p].at[ArpIndex(arps[p], addr)]
       IN IF e.ip = 0 THEN NULL ELSE e.mac

(* flowQoS_router_dumpARP: what the arp command prints for port p, the      *)
(* places whose address is not 0.                                           *)
DumpARP(p) ==
  IF arps[p] = NULL THEN {}
  ELSE {e \in Range(arps[p].at) : e.ip # 0}

(* The write to the place of addr in flowQoS_router_put_arp and _del_arp.   *)
SetArp(p, addr, e) ==
  arps' = IF arps[p] = NULL THEN arps
          ELSE [arps EXCEPT ![p].at[ArpIndex(arps[p], addr)] = e]

(* addr is in the network of port p.                                        *)
InTable(p, addr) ==
  /\ localPortInfo[p].ip # 0
  /\ LET i == localPortInfo[p]
     IN Net(addr, i.prefix) = Net(i.ip, i.prefix)

(* The history of port p after a write for addr.                            *)
Learn(p, addr, mac) ==
  known' = IF known[p] = NULL THEN known
           ELSE IF InTable(p, addr) THEN [known EXCEPT ![p][addr] = mac]
           ELSE [known EXCEPT ![p] = NULL]

(* flowQoS_router_put_arp                                                   *)
PutArp(p, addr, mac) ==
  /\ SetArp(p, addr, [ip |-> addr, mac |-> mac])
  /\ Learn(p, addr, mac)

(* flowQoS_router_del_arp                                                   *)
DelArp(p, addr) ==
  /\ SetArp(p, addr, [ip |-> 0, mac |-> NULL])
  /\ Learn(p, addr, NULL)

(* flowQoS_ARP_ICMP_PROCESS for an ARP packet that asks for the address of  *)
(* its port: the sender is learned, whichever network it claims to be of.   *)
(* Other packets, and ICMP echoes, change no table.                         *)
ArpPacket(p, sip, mac) ==
  /\ PutArp(p, sip, mac)
  /\ UNCHANGED <<localPortInfo, routeVars, cmd>>

(* arp_cmd_parsed: -s and -d, on the first port that addr is local to.      *)
ArpCommand(addr, mac) ==
  /\ cmd = Idle
  /\ LocalPorts(addr) # {}
  /\ LET p == Min(LocalPorts(addr))
     IN IF mac = NULL THEN DelArp(p, addr) ELSE PutArp(p, addr, mac)
  /\ UNCHANGED <<localPortInfo, routeVars, cmd>>

-----------------------------------------------------------------------------
(* rte_lpm (external): a set of rules, and the next hop of the longest one  *)
(* that contains an address.                                                *)

LpmRules == {r \in DOMAIN lpm : lpm[r] # NULL}

LpmAddFails(rule) == lpm[rule] = NULL /\ Cardinality(LpmRules) >= MaxRules

(* Mutant: the shortest rule wins.                                          *)
LpmLookupShortest(addr) ==
  LET hits == {r \in LpmRules : Net(addr, r[2]) = r[1]}
  IN IF hits = {} THEN NULL
     ELSE lpm[CHOOSE r \in hits : \A s \in hits : s[2] >= r[2]]

LpmLookup(addr) ==
  LET hits == {r \in LpmRules : Net(addr, r[2]) = r[1]}
  IN IF hits = {} THEN NULL
     ELSE lpm[CHOOSE r \in hits : \A s \in hits : s[2] <= r[2]]

-----------------------------------------------------------------------------
(* The routing table: the routes by position, and the LPM table that leads  *)
(* from a network to the position of its route.                             *)

(* isRoute: a sum of 32 bits.                                               *)
IsRoute(i) ==
  (route[i].port + route[i].gw + route[i].ip + route[i].prefix) % 2^W # 0

(* flowQoS_router_findRoute: gateway and port of the route for addr, by the *)
(* default route when there is no other, or NULL.                           *)
FindRoute(addr) ==
  LET pos == IF LpmLookup(addr) # NULL THEN LpmLookup(addr) ELSE LpmLookup(0)
  IN IF pos = NULL THEN NULL
     ELSE [gw |-> route[pos].gw, port |-> route[pos].port]

(* flowQoS_router_dumpRoute: one line for each position with a route, with  *)
(* the gateway and the port that findRoute gives for its address.           *)
DumpRoute ==
  {[ip |-> route[i].ip, prefix |-> route[i].prefix,
    gw |-> FindRoute(route[i].ip).gw, port |-> FindRoute(route[i].ip).port] :
      i \in {j \in Pos : IsRoute(j) /\ FindRoute(route[j].ip) # NULL}}

(* The command is over, or goes on with its step pc.                        *)
Return   == cmd' = Idle
Goto(pc) == cmd' = [cmd EXCEPT !.pc = pc]

(* The position addRoute takes: the last free one.                          *)
FreePositions == {i \in Pos : ~IsRoute(i)}

(* Mutant: the comparison with the stored networks is left out.             *)
RouteExistsNever(net) == FALSE

RouteExists(net) == \E i \in Pos : IsRoute(i) /\ route[i].ip = net

(* Where a route goes out: the port its gateway is local to, or for a       *)
(* connected network the port of the network itself.                        *)
OutPorts(net, gw) == LocalPorts(IF gw = 0 THEN net ELSE gw)

(* Mutant: the error path returns with the lock held.                       *)
ReleaseOnErrorForgotten == lock' = "write"

(* ERR: of flowQoS_router_addRoute and flowQoS_router_delRoute              *)
ReleaseOnError == lock' = "free"

(* flowQoS_router_addRoute fails: there is a route to this very address,    *)
(* the table is full, or the LPM table is.                                  *)
AddRouteFails ==
  /\ cmd.pc = "add" /\ lock = "free"
  /\ LET net == Net(cmd.ip, cmd.prefix)
     IN \/ RouteExists(net)
        \/ FreePositions = {}
        \/ LpmAddFails(<<net, cmd.prefix>>)
  /\ ReleaseOnError
  /\ Return
  /\ UNCHANGED <<localPortInfo, arpVars, route, lpm, accepted>>

(* flowQoS_router_addRoute goes on to insert the rule at position pos.      *)
AddsRule(net, pos) ==
  /\ cmd.pc = "add" /\ lock = "free"
  /\ net = Net(cmd.ip, cmd.prefix)
  /\ ~RouteExists(net)
  /\ FreePositions # {}
  /\ pos = Max(FreePositions)
  /\ ~LpmAddFails(<<net, cmd.prefix>>)
  /\ lpm' = [lpm EXCEPT ![<<net, cmd.prefix>>] = pos]
  /\ Return
  /\ UNCHANGED <<localPortInfo, arpVars>>

(* ... and finds afterwards that the gateway is not local: the rule stays.  *)
AddRouteNotLocal(net, pos) ==
  /\ AddsRule(net, pos)
  /\ OutPorts(net, cmd.gw) = {}
  /\ ReleaseOnError
  /\ accepted' = NULL
  /\ UNCHANGED route

(* routingTable.ip/prefix/gw_ip/port_id of the new route.                   *)
NewRoute(net, prefix, gw) ==
  [ip |-> net, prefix |-> prefix, gw |-> gw, port |-> Min(OutPorts(net, gw))]

(* ... or stores the route.  One whose fields add up to 0 looks free.       *)
AddRouteDone(net, pos) ==
  /\ AddsRule(net, pos)
  /\ OutPorts(net, cmd.gw) # {}
  /\ route' = [route EXCEPT ![pos] = NewRoute(net, cmd.prefix, cmd.gw)]
  /\ accepted' = IF accepted = NULL \/ ~IsRoute(pos)' THEN NULL
                 ELSE accepted \cup
                        {[ip |-> net, prefix |-> cmd.prefix, gw |-> cmd.gw,
                          port |-> Min(OutPorts(net, cmd.gw))]}
  /\ lock' = "free"

(* What flowQoS_router_delRoute is called for: the route command's network, *)
(* or the present network of the port that ifconfig is about to change.     *)
DelNet ==
  IF cmd.op = "ifconfig"
    THEN Net(localPortInfo[cmd.port].ip, localPortInfo[cmd.port].prefix)
    ELSE Net(cmd.ip, cmd.prefix)

(* flowQoS_router_delRoute without such a route: "Route Del Fail".          *)
DelRouteFails ==
  /\ cmd.pc = "del" /\ lock = "free"
  /\ ~RouteExists(DelNet)
  /\ ReleaseOnError
  /\ IF cmd.op = "ifconfig" THEN Goto("set") ELSE Return
  /\ UNCHANGED <<localPortInfo, arpVars, route, lpm, accepted>>

(* flowQoS_router_delRoute finds the route.  It holds the write lock and    *)
(* calls findRoute, whose rte_rwlock_read_lock spins until the lock is      *)
(* free: the main core goes no further, and no later line is reached.       *)
DelRouteFinds ==
  /\ cmd.pc = "del" /\ lock = "free"
  /\ RouteExists(DelNet)
  /\ lock' = "write"
  /\ Goto("find")
  /\ UNCHANGED <<localPortInfo, arpVars, route, lpm, accepted>>

-----------------------------------------------------------------------------
(* The commands.                                                            *)

(* ifconfig_cmd_parsed and flowQoS_router_ifconfig up to the first call.    *)
IfconfigCommand(p, a) ==
  /\ cmd = Idle
  /\ cmd' = [pc |-> IF localPortInfo[p].ip # 0 THEN "del" ELSE "set",
             op |-> "ifconfig", port |-> p,
             ip |-> a[1], prefix |-> a[2], gw |-> 0]
  /\ UNCHANGED <<localPortInfo, arpVars, routeVars>>

(* flowQoS_router_ifconfig stores the address.                              *)
SetAddress ==
  /\ cmd.pc = "set"
  /\ localPortInfo' = [localPortInfo EXCEPT ![cmd.port] =
                         [ip |-> cmd.ip, prefix |-> cmd.prefix]]
  /\ Goto("arp")
  /\ known' = [known EXCEPT ![cmd.port] = NULL]
  /\ UNCHANGED <<arps, routeVars>>

(* Mutant: an existing table is kept.                                       *)
NewTableKept(p, t) == arps' = [arps EXCEPT ![p] = IF @ = NULL THEN t ELSE @]

NewTable(p, t) == arps' = [arps EXCEPT ![p] = t]

(* flowQoS_router_initARP_Table: a new table, or none without memory.       *)
InitARP_Table ==
  /\ cmd.pc = "arp"
  /\ \E t \in {EmptyTable(cmd.prefix), NULL} : NewTable(cmd.port, t)
  /\ known' = [known EXCEPT ![cmd.port] = [a \in Addr |-> NULL]]
  /\ Goto("add")
  /\ UNCHANGED <<localPortInfo, routeVars>>

(* route_cmd_parsed and default_route_cmd_parsed: the default route is the  *)
(* route to address 0 with the longest prefix.  delRoute gets no gateway.   *)
RouteCommand(op, n, gw) ==
  /\ cmd = Idle
  /\ cmd' = [pc |-> op, op |-> op, port |-> 0,
             ip |-> n[1], prefix |-> n[2],
             gw |-> IF op = "add" THEN gw ELSE 0]
  /\ UNCHANGED <<localPortInfo, arpVars, routeVars>>

(* The main core goes on with its command.                                  *)
MainStep ==
  \/ SetAddress
  \/ InitARP_Table
  \/ AddRouteFails
  \/ \E r \in RouteNets \cup IfAddrs, pos \in Pos :
       LET net == Net(r[1], r[2])
       IN AddRouteNotLocal(net, pos) \/ AddRouteDone(net, pos)
  \/ DelRouteFails
  \/ DelRouteFinds

Next ==
  \/ \E p \in PortIds, a \in IfAddrs : IfconfigCommand(p, a)
  \/ \E op \in {"add", "del"}, n \in RouteNets, gw \in Gateways :
       RouteCommand(op, n, gw)
  \/ \E a \in Hosts, m \in Macs \cup {NULL} : ArpCommand(a, m)
  \/ \E p \in PortIds, a \in Hosts, m \in Macs : ArpPacket(p, a, m)
  \/ MainStep

Spec == Init /\ [][Next]_vars

(* The main core runs: it is never preempted for ever.                      *)
FairSpec == Spec /\ WF_vars(MainStep)

-----------------------------------------------------------------------------
(* Every variable has the shape of the C object it stands for.              *)
TypeOK ==
  /\ localPortInfo \in [PortIds -> [ip : Addr, prefix : Prefixes]]
  /\ \A p \in PortIds :
       arps[p] = NULL \/ \A i \in DOMAIN arps[p].at :
                            arps[p].at[i] \in [ip : Addr, mac : Macs \cup {NULL}]
  /\ route \in [Pos -> Route]
  /\ lpm \in [Addr \X (1 .. W) -> Pos \cup {NULL}]
  /\ lock \in {"free", "write"}
  /\ accepted = NULL \/ accepted \subseteq Route
  /\ known \in [PortIds -> [Addr -> Macs \cup {NULL}] \cup {NULL}]

(* "lpm: store the index of route" (struct RoutingTable): the LPM table and *)
(* the arrays describe the same routes.  It is lost when addRoute refuses a *)
(* gateway after it has inserted the rule.                                  *)
IndexExact ==
  /\ TypeOK
  /\ accepted # NULL =>
       \A i \in Pos :
         {r \in LpmRules : lpm[r] = i}
           = IF IsRoute(i) THEN {<<route[i].ip, route[i].prefix>>} ELSE {}

(* The accepted route that the longest prefix selects for addr.             *)
Best(addr) ==
  LET hits == {r \in accepted : Net(addr, r.prefix) = r.ip}
  IN CHOOSE r \in hits : \A s \in hits : s.prefix <= r.prefix

Covered(addr) == \E r \in accepted : Net(addr, r.prefix) = r.ip

(* flowQoS_router_findRoute finds for every address the accepted route with *)
(* the longest prefix, the default route when no other contains it, and     *)
(* nothing only when there is neither; the route command prints just the    *)
(* accepted routes, each with its own gateway and port, however nested.     *)
LookupExact ==
  accepted # NULL =>
    /\ DumpRoute = accepted
    /\ \A addr \in Addr :
         LET a == IF Covered(addr) THEN addr ELSE 0
         IN FindRoute(addr) = IF Covered(a)
                                THEN [gw |-> Best(a).gw, port |-> Best(a).port]
                                ELSE NULL

(* flowQoS_router_get_arp compares no address, and still gives the mac that *)
(* was last put for this very address since the port has its network, as    *)
(* long as nobody outside the network was learned: packets that come while  *)
(* ifconfig changes address and table cannot spoil the new table.  The arp  *)
(* command prints just these pairs.                                         *)
ArpExact ==
  \A p \in PortIds :
    arps[p] # NULL /\ known[p] # NULL =>
      /\ \A a \in Addr \ {0} : InTable(p, a) => GetArp(p, a) = known[p][a]
      /\ DumpARP(p) = {[ip |-> a, mac |-> known[p][a]] :
                         a \in {b \in Addr \ {0} : known[p][b] # NULL}}

(* Every command returns, through all of its error paths, but for one that  *)
(* deletes a route which is there: that one never does.                     *)
CommandsReturn == cmd # Idle ~> (cmd = Idle \/ cmd.pc = "find")
=============================================================================
