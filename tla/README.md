# A TLA+ development for FlowQoS

FlowQoS is a framework for network functions on a DPU. Packets of a connection
that the hardware does not know yet come to a worker core, which looks the
connection up, lets the application decide about it, forwards in software, and
later *offloads* the connection: it installs a hardware entry, after which the
packets no longer reach the core. Hardware entries are scarce and installing
them is slow, so a filter picks the connections worth it and a scheduler with
priority queues installs them at a limited rate within a limited budget.

Paths below are relative to the repository; the framework is in `src/`, the
applications are in `apps/`.

## Inventory

| Component | State | Operations | Interacts with |
|---|---|---|---|
| Worker (`flowQoS_worker.c`) | registered processors, rx/tx buffers per core | `worker` loop, `general_pkt_processor`, `send_packets`, register, launch, stop | calls every other component, one handler after the other, on each worker core |
| Conntrack (`flowQoS_conntrack.c`) | per core: hash `CT`, budget `CT_NUM`; shared: context pool, `attr` | packet processor, add/find/del connection, `offload_conn`, software and hardware expiry callbacks, init, commands | scheduler, timer, pipe, application handlers |
| ConnSched filter (in `flowQoS_conntrack.c`) | threshold with bounds and step, window counters, all in the shared `attr` | `should_offload_ct`, `runtime_tune`, `congestion_cb`, `tune_filter` | called by packets, by the scheduler (pressure), by the command line |
| QoS scheduler (`flowQoS_qos.c`) | per core: queues, weights, budget `maxEntry`, congestion flag, `lastStmp` | add/del/return entry event, `do_entry_event` (weighted round), statistics | conntrack, pipe, filter |
| Pipe (`flowQoS_pipe.c`) | pipes; the hardware table behind doca-flow | `build_pipe`, `add_entry`, `aging_handle`, translation of matches, actions and forwards | doca-flow; calls the hardware expiry callback |
| Timer (`flowQoS_timer.c`) | per core: two wheels of buckets, tick count | add, del, reset, tick with cascade | calls the software expiry callback |
| Message (`flowQoS_message.c`) | two rings per worker, shared message pool | multicast send/receive, `multiThread_do` and its worker side | the commands that report on the workers |
| Router (`flowQoS_router.c`) | port addresses, ARP tables, routes with an LPM index, locks | ifconfig, put/get/del ARP, add/del/find route, ARP/ICMP processor | applications, command line |
| SNAT (`flowQoS_snat.c`) | pool of ports, table of mappings | new-connection and ageing handlers | conntrack, router |
| L4 load balancer (`flowQoS_l4_load_balancing.c`) | services per core with counters | handlers, `ipvsadm`, `cps`, load of the downstream entries | conntrack, router, pipe, message |
| Firewall (`flowQoS_firewall.c`) | list of rules, drop pipes | add, print, delete | pipe |
| Adaptive routing (`flowQoS_adaptive_routing.c`) | probes of the flow in hand | new-connection handler with a wait of 10 ms | worker, network |
| VXLAN spraying (`flowQoS_vxlan_packets_spraying.c`) | a counter | packet processor | worker |
| Environment, command line (`flowQoS_env.c`, `flowQoS_cmd.c`, `common/src/dpdk_utils.c`) | EAL, ports, hairpin bindings, doca-flow | start-up with partial failures, end | every `main` |

What is hard here: the lifecycle of a context spans four components (hash,
queue, timer wheel, hardware entry) and ends in one of two callbacks, which go
on using the context after it went back to a pool that all cores share; the
filter's attributes are shared without a lock; doca-flow may refuse an entry or
report it late; the main core gives up on slow workers whose answers come
later; the wheel may lag behind the clock; the applications' handlers take
effect before it is known whether the connection can be added; start-ups fail
half way. `hazards` in PROJECT.json lists these, each at its line.

## Modules

| Module | Models | MC module, proofs |
|---|---|---|
| `ConnSched` | conntrack, scheduler and the hardware table of one worker core | `MCConnSched`; proofs in `Snat_proofs` |
| `Snat` | the SNAT application on top of `ConnSched` | `MCSnat`, `Snat_proofs` (with those of `ConnSched`) |
| `LoadBalancer` | the load balancer on several cores with the shared context pool, the expiry callbacks in steps | `MCLoadBalancer`, `LoadBalancer_proofs` |
| `Filter` | the ConnSched filter, one operation per step | `MCFilter`, `Filter_proofs` |
| `FilterRace` | the filter's loads and stores on several cores and in `tune_filter`; refines `Filter` until two operations overlap | `MCFilterRace`, `FilterRace_proofs` |
| `Alarm` | what a timer promises | |
| `TimerWheel` | the timing wheel; refines `Alarm` | `MCTimerWheel`, `PowersOfTwo_proofs` |
| `Message` | rings, message pool and the calls from the main core to the workers | |
| `Report` | the reporting commands on top of `Message` | `MCReport`, `Report_proofs` (with those of `Message`) |
| `Router` | addresses, ARP tables, routing table, commands | `MCRouter`, `PowersOfTwo_proofs` |
| `Worker` | the loop of a worker core and its packet buffers | |
| `AdaptiveRouting` | probing inside that loop, with the network | `MCWorker`, `AdaptiveRouting_proofs` (with those of `Worker`) |
| `Env` | start and end of the environment, ports, hairpins | |
| `Pipe` | pipes and entries, and what they do to packets; on top of `Env` | |
| `Startup` | the six `main` functions, on top of `Pipe` | |
| `Firewall` | the firewall's rules, on top of `Startup` | `MCFirewall`, `Firewall_proofs` (with those of `Env`, `Pipe` and `Startup`) |

The operators whose comment starts with *Mutant* are used by no specification.
Each is a plausible slip in the operator that follows it, and replacing that
operator by it must make TLC report the property that PROJECT.json names.

### ConnSched

All of a core's state is thread-local and its handlers run one after the other,
so a handler is one step. The variables are the C objects: `CT` the hash,
`POOL` the free contexts, `ctx` the memory of the contexts (free ones keep their
content, as in the pool), `buckets` the queues, `maxEntry`, `CT_NUM`,
`hwCongested`, and `hw`, the `user_data` of each place of the hardware table.
Three more are histories: `late`, the entries whose completion was not among
those `flowQoS_add_entry` waited for; `torn`, a connection ended while such an
entry pointed at it; `returned`, the budget given back since the last offload.

| Action | Code |
|---|---|
| `PacketProcessor`: `PacketForwarded`, `PacketEnqueues`, `PacketOffloads` | `flowQoS_conntrack_packet_processor` with `addConnToHash`, `should_offload_ct` and `offload_conn`, by what becomes of the connection |
| `AddConnFails` | a packet whose connection `addConnToHash` cannot add: the pool is empty, or a context is taken, the hash is full, and the context is put back |
| `SwExpire` | `flowQoS_conn_expire_sw_cb` after the wheel has unlinked the timer |
| `HwExpire` | one aged entry in `flowQoS_aging_handle`, with `flowQoS_conn_expire_hw_cb` |
| `StartRound`, `OffloadHead`, `AbandonRound`, `NextQueue` | `flowQoS_do_entry_event`, one iteration of its loops per step (no other handler runs in between) |
| `GapElapses` | the clock |

Abstracted: time (a timer may expire and an entry may age whenever they are
armed; whether a connection is older than the filter's threshold is a choice of
the step); packet headers (a packet is its flow); the priority the application
gives, already reduced modulo the number of queues. doca-flow is external:
`Outcomes` says whether `flowQoS_add_entry` may find its entry "done",
"refused", or "late", that is made but not reported within the timeout; the
last two both make it return 0. After "late" the caller goes on as if there were
no entry: the connection keeps its timer, its place in the queue, and will be
offloaded a second time, while the hardware holds an entry whose ageing is
reported with the same context. All of this is in the model (`Handles`,
`AbandonRound`, `PacketOffloads`, `HwExpire`). What the code then does when the
connection ends, by whichever of its ageing mechanisms comes first, is to free
a context to which a timer, a queue or an entry still leads: a use of freed
memory, whose outcome is anything. `torn` marks that moment. The safety
properties of a core hold up to it, and the model's steps after it mean
nothing; `PriorityOrder` and `RoundComplete` hold of them too. A completion reported with an error status,
which the code does not look at, is not modelled. The flags of actions always
differ from `AGING` alone, as in all applications, so that every connection has
a timer.

### Snat

Extends `ConnSched` with the list of free ports, the table of mappings and the
action stored in each context. A new LAN side connection reserves a port and
enters two keys before conntrack adds the connection (`NewUpstream`); the
connection may then not fit into pool or hash (`UpstreamNotAdded`,
`DownstreamNotAdded`), or a key be refused. `ConnSched`'s
expiries run the ageing handler in the same step. The scheduler is off in this
run, so connections are offloaded directly against `CT_NUM`: `ConnSched`'s
inductive invariant `IInv` is checked for that path too. Two histories name the cases in
which the code does not keep its promises: `lost`, a port reserved for a
connection that was not added (`flowQoS_conntrack.c:711`), and `orphaned`, a
mapping removed while the connection of the WAN side lives on.

### LoadBalancer

Several cores and the one context pool, an `rte_mempool` with a cache per core
that is flushed to a common ring. A callback is four steps: give up key and
context, read the state, run the application's handler. In between another core
may be given the context; `raced` records it. `lost` is as in `Snat`. Counters
wrap at `CounterMod` (2^32 in the code). An entry is made or refused here, and
a refusal changes nothing; late completions are `ConnSched`'s subject.

### Filter and FilterRace

`Filter` has the threshold with its minimum, step and speed as variables, since
`tune_filter` changes them. `enqueued \div e` is the rate when `e` windows have
passed since the last tuning; each core has its own congestion flag, whose
rising edge doubles the threshold. `FilterRace` splits each operation at its
loads and stores (the attributes are plain fields of a static struct), those of
`tune_filter` included, and keeps the width of the unsigned type as `Word`.
`tune_filter` is one more actor, with its place `cpc` and register `creg`; it
is exported and called by whoever embeds the framework, at any time, once at a
time. The history `raced` is set when two operations on the threshold, or two on
the count of the window, are under way at once, from the first access of each
to its last. The start of the window and the speed are tested in one step with
the load of the count, and the step `delta` is read with the threshold: the
module has fewer interleavings than the code there, and no others.

### TimerWheel and Alarm

`place` maps each timer to its wheel and bucket, `now` is `timer_mgr->timeout`,
`clock` counts the periods that have begun. A wheel has
`2^TIMER_WHEEL_BITS` buckets, as in `flowQoS_timer.h`, so that the shifts of
`timer_start` are divisions by `Span`. A tick with its cascade and its
callbacks is one step: the program's only callback touches no other timer.
`Alarm` says: a timer set to T at tick n fires in tick n + T, once, unless it
is deleted or set again. The refinement maps `deadline` to `timeout` of the
linked timers (checked, and proved in `PowersOfTwo_proofs`).

### Message and Report

Each of the two ends takes separate steps for getting a message from the pool,
for the ring, and for giving a message back, because all cores share the pool.
Messages carry the number of their call; in the program replies carry none, and
the model's control never reads it. `timely` is a history variable: the main
core has not given up so far. The pool cannot run dry: rings hold at most
2·S·(M-1) of its 2·S·M messages, and hands at most one per worker and one of the
main core.

`Report` gives the calls their tasks. Three arrays stand for those of all
commands: one whose cell is cleared and then filled (`getFlowQoSOffload`), one
whose cell is written (`ipvsadm`, `conntrack`), one whose source is reset with
the copy (`top`). The main core adds the cells one by one while late tasks may
still write.

### Router

Commands run on the main core, ARP packets are handled by the workers at the
same time; each access to an ARP table is one critical section and one step, so
`ifconfig` has packets between its steps. Addresses have `W` bits. `rte_lpm` is
external: a map from rules to positions with longest match. `accepted` and
`known` are histories of what was accepted and learned; they become `NULL`
where the code has lost the correspondence: a gateway refused after its rule was
inserted (line 427), a route whose fields add up to 0 in the width of the
addresses (397), a sender learned that is not of the port's network (298).
`delRoute` of a route that exists is modelled up to the read lock of line 484,
which it waits for while it holds the write lock: `cmd.pc = "find"` is where the
main core stays.

### Worker and AdaptiveRouting

One core, two ports, any application of `Apps`: `NAT` stands for every
conntrack application, `SPRAY` for VXLAN spraying, `AR` for adaptive routing.
Every packet buffer is free, in a receive queue, in the core's hands, in a
send buffer, on the wire, or `stranded`: line 125 frees the main core's (empty)
buffer instead of its own, and `adaptive_routing` returns from the middle of a
burst. The probes go through the network, which may lose, delay and reorder
them; an answer is recognised by its flow only. A path of 0 after the wrap of the
16 bit source port (`PortMod`) is the code's "not found".

### Env, Pipe, Startup, Firewall

One chain of extensions, since each `main` is one sequence. `Env` has every
step of `flowQoS_env_init` that can fail, with the rollback the code makes, and
`flowQoS_env_destroy`. `Pipe` has pipes with their fields, the entries in
hardware and those not yet reported, `flowQoS_add_entry` with its wait, the
translations `match_adapter` and `fwd_adapter` as the fate of a packet (`Walk`),
and the two rewritings of a packet: `action_adapter`'s in hardware and
`flowQoS_packet_modifyer`'s in software. `Startup` writes each `main` as a list of
steps, each with the code's reaction to its failure. `Firewall` adds the rule
commands. `late` and `open` are histories: an entry was reported late; the
entries whose result the code ignores were installed.

## Runs

| Run | Shows |
|---|---|
| `connsched_qos` | 4 flows, 3 contexts, 3 hardware places, budget 2, two queues with weights 1 and 2, entries made, refused or late: contexts are leaked or freed twice in no order of events (`PoolExact`); queues hold exactly the waiting connections (`QueuesExact`); one ageing mechanism per connection, but for late entries (`OneWatcher`); budget and the entries reported in time add up (`BudgetExact`); the congestion flag is what the last offload made of it, so that only ageing makes it stale (`PressureExact`); offloads go by priority, weight and age (`PriorityOrder`), and a round closes only when nothing is left to serve (`RoundComplete`) |
| `connsched_fair` | liveness: a connection of the highest queue does not wait for ever (`TopPriorityServed`) |
| `snat` | the same agreement with the scheduler off, where the context of a full hash is put back (`IInv`); ports and mappings agree (`PortsExact`), answers find their host as long as the connection lives (`ReplyFindsHost`), no port is lost (`NoPortLost`) and no answer goes to a former host (`DownstreamCurrent`) outside the two named cases |
| `lb` | two cores: no context is shared or lost (`ContextsExact`); counters (`StatsExact`), queues and budget (`SchedulerExact`) are exact unless a context was reused under a running callback |
| `filter` | threshold within its bounds (`TimeInBounds`), moves by its step (`ThresholdFollows`), comes back to its minimum (`Reopens`, liveness) |
| `filter_race` | two cores and `tune_filter`: until two operations overlap, the loads and stores implement `Filter` (`AtomicUntilRaced`) |
| `timer_wheel` | refinement of `Alarm` (`ImplementsAlarm`), the assertion of `timer_cascade` (`CascadeAssertion`), every timer fires (`Fires`) |
| `report` | messages conserved (`MessagesExact`), calls return (`CallsReturn`, liveness); until the first give-up, success means finished and arguments are alive (`TimelySuccess`), the reported flows are a number there was during the command and every cycle is shown once (`ReportsExact`) |
| `router` | LPM index and routes agree (`IndexExact`), `route` prints what was accepted and lookups give the longest match (`LookupExact`), ARP lookups and `arp` give what was learned (`ArpExact`), commands return (`CommandsReturn`) except a successful delete |
| `worker` | buffers conserved but for the two counted leaks (`MbufsConserved`), order kept per pair of ports (`InOrder`), no answer of another flow is used (`OwnPath`), packets are served and the worker stops (`ServesAndStops`, liveness) |
| `firewall` | all six programs: what was started is released once (`CleanExit`), ports and hairpins are taken down in order (`PortsOrderly`), what runs is complete (`ReadyToServe`); the firewall drops what its rules say (`RulesBacked`, `FilterExact`) |
| `firewall_direction` | violated: INPUT rules drop what comes from the host, against the comment of `enum traffic_direction` |

**Bounds.** `connsched_qos` has more flows than contexts, more contexts than
budget and a weight larger than one, so pool exhaustion, budget exhaustion in
the middle of a queue, expiry while queued and reuse of a context all occur;
the packet threshold is 1 so that a connection lives through packets that do
not offload it. There is a place in hardware more than the budget, so a core
gets past it with a late entry. The watermark is 100 %, so that of a budget of two
the first offload leaves the flag down, the second sets it, and an offload
after an entry aged finds the occupancy below it again or not. The liveness run
has two flows and a budget of one, without symmetry. The hash of `snat` has
room for two of its three contexts, so that it fills up before the pool and a
context is taken and put back; the pool runs empty in `connsched_qos`.
`CONSTRAINT Untorn` and `CONSTRAINT Unraced` end a behaviour in the state in
which `torn` or `raced` becomes true, that state included: after it every
property that is guarded by the history holds by its guard, and the actions
describe nothing. The action properties of `connsched_qos` have no such guard;
they are proved for the behaviours beyond the constraint too. `snat` has two hosts, two servers and two ports, so a port is reused
for another host and another server, and more connections than contexts and
than budget. `lb` has two contexts and caches that keep one, so a context
changes cores through the ring; the counters wrap after three. The filter's
values lie on both sides of the maximum and of the step, zero included.
`filter_race` has a setting above the maximum and one below, a step that takes
the threshold to its maximum, tuning switched on and off, and counts up to two,
so that every label of the cores and of `tune_filter` is reached without an
overlap. The
wheels have 4 buckets, timeouts on both sides of every carry up to one more
than the longest, and the clock goes beyond two turns of the outer wheel; one
timer is enough since no operation on a timer reads another. The rings of
`report` hold one message, so that they are full in both directions, and the
second call meets the late replies of the first; each core does one unit of
work, before, between or during the two commands. `router` has addresses of
three bits, nested networks, a gateway of no network, two addresses in the same
place of an ARP table and a route whose fields add up to 0. `worker` has bursts
and queues of two and four buffers, so that buffers are flushed when full and
the pool is empty; `firewall` has drop pipes of two entries, so that the third
rule is refused, and eight handles, more than any start-up installs.

`CHECK_DEADLOCK FALSE` where the system really ends: `report` (after the last
call of the bound), `worker` (after `stop_worker`), `firewall` (after `main`).
The `router` run checks deadlock: even with the main core stuck the workers go on.

**Fairness.** A worker polls without pause, which justifies weak fairness of
the round, the tick, the tuning, the worker's loop and the worker side of a
message; the clock runs, hence a timeout ends (`Timeout` in `AdaptiveRouting`).
The main core runs its command (`MainStep` in `Router`). A port eventually
sends what it took (`TxDone`). Strong fairness of `Scheduled` (doca-flow does not
refuse the same head for ever) and of `HwExpire` (an entry ages one day) are
assumptions about the hardware and the traffic; they are strong because rounds
interrupt the polling for aged entries. `connsched_fair` has no late completions:
with them its property is false. A late entry whose handle the next attempt
overwrites can never be removed (`flowQoS_aging_handle` removes the handle the
context holds), it keeps its place in hardware for ever, and in a table that
such entries fill no connection is ever served again. In `Message` nothing is assumed about
giving up: `CallsReturn` holds although the main core need not use its timeout.

## Proofs

`Snat_proofs` begins with `ConnSched`. This part holds for all flows, contexts, weights, budgets and
thresholds, for a finite hardware table, and whatever doca-flow does: nothing is
assumed of `Outcomes`.

- `Invariance`: `IInv` says that as long as no connection with a late entry has
  ended (`~torn`), the conjunction `Agreement` of `TypeOK`, `SchedulerOff` and what
  `PoolExact`, `QueuesExact`, `OneWatcher`, `BudgetExact` and `PressureExact` say
  is inductive. None of the parts is inductive alone: that an expiry leaves no
  dangling link (`QueuesExact`) needs that a timer is only armed for a context
  in use (`OneWatcher`), that it frees the right key needs `PoolExact`, that an
  aged entry gives back one unit of budget (`BudgetExact`) needs that it
  belongs to a connection in `HW_FWD` (`OneWatcher`). A late entry is in
  `Installed` but not in `Held`: what is true of every entry without late
  completions is true of the held ones with them, and an expiry that does not
  tear is one of a context to which no late entry leads. There is one lemma per
  action, with one step per conjunct. `TypeOK` needs no guard: the clamp of
  `flowQoS_return_entry_event` keeps the budget in range whatever is freed twice.
- `TypeCorrect`, `PoolSafety`, `QueueSafety`, `WatcherSafety`, `BudgetSafety`,
  `PressureSafety` are its consequences; `BudgetSafety` adds that the number of
  entries reported in time never exceeds the maximum.
- `WeightedOrder` and `RoundThoroughness` prove the two action properties from
  a second invariant, `RoundProgress`: the queues a round has passed are empty
  or have used their weight, or the budget is gone.

`Filter_proofs` proves `ThresholdBounds` and `TuningFollows` for all bounds,
steps and speeds.

`FilterRace_proofs` proves `AtomicityUntilRaced`, for any set of workers: until
two operations overlap, the loads and stores of all of them and of
`tune_filter` implement `Filter`, so that `Filter_proofs` holds of the code up
to then. The refinement mapping lets a tuning take effect at its last store
(`ResetStart`), a doubling when its clamp is through, and a setting, clamped,
when it is stored; until then the abstract threshold and count are the ones the
worker in the middle has loaded (`HeldOr`). The invariant `RaceInv` says that
while nothing has clashed at most one worker is busy with the threshold and at
most one with the count; for each worker, what it has in its registers at each
label, that they are still the current values, and that sums and doubles fit
into a word (`CoreInv`); and for `tune_filter`, that threshold and minimum are
in their bounds when no one is busy and it is idle (`Settled`). A step of one
worker is followed through its own label (`OwnStep`), and leaves every other
worker's part alone because that one is not busy with the same attribute
(`OtherStep`).

The rest of `Snat_proofs` proves the four port properties (`PortSafety`, `ReplySafety`,
`NoLeak`, `DownstreamSafety`) for all hosts, servers, ports and contexts, again
with late completions: `PortSafety` in every state, the others up to `torn`,
since they speak of the connections alive. Every step of
`Snat` is a step of `ConnSched` or leaves it alone (`SnatStepTable`), so `IInv`
carries over. None of the four is inductive alone: to see that an aged
connection gives back a port nobody else has, `LanLinked` is needed (the key of
a LAN side flow leads to a taken port, and no two lead to the same), and that
keys of other living connections survive needs that each flow has one context
(`PoolExact`). `SnatInv` is the conjunction.

`LoadBalancer_proofs` holds for all cores, flows, finite sets of contexts, real
servers, cache sizes and widths of the counter. `ContextSafety` needs that every
context is in exactly one of the hash tables, the ring and the caches
(`OnePlace`), which is stronger than the count: a context twice in one place and
another missing would give the same number. `SchedulerSafety` and `StatsSafety`
concern the callbacks, which read a context after they gave it back: `Reading`
says that, until one is reused (`raced`), what a callback reads is in no hash
table and read by no other callback, and is still in the state that chose the
callback. The counters are compared modulo their width; `AddOne` and
`SubtractOne` are what a C increment and decrement do to a number of contexts.

`Report_proofs` holds for all numbers of workers and calls, sizes of the rings
and amounts of work. `MessageSafety` counts messages: sums over the workers are
cardinalities of disjoint unions (`Units`), so that a step at one worker changes
one column. That the pool cannot run dry is a consequence. `TimelySafety` needs
`Progress`: while the main core has not given up, the phase of the call
determines where each worker and its two rings can be (`Tracked`).
`ReportUsesMessage` says that every behaviour of `Report` is one of `Message`,
so that both carry over; `ReportSafety` adds `Counting`: there are counts per
worker, those at the start of the command, that lie below what each worker has
copied and add up to `floor`.

`AdaptiveRouting_proofs` holds for all sizes of pool, rings and bursts, numbers
of paths and of packets, and for all three applications. `MbufSafety` is the sum over all
places a buffer can be. `OrderSafety` needs the order of all three stages
together (`Order`): packets in a send buffer are ahead of those in hand, which
are ahead of those in the receive queue, each sorted. `PathSafety` needs that
flow numbers are never reused (`Flows`) and that every probe and answer of the
flow in hand has one of its paths (`OnPath`): this is what an answer of an
earlier flow, however late, cannot break.

`Firewall_proofs` holds for all applications, sets of pipes, handles, addresses
and capacities. It has four parts.

- `SameRewrite`: for every set of flags, every action and every packet,
  `flowQoS_packet_modifyer` (field by field, in software) and the entry that
  `action_adapter` makes (all fields at once, in hardware) give the same
  headers, with the byte arithmetic of the TTL. The argument follows the fields
  one by one through the software's assignments.
- `OrderlyPorts` and `CleanEnd`, for all six programs. The inductive invariant
  `EnvInv` adds to `PortsOrderly` and `CleanExit` what has been acquired at each
  step of the start-up (`Acquired`) and that a start-up that succeeded acquired
  everything (`Complete`): without them nothing says that what
  `flowQoS_env_destroy` releases was there.
- `RuleSafety` and `FilterSafety`. `FwInv` adds to `RulesBacked` that no rule
  and no drop entry exists before the firewall runs nor in any other program
  (`NoRules`; `AllSteps` goes through the six mains), that the pipes and hairpin
  entries of the steps taken are there as long as main goes on (`Built`), and
  that nothing is outstanding if nothing was late (`Punctual`): else the entry
  of a listed rule could still be without effect, and the completion counted
  for one rule could be another's.
- `ServeSafety`, for all six programs and any finite number of handles. Nothing
  in `ReadyToServe` is inductive: it speaks of the moment a program serves,
  while what it needs was put there by steps of main long before, some of which
  may have failed with or without notice. `ServeInv` follows main step by step.
  `Queues` says that an outstanding completion stands for one entry in the
  hardware, of the port whose queue it is in, and is there once; `Waits` that
  completions are outstanding only on ports where an earlier step was late:
  so on any other port `flowQoS_add_entry` cannot mistake an old completion for
  its own. `BuiltStep` and `PutStep` say what each step taken has left behind,
  by the code's reaction to its failure ("exit", "note", "return", "ignore");
  `Opened` that the ports conntrack is enabled on have the pipes of the steps
  before, which is where a return too late would show; and that only `LB_init`
  notes a failure, which its fifth step looks at.

`PowersOfTwo_proofs` has the two components whose indices are shifts and masks.
The prover's arithmetic does not cover `2^n` nor a division by a parameter, so
the module starts with both: quotient and remainder by a positive number
(`Division`, `QuotientOrder`, `SameRemainder`), and `2^(n+1) = 2 * 2^n`
(`PowerStep`), which follows from the number of subsets of a set with one
element more. Inductions over numbers are made with `AllNumbers`, about a set
instead of an operator.

- `CascadeSafety` and `WheelsImplementAlarm`, for any number of wheels and of
  timers, any power of two of buckets, any timeouts and any lag. `WheelInv`
  says where a timer due at tick d may stand: in the bucket of a turn q of its
  wheel that comes before the wheel has turned once round, not before now and
  not after d (`Standing`), on the first wheel exactly d. This is weaker than
  "the digit of d", which is false: `timer_start` adds the digits of now and of
  the timeout without the carry of the digits below, so that a timer may be in
  the bucket before. `Started` shows that the lost carry only makes the bucket
  come earlier, `NotLate` that the cascade reaches it before its tick, and `CalledInTime`
  that by then it is on the first wheel, in the bucket of its tick and no other.
- `IndexSafety`, `LookupSafety` and `ArpSafety`, for every width of addresses,
  number of ports, size of the routing table and set of commands. `RouteInv`
  adds that stored routes have aligned network addresses, no two the same, so
  that the positions are the values of a one-to-one map from networks
  (`IndexInv`); the longest match among nested networks rests on `NetNested` and
  `NetFixed`: a longer mask leaves a network address as it is. `ArpInv` ties every place
  of a table to the one address of the port's network it stands for
  (`PlaceHolds`), which is why a lookup that compares no address is right, and
  `CmdInv` says that `ifconfig` makes the new table for the address just set.

The assumptions the proofs use are those of the modules: finite sets where
something is counted (`Handles` included: the hardware has a last entry),
`NULL` and `NONE` different from every value they are told apart from, positive
widths, and that the programs started are the six there are, with their pipes
among `PipeIds` (`MainsAssumption`). TLC evaluates them in every run.

A type invariant is no run's property of its own where a safety property has
it as a conjunct.

Only model-checked: liveness, that is `TopPriorityServed`, `Reopens`, `Fires`,
`CallsReturn`, `CommandsReturn` and `ServesAndStops`, which rest on fairness and
on when actions are enabled, out of this prover's reach. Every other property
of a run that passes is stated by a theorem.

## Seen while modelling

Where the code does not keep a promise, the property of a run is stated for
the behaviours in which it does, and the case is named by a history variable or
an explicit exception. These cases, and others that need no run:

- ConnSched: with a short budget the higher queues use up every entry that is
  given back and a lower queue is never served (`flowQoS_qos.c:111`, with
  `flowQoS_conntrack.c:520` speaking of wrr). An entry reported late is not
  counted and asked for again, so that a core may install more than its budget
  (`flowQoS_pipe.c:296`, against "the maximum offloaded entry per core"). When the
  connection of such an entry ends, its context is freed although a timer, a
  queue or an entry still leads to it; it may be freed a second time, or be in
  use by another connection by then (`torn`). A late entry whose handle a later attempt overwrites is
  never removed. `hwCongested` stays set when entries age without an offload
  (`flowQoS_qos.c:131`); `PressureExact` says by how much it may be out of date.
- Filter: two operations of two cores that overlap lose an update of the
  threshold or of the count (lines 465, 472, 486, 526). Two cores may both pass
  the test of line 471 before either subtracts; the unsigned threshold then wraps
  below zero; a threshold that is raised while it is set may end below its new
  minimum. `AtomicUntilRaced` says that nothing goes wrong without such an
  overlap; with it the threshold is not claimed to be anything. The pressure callback doubles a threshold that may
  be 0 (line 486).
- Timer: a timer set while the wheel lags behind the clock fires early by the
  lag (`flowQoS_timer.c:196`).
- Message: a reply that comes after the main core gave up is counted for the
  next call (`flowQoS_message.c:193`); one int is given for the replies of all
  workers (line 273, against `flowQoS_message.h:55`).
- Conntrack: the context goes back to the pool before the callbacks have read
  it (line 353); a port or a count is lost when a connection cannot be added
  after the handler ran (711). `flowQoS_conntrack_init_port` tests `ret < 0` where
  `flowQoS_add_entry` returns 0, and its callers test `< 0` where it returns 0.
- Router: see the section above. SNAT: `orphaned`.
- Worker: the two leaks; packets in a send buffer are not sent when the worker
  stops.
- Environment: the mains ignore the result of `flowQoS_env_init`, so a failed
  start-up goes on into `flowQoS_add_entry` with a null pipe, or releases twice;
  a hairpin bound half way on the first port stays bound while the port is
  closed (`cut`); the mempool is never freed.
- Firewall: a rule whose entry is reported late drops packets, is not listed and
  cannot be deleted; the result of the hairpin entries is ignored;
  `MAX_RULES * 2` is `1 << 10 * 2`, that is 2^20.

## Not modelled

Formatting and the layout of what commands print; parsing of command lines
(the library's); checksums. The refresh of the software timer by packets, at
most once a second, does not matter where timers may expire at any time. The
self test in `flowQoS_message.c` is called by nothing. Of `src/common` only the
life of ports in `dpdk_utils.c` is used by FlowQoS; `flow_parser.c`,
`dpi_worker.c`, `flow_pipes_manager.c`, `offload_rules.c` and the rest are NVIDIA's sample
library, and the GPU and SFT branches of `dpdk_utils.c` are switched off.

## Plan

1. Done: the core with its proofs, the applications, router, worker, start-up.
2. Done: the proofs above.
3. Done: contexts, scheduler and counters of `LoadBalancer`; messages and
   reports; buffers, order and paths in `Worker` and `AdaptiveRouting`; the
   rules of `Firewall`.
4. Done: what the programs serve with (`ReadyToServe`), the router's three
   properties, the timing wheel and its refinement of `Alarm`.

5. Done: late completions in the runs and the theorems of `ConnSched` and `Snat`;
   any number of workers and `tune_filter` in `FilterRace`, with its theorem.

Left: what happens after `torn` and `raced` is where the code does not keep its
promise; a repaired version of either (an entry that is looked for again before
it is asked for again, atomic attributes) would be the next thing to model and
to prove. `LoadBalancer` has several cores but no late completions.
