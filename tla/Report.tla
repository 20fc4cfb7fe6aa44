------------------------------- MODULE Report -------------------------------
(***************************************************************************)
(* The commands that report on the workers (cps, ipvsadm, top, conntrack,  *)
(* dumpFlowQoS) on top of the messages: the task copies counters of its    *)
(* core into the core's cell of an array, and the main core adds the cells *)
(* up when flowQoS_message_multiThread_do returns, whatever it returned.   *)
(*                                                                         *)
(* Three arrays stand for all: "offload" for offloadedFlows, whose task    *)
(* sets the cell to 0 before it adds to it, "flows" for the stats of       *)
(* ipvsadm and conntrack's ctStats, whose tasks copy a count, and "cycles" *)
(* for cpuConsumptionStats, whose task also resets the counter it copies.  *)
(* The arrays are static: cells keep their values between commands.        *)
(***************************************************************************)
EXTENDS Message

CONSTANT MaxWork    \* bound: offloads of a core

ASSUME ReportAssumption == MaxWork \in Nat

Reports == {"offload", "flows", "cycles"}

VARIABLES
  kind,       \* the command of each call
  finished,   \* FlowQoS_Context->finished of each core, over its queues
  cpu,        \* cpuConsumption of each core
  cells,      \* offloadedFlows, stats of printST, cpuConsumptionStats
  zeroed,     \* the cores that have set their cell to 0 and not yet filled it
  adding,     \* the cell the main core adds next, 0 outside its loop
  total,      \* what it has added up so far, cycles apart
  floor,      \* history: the offloads there were when the command started
  reported    \* history: the cycles all top commands together have added up

reportVars == <<kind, finished, cpu, cells, zeroed, adding, total, floor, reported>>
allVars == <<vars, reportVars>>

ReportInit ==
  /\ Init
  /\ kind = [c \in 1 .. MaxCalls |-> "offload"]
  /\ finished = [s \in Slaves |-> 0]
  /\ cpu = [s \in Slaves |-> 0]
  /\ cells = [r \in Reports |-> [s \in Slaves |-> 0]]
  /\ zeroed = {}
  /\ adding = 0
  /\ total = 0
  /\ floor = 0
  /\ reported = 0

(* A worker offloads a flow (flowQoS_do_entry_event), and its loop accounts *)
(* a cycle for it.                                                          *)
Works(s) ==
  /\ slave[s] = "poll" /\ finished[s] < MaxWork
  /\ finished' = [finished EXCEPT ![s] = @ + 1]
  /\ cpu' = [cpu EXCEPT ![s] = @ + 1]
  /\ UNCHANGED <<vars, kind, cells, zeroed, adding, total, floor, reported>>

(* The command calls flowQoS_message_multiThread_do.                        *)
Command(r) ==
  /\ Call /\ adding = 0
  /\ kind' = [kind EXCEPT ![call + 1] = r]
  /\ floor' = IF timely /\ r # "cycles" THEN Sum(finished) ELSE 0
  /\ total' = 0
  /\ UNCHANGED <<finished, cpu, cells, zeroed, adding, reported>>

-----------------------------------------------------------------------------
(* The tasks on the worker cores.                                           *)

Doing(s, r) == slave[s] = "run" /\ kind[task[s]] = r

(* getFlowQoSOffload_slave clears its cell: offloadedFlows[lcore] = 0 ...   *)
Zero(s) ==
  /\ Doing(s, "offload") /\ s \notin zeroed
  /\ cells' = [cells EXCEPT !["offload"][s] = 0]
  /\ zeroed' = zeroed \cup {s}
  /\ UNCHANGED <<vars, kind, finished, cpu, adding, total, floor, reported>>

(* ... and adds up its priorities there.                                    *)
FillOffload(s) ==
  /\ Doing(s, "offload") /\ s \in zeroed
  /\ SlaveRuns(s)
  /\ cells' = [cells EXCEPT !["offload"][s] = @ + finished[s]]
  /\ zeroed' = zeroed \ {s}
  /\ UNCHANGED <<kind, finished, cpu, adding, total, floor, reported>>

(* printST_slave, conntrack_slave: the cell gets the count of the moment    *)
(* (the flows of a core, which only grow in number here).                   *)
FillFlows(s) ==
  /\ Doing(s, "flows")
  /\ SlaveRuns(s)
  /\ cells' = [cells EXCEPT !["flows"][s] = finished[s]]
  /\ UNCHANGED <<kind, finished, cpu, zeroed, adding, total, floor, reported>>

(* Mutant: the counter goes on after it was copied.                         *)
ResetCpuForgotten(s) == cpu

ResetCpu(s) == [cpu EXCEPT ![s] = 0]

(* dumpWorkerStats_slave                                                    *)
FillCycles(s) ==
  /\ Doing(s, "cycles")
  /\ SlaveRuns(s)
  /\ cells' = [cells EXCEPT !["cycles"][s] = cpu[s]]
  /\ cpu' = ResetCpu(s)
  /\ UNCHANGED <<kind, finished, zeroed, adding, total, floor, reported>>

-----------------------------------------------------------------------------
(* The loop of the main core over RTE_LCORE_FOREACH_WORKER.                 *)

StartAdding ==
  /\ MasterReturns
  /\ adding' = 1
  /\ UNCHANGED <<kind, finished, cpu, cells, zeroed, total, floor, reported>>

NextCell == IF adding = SlaveNum THEN 0 ELSE adding + 1

(* getFlowQoSOffload, printST and dumpWorkerStats take in one more cell.    *)
AddCell ==
  /\ adding # 0
  /\ \/ /\ kind[call] # "cycles"
        /\ total' = total + cells[kind[call]][adding]
        /\ UNCHANGED reported
     \/ /\ kind[call] = "cycles"
        /\ reported' = IF timely THEN reported + cells["cycles"][adding] ELSE 0
        /\ UNCHANGED total
  /\ adding' = NextCell
  /\ UNCHANGED <<vars, kind, finished, cpu, cells, zeroed, floor>>

(* The main core gives up on a worker.  The histories end there.            *)
GiveUp ==
  /\ MasterGivesUp
  /\ floor' = 0
  /\ reported' = 0
  /\ UNCHANGED <<kind, finished, cpu, cells, zeroed, adding, total>>

-----------------------------------------------------------------------------
MasterGoesOn ==
  \/ /\ MasterMakes \/ MasterEnqueues \/ MasterDequeues \/ MasterFrees
     /\ UNCHANGED reportVars
  \/ StartAdding
  \/ AddCell

SlaveGoesOn(s) ==
  \/ /\ SlaveDequeues(s) \/ SlaveFrees(s) \/ SlaveMakes(s) \/ SlaveEnqueues(s)
     /\ UNCHANGED reportVars
  \/ Zero(s)
  \/ FillOffload(s)
  \/ FillFlows(s)
  \/ FillCycles(s)

ReportNext ==
  \/ \E r \in Reports : Command(r)
  \/ GiveUp
  \/ MasterGoesOn
  \/ \E s \in Slaves : SlaveGoesOn(s) \/ Works(s)

(* As in Message: the workers poll without pause and a call goes on.        *)
ReportSpec ==
  /\ ReportInit /\ [][ReportNext]_allVars
  /\ WF_allVars(MasterGoesOn)
  /\ \A s \in Slaves : WF_allVars(SlaveGoesOn(s))

-----------------------------------------------------------------------------
(* The cells are counters, and the loop stays inside the array.             *)
ReportTypeOK ==
  /\ kind \in [1 .. MaxCalls -> Reports]
  /\ finished \in [Slaves -> 0 .. MaxWork] /\ cpu \in [Slaves -> 0 .. MaxWork]
  /\ cells \in [Reports -> [Slaves -> Nat]]
  /\ zeroed \subseteq Slaves
  /\ adding \in 0 .. SlaveNum
  /\ total \in Nat /\ floor \in Nat /\ reported \in Nat

(* The number a command has added up is one there was during the command.   *)
OffloadsExact ==
  timely /\ call > 0 /\ kind[call] # "cycles" /\ master = "idle" /\ adding = 0
    => floor <= total /\ total <= Sum(finished)

(* The cycles in the cells that the present command has yet to add.         *)
InCells ==
  IF call = 0 \/ kind[call] # "cycles" THEN 0
  ELSE SumOver(cells["cycles"],
         {s \in Slaves : /\ last[s] = call
                         /\ master # "idle" \/ (adding # 0 /\ s >= adding)})

(* Every cycle is shown, is in a cell that is yet to be shown, or is in the *)
(* counter of its core.                                                     *)
CyclesExact == timely => reported + InCells + Sum(cpu) = Sum(finished)

(* As long as the main core has never given up on a worker: getFlowQoSOffload *)
(* and printST add up a number of flows there was at some time during the   *)
(* command, so that two results can be subtracted (getCPS does, in          *)
(* uint64_t) and the second is never the smaller; and every cycle of a      *)
(* worker is shown by exactly one top command, wherever between copy, reset *)
(* and sum the other cores are.  After a late reply the main core may read  *)
(* a cell between Zero and FillOffload.                                     *)
ReportsExact == ReportTypeOK /\ OffloadsExact /\ CyclesExact
=============================================================================
