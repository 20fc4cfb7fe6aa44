-------------------------------- MODULE Pipe --------------------------------
(***************************************************************************)
(* The pipes and entries of flowQoS_pipe.c on the hardware (doca-flow,     *)
(* external).  An entry is posted, and completes later; flowQoS_add_entry  *)
(* waits a bounded time for as many completions as it has posted entries,  *)
(* whosever they are.                                                      *)
(***************************************************************************)
EXTENDS Env

CONSTANTS
  PipeIds,      \* the pipes of the application
  Handles,      \* handles of hardware entries
  NULL

ASSUME PipeAssumption ==
  NULL \notin PipeIds /\ NULL \notin Handles /\ Handles \subseteq Nat /\ IsFiniteSet(Handles)

VARIABLES
  pipes,      \* struct FlowQoS_PIPE, or NULL
  hw,         \* the entries the hardware has: handle -> entry
  pending     \* the handles whose completion has not been reported, per port

pipeVars == <<pipes, hw, pending>>

(* The forms of FlowQoS_FWD these pipes have; PIPE is a pointer, in next.    *)
DROP == "DROP"
PORT == "PORT"
RSS_TO_QUEUE == "RSS_TO_QUEUE"
PIPE == "PIPE"

PipeInit ==
  /\ pipes = [i \in PipeIds |-> NULL]
  /\ hw = [h \in Handles |-> NULL]
  /\ pending = [p \in Ports |-> <<>>]

-----------------------------------------------------------------------------
(* flowQoS_build_pipe: the flags, the fate of packets that match an entry   *)
(* and of those that match none (fwd_adapter), and the capacity.            *)
BuildPipe(i, pipe) ==
  /\ ports[pipe.port_id] = "up"
  /\ pipes' = [pipes EXCEPT ![i] = pipe]

(* rte_malloc or doca_flow_pipe_create fails, as the latter does for a port *)
(* that is not there; using one that was destroyed is an error of its own.  *)
BuildPipeFails(port) ==
  misuse' = misuse \cup
    IF \E p \in Ports : p = port /\ ports[p] = "down" THEN {"pipe"} ELSE {}

(* The entries of a pipe, completed or not.                                 *)
EntriesOf(i) == {h \in Handles : hw[h] # NULL /\ hw[h].pipe = i}

(* doca_flow_pipe_add_entry: a handle, or NULL when the pipe is full or the *)
(* hardware refuses.                                                        *)
Posted(i) ==
  {NULL} \cup
  {h \in Handles : /\ hw[h] = NULL
                   /\ \A g \in Handles : hw[g] = NULL => h <= g
                   /\ Cardinality(EntriesOf(i)) < pipes[i].max_entry_amount}

(* The result of flowQoS_add_entry with flush = 1.                          *)
AddEntryResult(h, done) == h # NULL /\ done = 1

(* flowQoS_add_entry(pipe, entry, 0, 1) with the handle h it got and the    *)
(* number of completions that came in time: at most one if one is awaited,  *)
(* any number (max_processed_entries is 0) if the entry was refused.        *)
AddEntry(i, e, action, h, done) ==
  LET q == pipes[i].port_id
      waiting  == IF h = NULL THEN pending[q] ELSE Append(pending[q], h)
  IN /\ h \in Posted(i)
     /\ done \in 0 .. Len(waiting) /\ (h # NULL => done <= 1)
     /\ hw' = IF h = NULL THEN hw
              ELSE [hw EXCEPT ![h] = [pipe |-> i, match |-> e, action |-> action]]
     /\ pending' = [pending EXCEPT ![q] = SubSeq(waiting, done + 1, Len(waiting))]

(* The completions q without the one of h, which is there at most once.     *)
NotAwaited(q, h) ==
  IF \E n \in DOMAIN q : q[n] = h
    THEN LET n == CHOOSE n \in DOMAIN q : q[n] = h
         IN SubSeq(q, 1, n - 1) \o SubSeq(q, n + 1, Len(q))
    ELSE q

(* doca_flow_pipe_rm_entry                                                  *)
RemoveEntry(h) ==
  /\ hw' = [hw EXCEPT ![h] = NULL]
  /\ pending' = [p \in Ports |-> NotAwaited(pending[p], h)]

Effective(h) == hw[h] # NULL /\ \A p \in Ports : \A i \in DOMAIN pending[p] : pending[p][i] # h

-----------------------------------------------------------------------------
(* What the hardware does to a packet.                                      *)

(* Mutant: the source port is left out of the match.                        *)
MatchAdapterNoPort(flags, e, m) ==
  /\ "SIP"   \in flags => e.src_ip = m.src_ip
  /\ "DIP"   \in flags => e.dst_ip = m.dst_ip
  /\ "DPORT" \in flags => e.dst_port = m.dst_port
  /\ "TCP"   \in flags => m.proto = "TCP"
  /\ "UDP"   \in flags => m.proto = "UDP"

(* match_adapter: the fields that the flags name, compared in full.         *)
MatchAdapter(flags, e, m) ==
  /\ "SIP"   \in flags => e.src_ip = m.src_ip
  /\ "DIP"   \in flags => e.dst_ip = m.dst_ip
  /\ "SPORT" \in flags => e.src_port = m.src_port
  /\ "DPORT" \in flags => e.dst_port = m.dst_port
  /\ "TCP"   \in flags => m.proto = "TCP"
  /\ "UDP"   \in flags => m.proto = "UDP"

(* The entries of pipe i that take the packet m.                            *)
Hits(i, m) ==
  {h \in EntriesOf(i) : Effective(h) /\ MatchAdapter(pipes[i].match, hw[h].match, m)}

(* fwd_adapter: the fate a pipe gives to a packet.                          *)
Fate(i, m) == IF Hits(i, m) # {} THEN pipes[i].matched ELSE pipes[i].unmatched

(* From the root pipe i to the next one, where the fate is a pipe.          *)
Walk(i, m) == IF Fate(i, m) = PIPE THEN Fate(pipes[i].next, m) ELSE Fate(i, m)

-----------------------------------------------------------------------------
(* The rewriting of a packet of a connection, by the software until it is   *)
(* offloaded and by the hardware afterwards.                                *)

Fields == {"SMAC", "DMAC", "SIP", "DIP", "SPORT", "DPORT"}
TTL_DECREASE == "TTL_DECREASE"

(* action_adapter: the entry's values for the fields that the flags name;   *)
(* UINT8_MAX is added to the TTL.                                           *)
Hardware(flags, action, m) ==
  [f \in Fields \cup {"TTL"} |->
     IF f = "TTL" THEN IF TTL_DECREASE \in flags THEN (m[f] + 255) % 256 ELSE m[f]
     ELSE IF f \in flags THEN action[f] ELSE m[f]]

(* flowQoS_packet_modifyer: one field after the other; the TTL is a         *)
(* uint8_t, so that 0 becomes 255.                                          *)
Software(flags, action, m) ==
  LET Set(p, f) == IF f \in flags THEN [p EXCEPT ![f] = action[f]] ELSE p
      ttl(p) == IF TTL_DECREASE \in flags
                  THEN [p EXCEPT !["TTL"] = IF @ = 0 THEN 255 ELSE @ - 1] ELSE p
  IN Set(Set(ttl(Set(Set(Set(Set(m, "SMAC"), "DMAC"), "SIP"), "DIP")), "SPORT"), "DPORT")
=============================================================================
