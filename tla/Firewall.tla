------------------------------ MODULE Firewall ------------------------------
(***************************************************************************)
(* The stateless firewall (apps/flowQoS_firewall.c): a list of rules, each *)
(* with its entry in one of the drop pipes that main has built (Startup).  *)
(* The programs are modelled from flowQoS_env_init to flowQoS_env_destroy. *)
(***************************************************************************)
EXTENDS Startup

CONSTANTS
  Addresses,   \* pairs of a source address and a source port
  MaxRules     \* bound: entries in all drop pipes together

Match == [src_ip : {a[1] : a \in Addresses}, src_port : {a[2] : a \in Addresses}]

(* NULL is no entry of a rule.                                              *)
ASSUME FirewallAssumption ==
  /\ MaxRules \in Nat
  /\ NULL \notin [pipe : PipeIds, match : Match \cup {NULL}, action : {NULL}]

VARIABLES
  bucket,      \* the list of rules, the newest first
  late         \* history: an entry completed after flowQoS_add_entry returned

vars == <<envVars, pipeVars, mainVars, bucket, late>>

PORT_TO_HOST == 1
PORT_TO_NET == 0

Directions == {"INPUT", "OUTPUT"}

Init ==
  /\ EnvInit
  /\ PipeInit
  /\ MainInit
  /\ bucket = <<>>
  /\ late = FALSE

-----------------------------------------------------------------------------
DropEntries == UNION {EntriesOf(DropPipe(x, p)) : x \in Protocols, p \in Ports}

(* The port whose drop pipes get the rules of a direction.                  *)
RulePort(direction) == IF direction = "INPUT" THEN PORT_TO_HOST ELSE PORT_TO_NET

(* A rule is listed, at the head, when its entry was reported in time, and  *)
(* freed otherwise.                                                         *)
Listed(rule, ok) == IF ok THEN <<rule>> \o bucket ELSE bucket

(* flowQoS_firewall_add_rule; malloc failing is the same as h = NULL.       *)
AddRule(direction, proto, e) ==
  LET i == DropPipe(proto, RulePort(direction))
  IN /\ pc = "running" /\ app = "firewall"
     /\ \E h \in Handles \cup {NULL}, done \in 0 .. Cardinality(Handles) :
          /\ h # NULL => Cardinality(DropEntries) < MaxRules
          /\ AddEntry(i, e, NULL, h, done)
          /\ bucket' = Listed([direction |-> direction, proto |-> proto,
                               match |-> e, entry |-> h],
                              AddEntryResult(h, done))
          /\ late' = (late \/ (h # NULL /\ done = 0))
     /\ UNCHANGED <<envVars, mainVars, pipes>>

(* Mutant: the rule after the one asked for is removed from the list.       *)
WithoutNext(n) == IF n < Len(bucket) THEN SubSeq(bucket, 1, n) \o SubSeq(bucket, n + 2, Len(bucket))
                  ELSE bucket

Without(n) == SubSeq(bucket, 1, n - 1) \o SubSeq(bucket, n + 1, Len(bucket))

(* flowQoS_firewall_del_rule of the n-th rule; when doca-flow refuses, and  *)
(* when there is no such rule, nothing changes.                             *)
DelRule(n) ==
  /\ pc = "running" /\ app = "firewall" /\ n \in DOMAIN bucket
  /\ RemoveEntry(bucket[n].entry)
  /\ bucket' = Without(n)
  /\ UNCHANGED <<envVars, mainVars, pipes, late>>

Next ==
  \/ EnvNext /\ UNCHANGED <<pipeVars, mainVars, bucket, late>>
  \/ MainNext /\ UNCHANGED <<bucket, late>>
  \/ \E d \in Directions, x \in Protocols, e \in Match : AddRule(d, x, e)
  \/ \E n \in 1 .. Cardinality(Handles) : DelRule(n)

Spec == Init /\ [][Next]_vars

-----------------------------------------------------------------------------
RuleEntries == {bucket[n].entry : n \in DOMAIN bucket}

(* Whatever completes late, every rule the command "show" lists has an      *)
(* entry of its own, of the same match, in the right drop pipe: it can be   *)
(* deleted, and deleting it deletes no other rule's entry.  As long as no   *)
(* entry completed late, the drop pipes hold the entries of the listed      *)
(* rules and no other; a late completion leaves an entry that drops         *)
(* packets, is not listed and cannot be deleted.                            *)
RulesBacked ==
  /\ \A n \in DOMAIN bucket : LET r == bucket[n] IN
       /\ hw[r.entry] = [pipe |-> DropPipe(r.proto, RulePort(r.direction)),
                         match |-> r.match, action |-> NULL]
       /\ \A k \in DOMAIN bucket : bucket[k].entry = r.entry => k = n
  /\ ~late => DropEntries = RuleEntries

Packets == [port : Ports, proto : Protocols, src_ip : {a[1] : a \in Addresses},
            src_port : {a[2] : a \in Addresses}]

Dropped(m) == Walk(DropPipe(m.proto, m.port), m) = DROP

(* While the firewall runs, a packet is dropped exactly if a listed rule of *)
(* its port and protocol names its source, and goes to the other port       *)
(* otherwise; as long as no entry completed late and both hairpin entries   *)
(* were installed.                                                          *)
FilterExact ==
  pc = "running" /\ app = "firewall" /\ ~late /\ open =>
    \A m \in Packets :
      Dropped(m) <=> \E n \in DOMAIN bucket : LET r == bucket[n] IN
        /\ RulePort(r.direction) = m.port /\ r.proto = m.proto
        /\ r.match = [src_ip |-> m.src_ip, src_port |-> m.src_port]

(* "INPUT, ///< from net to host": once a rule is listed, packets that come *)
(* from the side the comment names, and match it, are dropped.              *)
CameFrom(direction) == IF direction = "INPUT" THEN PORT_TO_NET ELSE PORT_TO_HOST

DirectionsMeant ==
  pc = "running" /\ app = "firewall" /\ ~late /\ open =>
    \A n \in DOMAIN bucket : LET r == bucket[n] IN
      Dropped([port |-> CameFrom(r.direction), proto |-> r.proto,
               src_ip |-> r.match.src_ip, src_port |-> r.match.src_port])
=============================================================================
