--------------------------- MODULE Firewall_proofs ---------------------------
(***************************************************************************)
(* The pipes and the programs, for any set of applications, pipes, entries *)
(* and rules: software and hardware rewrite a connection's packets alike;  *)
(* however far flowQoS_env_init came, ports and hairpins are taken down in *)
(* order, and what was started is released once; the firewall drops        *)
(* exactly what its rules name; and the programs that serve have the pipes *)
(* and entries they serve with, whatever failed or came late while their   *)
(* mains ran.                                                              *)
(***************************************************************************)
EXTENDS Firewall, FiniteSetTheorems, SequenceTheorems, WellFoundedInduction, TLAPS

-----------------------------------------------------------------------------
(* The two translations of a connection's action agree: the one of          *)
(* flowQoS_packet_modifyer (flowQoS_conntrack.c), which rewrites packets    *)
(* until the connection is offloaded, and the one of action_adapter         *)
(* (flowQoS_pipe.c), which makes the hardware rewrite them afterwards.      *)

(* The headers of packets whose fields have values in V; the TTL is a byte. *)
Header(V) == {m \in [Fields \cup {"TTL"} -> V] : m["TTL"] \in 0 .. 255}

(* Setting one field leaves all others alone, and sets it exactly if the    *)
(* flags name it: a step of flowQoS_packet_modifyer.                        *)
LEMMA SetField ==
  ASSUME NEW flags, NEW V, NEW action \in [Fields -> V],
         NEW p \in [Fields \cup {"TTL"} -> V], NEW f \in Fields,
         NEW q, q = IF f \in flags THEN [p EXCEPT ![f] = action[f]] ELSE p
  PROVE  /\ q \in [Fields \cup {"TTL"} -> V]
         /\ q[f] = IF f \in flags THEN action[f] ELSE p[f]
         /\ \A g \in (Fields \cup {"TTL"}) \ {f} : q[g] = p[g]
  BY DEF Fields

(* ip->time_to_live-- on a uint8_t is the addition of UINT8_MAX that        *)
(* action_adapter asks for, 0 included.                                     *)
LEMMA TtlWraps ==
  \A t \in 0 .. 255 : (t + 255) % 256 = IF t = 0 THEN 255 ELSE t - 1
  OBVIOUS

(* A connection's packets leave with the same headers before and after it   *)
(* is offloaded, for every set of flags a pipe can be built with, every     *)
(* action and every packet: flowQoS_packet_modifyer and action_adapter      *)
(* agree, although one goes field by field and the other all at once.       *)
THEOREM SameRewrite ==
  ASSUME NEW flags, NEW V, 0 .. 255 \subseteq V,
         NEW action \in [Fields -> V], NEW m \in Header(V)
  PROVE  Software(flags, action, m) = Hardware(flags, action, m)
<1> DEFINE Set(p, f) == IF f \in flags THEN [p EXCEPT ![f] = action[f]] ELSE p
           ttl(p) == IF TTL_DECREASE \in flags
                       THEN [p EXCEPT !["TTL"] = IF @ = 0 THEN 255 ELSE @ - 1] ELSE p
           H == Fields \cup {"TTL"}
           m1 == Set(m, "SMAC")
           m2 == Set(m1, "DMAC")
           m3 == Set(m2, "SIP")
           m4 == Set(m3, "DIP")
           m5 == ttl(m4)
           m6 == Set(m5, "SPORT")
           m7 == Set(m6, "DPORT")
<1>0. m \in [H -> V] /\ m["TTL"] \in 0 .. 255
  BY DEF Header
<1>1. m1 \in [H -> V] /\ m1["SMAC"] = (IF "SMAC" \in flags THEN action["SMAC"] ELSE m["SMAC"])
      /\ \A g \in H \ {"SMAC"} : m1[g] = m[g]
  BY <1>0, SetField DEF Fields
<1> HIDE DEF m1
<1>2. m2 \in [H -> V] /\ m2["DMAC"] = (IF "DMAC" \in flags THEN action["DMAC"] ELSE m1["DMAC"])
      /\ \A g \in H \ {"DMAC"} : m2[g] = m1[g]
  BY <1>1, SetField DEF Fields
<1> HIDE DEF m2
<1>3. m3 \in [H -> V] /\ m3["SIP"] = (IF "SIP" \in flags THEN action["SIP"] ELSE m2["SIP"])
      /\ \A g \in H \ {"SIP"} : m3[g] = m2[g]
  BY <1>2, SetField DEF Fields
<1> HIDE DEF m3
<1>4. m4 \in [H -> V] /\ m4["DIP"] = (IF "DIP" \in flags THEN action["DIP"] ELSE m3["DIP"])
      /\ \A g \in H \ {"DIP"} : m4[g] = m3[g]
  BY <1>3, SetField DEF Fields
<1> HIDE DEF m4
<1>5. /\ m5 \in [H -> V]
      /\ m5["TTL"] = (IF TTL_DECREASE \in flags
                        THEN IF m["TTL"] = 0 THEN 255 ELSE m["TTL"] - 1 ELSE m["TTL"])
      /\ \A g \in Fields : m5[g] = m4[g]
  <2>1. m4["TTL"] = m["TTL"]
    BY <1>1, <1>2, <1>3, <1>4 DEF Fields
  <2>2. (IF m4["TTL"] = 0 THEN 255 ELSE m4["TTL"] - 1) \in V
    BY <2>1, <1>0
  <2> QED
    BY <1>4, <2>1, <2>2 DEF Fields
<1> HIDE DEF m5
<1>6. m6 \in [H -> V] /\ m6["SPORT"] = (IF "SPORT" \in flags THEN action["SPORT"] ELSE m5["SPORT"])
      /\ \A g \in H \ {"SPORT"} : m6[g] = m5[g]
  BY <1>5, SetField DEF Fields
<1> HIDE DEF m6
<1>7. m7 \in [H -> V] /\ m7["DPORT"] = (IF "DPORT" \in flags THEN action["DPORT"] ELSE m6["DPORT"])
      /\ \A g \in H \ {"DPORT"} : m7[g] = m6[g]
  BY <1>6, SetField DEF Fields
<1>8. Software(flags, action, m) = m7
  BY DEF Software, m1, m2, m3, m4, m5, m6
<1> HIDE DEF m7
<1>9. \A g \in H : m7[g] = Hardware(flags, action, m)[g]
  <2>1. m7["TTL"] = Hardware(flags, action, m)["TTL"]
    <3>1. m7["TTL"] = m5["TTL"]
      BY <1>6, <1>7 DEF Fields
    <3> QED
      BY <3>1, <1>5, <1>0, TtlWraps DEF Hardware
  <2>2. \A g \in Fields : m7[g] = IF g \in flags THEN action[g] ELSE m[g]
    BY <1>1, <1>2, <1>3, <1>4, <1>5, <1>6, <1>7 DEF Fields
  <2> QED
    BY <2>1, <2>2 DEF Hardware, Fields
<1> QED
  BY <1>7, <1>8, <1>9 DEF Hardware

-----------------------------------------------------------------------------
(* The steps of the mains.                                                  *)

DropIds == {DropPipe(x, p) : x \in Protocols, p \in Ports}

(* The pipes that get their entries while the program runs: for rules, and  *)
(* for connections.                                                         *)
LaterIds == DropIds \cup {ConnPipe(x, p) : x \in Protocols, p \in Ports}

(* The port whose queue takes the entries of a pipe.                        *)
PortOf(i) == PipeOf(i).port_id

(* The pipes of the programs.                                               *)
LEMMA PipesKnown ==
  /\ \A p \in Ports : /\ Hairpin(p) \in AllPipes /\ RssPipe(p) \in AllPipes
                      /\ EcmpPipe(p) \in AllPipes /\ SprayPipe(p) \in AllPipes
  /\ \A x \in Protocols, p \in Ports : DropPipe(x, p) \in AllPipes /\ ConnPipe(x, p) \in AllPipes
  /\ \A x \in Protocols : DownstreamPipe(x) \in AllPipes
  /\ FwdPipe \in AllPipes /\ ProbePipe \in AllPipes
<1> DEFINE P(p) == {Hairpin(p), RssPipe(p), EcmpPipe(p), SprayPipe(p)}
           D == {DropPipe(x, p) : x \in Protocols, p \in Ports}
           C == {ConnPipe(x, p) : x \in Protocols, p \in Ports}
           W == {DownstreamPipe(x) : x \in Protocols}
<1>1. AllPipes = (UNION {P(p) : p \in Ports}) \cup D \cup C \cup W \cup {FwdPipe, ProbePipe}
  BY DEF AllPipes
<1>3. ASSUME NEW p \in Ports PROVE P(p) \subseteq AllPipes
  <2> HIDE DEF P, D, C, W
  <2>1. P(p) \subseteq UNION {P(q) : q \in Ports}
    OBVIOUS
  <2> QED
    BY <1>1, <2>1
<1>4. /\ D \subseteq AllPipes /\ C \subseteq AllPipes /\ W \subseteq AllPipes
      /\ FwdPipe \in AllPipes /\ ProbePipe \in AllPipes
  <2> HIDE DEF P, D, C, W
  <2> QED
    BY <1>1
<1>5. \A p \in Ports : /\ Hairpin(p) \in AllPipes /\ RssPipe(p) \in AllPipes
                       /\ EcmpPipe(p) \in AllPipes /\ SprayPipe(p) \in AllPipes
  BY <1>3
<1>6. \A x \in Protocols, p \in Ports : DropPipe(x, p) \in AllPipes
  BY <1>4
<1>7. \A x \in Protocols, p \in Ports : ConnPipe(x, p) \in AllPipes
  BY <1>4
<1>8. \A x \in Protocols : DownstreamPipe(x) \in AllPipes
  BY <1>4
<1> QED
  BY <1>4, <1>5, <1>6, <1>7, <1>8

(* flowQoS_build_pipe's arguments, kind by kind.                            *)
LEMMA NamedPipe ==
  ASSUME NEW i
  PROVE  /\ i[1] = "hairpin_pipe" =>
              PipeOf(i) = [port_id |-> i[2], match |-> {}, matched |-> PORT, unmatched |-> DROP,
                           next |-> NULL, max_entry_amount |-> 2]
         /\ i[1] \in Protocols =>
              PipeOf(i) = [port_id |-> i[2], match |-> Source(i[1]), matched |-> DROP,
                           unmatched |-> PIPE, next |-> Hairpin(i[2]),
                           max_entry_amount |-> MaxEntries]
         /\ i[1] = "RSS-PIPE" =>
              PipeOf(i) = [port_id |-> i[2], match |-> {}, matched |-> RSS_TO_QUEUE,
                           unmatched |-> DROP, next |-> NULL, max_entry_amount |-> 2]
         /\ i[1] = "fwd" => PortOf(i) = i[2]
         /\ i[1] = "stream" => PortOf(i) = i[2]
<1>1. CASE i[1] = "hairpin_pipe"
  BY <1>1 DEF PipeOf, Protocols, FwdPipe, ProbePipe
<1>2. CASE i[1] \in Protocols
  BY <1>2 DEF PipeOf, Protocols, FwdPipe, ProbePipe
<1>3. CASE i[1] = "RSS-PIPE"
  BY <1>3 DEF PipeOf, Protocols, FwdPipe, ProbePipe
<1>4. CASE i[1] = "fwd"
  BY <1>4 DEF PipeOf, Protocols, FwdPipe, ProbePipe, PortOf
<1>5. CASE i[1] = "stream"
  BY <1>5 DEF PipeOf, Protocols, FwdPipe, ProbePipe, PortOf
<1> QED
  BY <1>1, <1>2, <1>3, <1>4, <1>5 DEF Protocols

LEMMA ConnForm ==
  ASSUME NEW x \in Protocols, NEW p
  PROVE  PipeOf(ConnPipe(x, p)) =
           [port_id |-> p, match |-> Tuple(x), matched |-> PORT, unmatched |-> PIPE,
            next |-> RssPipe(p), max_entry_amount |-> MaxEntries + 1]
<1> DEFINE i == ConnPipe(x, p)
           t == IF i \in {ConnPipe("TCP", i[2]), DownstreamPipe("TCP")} THEN "TCP" ELSE "UDP"
<1>1. i[1] \in {"UDP-PIPE", "TCP-PIPE"} /\ i[2] = p
  BY DEF ConnPipe
<1>2. t = x
  BY DEF ConnPipe, DownstreamPipe, Protocols
<1>3. PipeOf(i) = [port_id |-> i[2], match |-> Tuple(t), matched |-> PORT, unmatched |-> PIPE,
                   next |-> RssPipe(i[2]), max_entry_amount |-> MaxEntries + 1]
  <2> HIDE DEF i
  <2> QED
    BY <1>1 DEF PipeOf, Protocols, FwdPipe, ProbePipe
<1> QED
  BY <1>1, <1>2, <1>3

LEMMA DownstreamForm ==
  ASSUME NEW x \in Protocols
  PROVE  PipeOf(DownstreamPipe(x)) =
           [port_id |-> 0, match |-> Source(x), matched |-> PORT, unmatched |-> PIPE,
            next |-> RssPipe(0), max_entry_amount |-> 100]
<1> DEFINE i == DownstreamPipe(x)
           t == IF i \in {ConnPipe("TCP", i[2]), DownstreamPipe("TCP")} THEN "TCP" ELSE "UDP"
<1>1. i[1] \in {"LAN-TCP", "LAN-UDP"} /\ i[2] = 0
  BY DEF DownstreamPipe
<1>2. t = x
  BY DEF ConnPipe, DownstreamPipe, Protocols
<1>3. PipeOf(i) = [port_id |-> i[2], match |-> Source(t), matched |-> PORT, unmatched |-> PIPE,
                   next |-> RssPipe(0), max_entry_amount |-> 100]
  <2> HIDE DEF i
  <2> QED
    BY <1>1 DEF PipeOf, Protocols, FwdPipe, ProbePipe
<1> QED
  BY <1>1, <1>2, <1>3

LEMMA ProbeForms ==
  /\ PipeOf(FwdPipe) = [port_id |-> 1, match |-> {}, matched |-> PORT, unmatched |-> DROP,
                        next |-> NULL, max_entry_amount |-> 10000]
  /\ PipeOf(ProbePipe) = [port_id |-> 1, match |-> {"DIP", "UDP", "DPORT"},
                          matched |-> RSS_TO_QUEUE, unmatched |-> PIPE, next |-> FwdPipe,
                          max_entry_amount |-> 10000]
<1>1. FwdPipe[1] = "FWD-PIPE" /\ FwdPipe[2] = 1
      /\ ProbePipe[1] = "PROBE-PIPE" /\ ProbePipe[2] = 1 /\ ProbePipe # FwdPipe
  BY DEF FwdPipe, ProbePipe
<1> QED
  BY <1>1 DEF PipeOf, Protocols

LEMMA PipePorts ==
  /\ \A p : /\ PortOf(Hairpin(p)) = p /\ PortOf(RssPipe(p)) = p
            /\ PortOf(EcmpPipe(p)) = p /\ PortOf(SprayPipe(p)) = p
  /\ \A x \in Protocols, p \in Ports : PortOf(DropPipe(x, p)) = p /\ PortOf(ConnPipe(x, p)) = p
  /\ \A x \in Protocols : PortOf(DownstreamPipe(x)) = 0
  /\ PortOf(FwdPipe) = 1 /\ PortOf(ProbePipe) = 1
<1>1. \A p : /\ Hairpin(p)[1] = "hairpin_pipe" /\ Hairpin(p)[2] = p
             /\ RssPipe(p)[1] = "RSS-PIPE" /\ RssPipe(p)[2] = p
             /\ EcmpPipe(p)[1] = "fwd" /\ EcmpPipe(p)[2] = p
             /\ SprayPipe(p)[1] = "stream" /\ SprayPipe(p)[2] = p
  BY DEF Hairpin, RssPipe, EcmpPipe, SprayPipe
<1>2. \A p : /\ PortOf(Hairpin(p)) = p /\ PortOf(RssPipe(p)) = p
             /\ PortOf(EcmpPipe(p)) = p /\ PortOf(SprayPipe(p)) = p
  BY <1>1, NamedPipe DEF PortOf
<1>3. ASSUME NEW x \in Protocols, NEW p \in Ports PROVE PortOf(DropPipe(x, p)) = p
  <2>1. DropPipe(x, p)[1] = x /\ DropPipe(x, p)[2] = p
    BY DEF DropPipe
  <2> QED
    BY <2>1, NamedPipe DEF PortOf
<1>4. \A x \in Protocols, p \in Ports : PortOf(ConnPipe(x, p)) = p
  BY ConnForm DEF PortOf
<1>5. \A x \in Protocols : PortOf(DownstreamPipe(x)) = 0
  BY DownstreamForm DEF PortOf
<1>6. PortOf(FwdPipe) = 1 /\ PortOf(ProbePipe) = 1
  BY ProbeForms DEF PortOf
<1> QED
  BY <1>2, <1>3, <1>4, <1>5, <1>6

(* What a step is: its pipe is known, and no main installs an entry for a   *)
(* rule or a connection.                                                    *)
Known(x, F) ==
  /\ x.op \in {"build", "entry", "verify", "enable", "acquire"}
  /\ x.op \in {"build", "entry"} => x.pipe \in AllPipes /\ PortOf(x.pipe) \in Ports /\ x.fail \in F
  /\ x.op = "entry" => x.pipe \notin LaterIds /\ x.fail # "return"
  /\ x.op = "enable" => x.port \in Ports

(* A failure that returns from flowQoS_conntrack_init_port skips pipes of   *)
(* connections only, and a port is enabled after its pipes are built.       *)
Placed(s, k) ==
  /\ s[k].op = "build" /\ s[k].fail = "return" =>
       \E l \in k .. Len(s) : /\ s[l].op = "enable"
                              /\ \A j \in k .. l - 1 : s[j].op = "build" /\ s[j].fail = "return"
  /\ s[k].op = "enable" =>
       /\ k > 3
       /\ s[k - 3] = Entry(RssPipe(s[k].port), NULL, NULL, "ignore")
       /\ s[k - 2] = Build(ConnPipe("UDP", s[k].port), "return")
       /\ s[k - 1] = Build(ConnPipe("TCP", s[k].port), "return")

IsList(s) == \E S : s \in Seq(S)

StepList(s, F) ==
  /\ IsList(s)
  /\ \A k \in 1 .. Len(s) : Known(s[k], F) /\ Placed(s, k)

(* The steps of two lists, one after the other.                             *)
Follows(p, q, s) ==
  /\ IsList(s) /\ Len(p) \in Nat /\ Len(q) \in Nat /\ Len(s) = Len(p) + Len(q)
  /\ \A i \in 1 .. Len(p) : s[i] = p[i]
  /\ \A i \in 1 .. Len(q) : s[Len(p) + i] = q[i]

LEMMA Joined ==
  ASSUME NEW p, NEW q, IsList(p), IsList(q)
  PROVE  Follows(p, q, p \o q)
<1>1. PICK S : p \in Seq(S)
  BY DEF IsList
<1>2. PICK T : q \in Seq(T)
  BY DEF IsList
<1> DEFINE U == S \cup T
           a == Len(p)
           b == Len(q)
<1>3. p \in Seq(U) /\ q \in Seq(U)
  BY <1>1, <1>2, SeqMonotonic
<1>4. /\ p \o q \in Seq(U) /\ Len(p \o q) = a + b
      /\ \A i \in 1 .. a + b : (p \o q)[i] = IF i <= a THEN p[i] ELSE q[i - a]
  BY <1>3, ConcatProperties
<1>5. a \in Nat /\ b \in Nat
  BY <1>1, <1>2
<1>6. IsList(p \o q) /\ Len(p \o q) = Len(p) + Len(q)
  BY <1>4 DEF IsList
<1> DEFINE s == p \o q
<1> HIDE DEF s, a, b
<1>7. \A i \in 1 .. a : s[i] = p[i]
  BY <1>4, <1>5 DEF s
<1>8. \A i \in 1 .. b : s[a + i] = q[i]
  <2> SUFFICES ASSUME NEW i \in 1 .. b PROVE s[a + i] = q[i]
    OBVIOUS
  <2>1. a + i \in 1 .. a + b /\ ~(a + i <= a) /\ (a + i) - a = i
    BY <1>5
  <2> QED
    BY <1>4, <2>1 DEF s
<1>9. IsList(s) /\ Len(s) = Len(p) + Len(q)
  BY <1>6 DEF s
<1>10. Follows(p, q, s)
  BY <1>5, <1>7, <1>8, <1>9 DEF Follows, a, b
<1> QED
  BY <1>10 DEF s

LEMMA StepListCat ==
  ASSUME NEW F, NEW p, NEW q, StepList(p, F), StepList(q, F)
  PROVE  StepList(p \o q, F)
<1> DEFINE s == p \o q
           a == Len(p)
           b == Len(q)
<1>1. /\ IsList(s)
      /\ a \in Nat /\ b \in Nat /\ Len(s) = a + b
      /\ \A i \in 1 .. a : s[i] = p[i]
      /\ \A i \in 1 .. b : s[a + i] = q[i]
  <2>1. IsList(p) /\ IsList(q)
    BY DEF StepList
  <2>2. Follows(p, q, s)
    BY <2>1, Joined
  <2> HIDE DEF s
  <2> QED
    BY <2>2 DEF Follows
<1>2. /\ \A k \in 1 .. a : Known(p[k], F) /\ Placed(p, k)
      /\ \A k \in 1 .. b : Known(q[k], F) /\ Placed(q, k)
  BY DEF StepList
<1> HIDE DEF s
<1>3. ASSUME NEW k \in 1 .. a PROVE Known(s[k], F) /\ Placed(s, k)
  <2>1. s[k] = p[k] /\ Known(p[k], F) /\ Placed(p, k)
    BY <1>1, <1>2
  <2>2. ASSUME p[k].op = "build", p[k].fail = "return"
        PROVE  \E l \in k .. Len(s) : /\ s[l].op = "enable"
                                      /\ \A j \in k .. l - 1 : s[j].op = "build" /\ s[j].fail = "return"
    <3>1. PICK l \in k .. a : /\ p[l].op = "enable"
                              /\ \A j \in k .. l - 1 : p[j].op = "build" /\ p[j].fail = "return"
      BY <2>1, <2>2 DEF Placed
    <3> HIDE DEF a, b
    <3>2. l \in k .. Len(s) /\ l \in 1 .. a /\ \A j \in k .. l - 1 : j \in 1 .. a
      BY <1>1
    <3>3. s[l] = p[l] /\ \A j \in k .. l - 1 : s[j] = p[j]
      BY <1>1, <3>2
    <3> QED
      BY <3>1, <3>2, <3>3
  <2>3. ASSUME p[k].op = "enable"
        PROVE  /\ k > 3
               /\ s[k - 3] = Entry(RssPipe(p[k].port), NULL, NULL, "ignore")
               /\ s[k - 2] = Build(ConnPipe("UDP", p[k].port), "return")
               /\ s[k - 1] = Build(ConnPipe("TCP", p[k].port), "return")
    <3>1. /\ k > 3
          /\ p[k - 3] = Entry(RssPipe(p[k].port), NULL, NULL, "ignore")
          /\ p[k - 2] = Build(ConnPipe("UDP", p[k].port), "return")
          /\ p[k - 1] = Build(ConnPipe("TCP", p[k].port), "return")
      BY <2>1, <2>3 DEF Placed
    <3> HIDE DEF a, b
    <3>2. k - 3 \in 1 .. a /\ k - 2 \in 1 .. a /\ k - 1 \in 1 .. a
      BY <1>1, <3>1
    <3>3. s[k - 3] = p[k - 3] /\ s[k - 2] = p[k - 2] /\ s[k - 1] = p[k - 1]
      BY <1>1, <3>2
    <3> QED
      BY <3>1, <3>3
  <2> QED
    BY <2>1, <2>2, <2>3 DEF Placed
<1>4. ASSUME NEW k \in 1 .. b PROVE Known(s[a + k], F) /\ Placed(s, a + k)
  <2>1. s[a + k] = q[k] /\ Known(q[k], F) /\ Placed(q, k)
    BY <1>1, <1>2
  <2>2. ASSUME q[k].op = "build", q[k].fail = "return"
        PROVE  \E l \in a + k .. Len(s) :
                 /\ s[l].op = "enable"
                 /\ \A j \in a + k .. l - 1 : s[j].op = "build" /\ s[j].fail = "return"
    <3>1. PICK l \in k .. b : /\ q[l].op = "enable"
                              /\ \A j \in k .. l - 1 : q[j].op = "build" /\ q[j].fail = "return"
      BY <2>1, <2>2 DEF Placed
    <3> HIDE DEF a, b
    <3>2. a + l \in a + k .. Len(s) /\ l \in 1 .. b
      BY <1>1
    <3>3. s[a + l] = q[l]
      BY <1>1, <3>2
    <3>4. ASSUME NEW j \in a + k .. (a + l) - 1
          PROVE  s[j].op = "build" /\ s[j].fail = "return"
      <4> DEFINE i == j - a
      <4>1. i \in k .. l - 1 /\ i \in 1 .. b /\ a + i = j
        BY <1>1, <3>2
      <4> HIDE DEF i
      <4>2. s[a + i] = q[i]
        BY <1>1, <4>1
      <4> QED
        BY <3>1, <4>1, <4>2
    <3> QED
      BY <3>1, <3>2, <3>3, <3>4
  <2>3. ASSUME q[k].op = "enable"
        PROVE  /\ a + k > 3
               /\ s[(a + k) - 3] = Entry(RssPipe(q[k].port), NULL, NULL, "ignore")
               /\ s[(a + k) - 2] = Build(ConnPipe("UDP", q[k].port), "return")
               /\ s[(a + k) - 1] = Build(ConnPipe("TCP", q[k].port), "return")
    <3>1. /\ k > 3
          /\ q[k - 3] = Entry(RssPipe(q[k].port), NULL, NULL, "ignore")
          /\ q[k - 2] = Build(ConnPipe("UDP", q[k].port), "return")
          /\ q[k - 1] = Build(ConnPipe("TCP", q[k].port), "return")
      BY <2>1, <2>3 DEF Placed
    <3> HIDE DEF a, b
    <3>2. /\ k - 3 \in 1 .. b /\ k - 2 \in 1 .. b /\ k - 1 \in 1 .. b /\ a + k > 3
          /\ a + (k - 3) = (a + k) - 3 /\ a + (k - 2) = (a + k) - 2 /\ a + (k - 1) = (a + k) - 1
      BY <1>1, <3>1
    <3>3. s[a + (k - 3)] = q[k - 3] /\ s[a + (k - 2)] = q[k - 2] /\ s[a + (k - 1)] = q[k - 1]
      BY <1>1, <3>2
    <3> QED
      BY <3>1, <3>2, <3>3
  <2> QED
    BY <2>1, <2>2, <2>3 DEF Placed
<1>5. ASSUME NEW k \in 1 .. Len(s) PROVE Known(s[k], F) /\ Placed(s, k)
  <2> HIDE DEF a, b
  <2>1. CASE k <= a
    <3>1. k \in 1 .. a
      BY <2>1, <1>1
    <3> QED
      BY <1>3, <3>1
  <2>2. CASE k > a
    <3> DEFINE j == k - a
    <3>1. j \in 1 .. b /\ a + j = k
      BY <1>1, <2>2
    <3> HIDE DEF j
    <3>2. Known(s[a + j], F) /\ Placed(s, a + j)
      BY <1>4, <3>1
    <3> QED
      BY <3>1, <3>2
  <2> QED
    BY <1>1, <2>1, <2>2
<1>6. StepList(s, F)
  BY <1>1, <1>5 DEF StepList
<1> QED
  BY <1>6 DEF s

(* Steps that are harmless one by one.                                      *)
Harmless(x, F) == Known(x, F) /\ x.op # "enable" /\ (x.op = "build" => x.fail # "return")

LEMMA HarmlessSteps ==
  ASSUME NEW F
  PROVE  /\ Harmless(Acquire, F) /\ Harmless(Verify, F)
         /\ \A i \in AllPipes, f \in F :
              PortOf(i) \in Ports /\ f # "return" => Harmless(Build(i, f), F)
         /\ \A i \in AllPipes \ LaterIds, f \in F : \A e, a :
              PortOf(i) \in Ports /\ f # "return" => Harmless(Entry(i, e, a, f), F)
<1>1. Harmless(Acquire, F) /\ Harmless(Verify, F)
  BY DEF Harmless, Known, Acquire, Verify
<1>2. ASSUME NEW i \in AllPipes, NEW f \in F, PortOf(i) \in Ports, f # "return"
      PROVE  Harmless(Build(i, f), F)
  <2>1. Build(i, f).op = "build" /\ Build(i, f).pipe = i /\ Build(i, f).fail = f
    BY DEF Build
  <2> QED
    BY <1>2, <2>1 DEF Harmless, Known
<1>3. ASSUME NEW i \in AllPipes \ LaterIds, NEW e, NEW a, NEW f \in F, PortOf(i) \in Ports, f # "return"
      PROVE  Harmless(Entry(i, e, a, f), F)
  <2>1. Entry(i, e, a, f).op = "entry" /\ Entry(i, e, a, f).pipe = i /\ Entry(i, e, a, f).fail = f
    BY DEF Entry
  <2> QED
    BY <1>3, <2>1 DEF Harmless, Known
<1> QED
  BY <1>1, <1>2, <1>3

LEMMA HarmlessList ==
  ASSUME NEW F, NEW S, NEW s \in Seq(S), \A k \in 1 .. Len(s) : Harmless(s[k], F)
  PROVE  StepList(s, F)
  BY DEF StepList, IsList, Harmless, Placed

LEMMA OneStep ==
  ASSUME NEW F, NEW a, Harmless(a, F)
  PROVE  StepList(<<a>>, F)
<1>1. <<a>> \in Seq({a}) /\ \A k \in 1 .. Len(<<a>>) : Harmless(<<a>>[k], F)
  OBVIOUS
<1> QED
  BY <1>1, HarmlessList

LEMMA TwoSteps ==
  ASSUME NEW F, NEW a, NEW b, Harmless(a, F), Harmless(b, F)
  PROVE  StepList(<<a, b>>, F)
<1>1. <<a, b>> \in Seq({a, b}) /\ \A k \in 1 .. Len(<<a, b>>) : Harmless(<<a, b>>[k], F)
  OBVIOUS
<1> QED
  BY <1>1, HarmlessList

LEMMA FourSteps ==
  ASSUME NEW F, NEW a, NEW b, NEW c, NEW d,
         Harmless(a, F), Harmless(b, F), Harmless(c, F), Harmless(d, F)
  PROVE  StepList(<<a, b, c, d>>, F)
<1>1. /\ <<a, b, c, d>> \in Seq({a, b, c, d})
      /\ \A k \in 1 .. Len(<<a, b, c, d>>) : Harmless(<<a, b, c, d>>[k], F)
  OBVIOUS
<1> QED
  BY <1>1, HarmlessList

LEMMA FiveSteps ==
  ASSUME NEW F, NEW a, NEW b, NEW c, NEW d, NEW e,
         Harmless(a, F), Harmless(b, F), Harmless(c, F), Harmless(d, F), Harmless(e, F)
  PROVE  StepList(<<a, b, c, d, e>>, F)
<1>1. /\ <<a, b, c, d, e>> \in Seq({a, b, c, d, e})
      /\ \A k \in 1 .. Len(<<a, b, c, d, e>>) : Harmless(<<a, b, c, d, e>>[k], F)
  OBVIOUS
<1> QED
  BY <1>1, HarmlessList

LEMMA OtherPipes ==
  /\ \A p : RssPipe(p) \notin LaterIds /\ EcmpPipe(p) \notin LaterIds /\ SprayPipe(p) \notin LaterIds
            /\ Hairpin(p) \notin LaterIds
  /\ \A x : DownstreamPipe(x) \notin LaterIds
  /\ FwdPipe \notin LaterIds /\ ProbePipe \notin LaterIds
  BY DEF LaterIds, DropIds, ConnPipe, DropPipe, Protocols, RssPipe, EcmpPipe, SprayPipe, DownstreamPipe,
     FwdPipe, ProbePipe, Hairpin

(* The eight steps of the firewall's main.                                  *)
LEMMA FirewallSteps ==
  /\ Len(FirewallMain) = 8 /\ \E S : FirewallMain \in Seq(S)
  /\ FirewallMain[1] = Build(Hairpin(0), "exit")
  /\ FirewallMain[2] = Build(DropPipe("TCP", 0), "exit")
  /\ FirewallMain[3] = Build(DropPipe("UDP", 0), "exit")
  /\ FirewallMain[4] = Entry(Hairpin(0), NULL, NULL, "ignore")
  /\ FirewallMain[5] = Build(Hairpin(1), "exit")
  /\ FirewallMain[6] = Build(DropPipe("TCP", 1), "exit")
  /\ FirewallMain[7] = Build(DropPipe("UDP", 1), "exit")
  /\ FirewallMain[8] = Entry(Hairpin(1), NULL, NULL, "ignore")
<1> DEFINE P(p) == <<Build(Hairpin(p), "exit"), Build(DropPipe("TCP", p), "exit"),
                     Build(DropPipe("UDP", p), "exit"), Entry(Hairpin(p), NULL, NULL, "ignore")>>
           S == {P(p)[k] : p \in {0, 1}, k \in 1 .. 4}
<1>1. FirewallMain = P(0) \o P(1)
  BY DEF FirewallMain
<1>2. P(0) \in Seq(S) /\ P(1) \in Seq(S) /\ Len(P(0)) = 4 /\ Len(P(1)) = 4
  OBVIOUS
<1> HIDE DEF S
<1>3. /\ P(0) \o P(1) \in Seq(S) /\ Len(P(0) \o P(1)) = 8
      /\ \A i \in 1 .. 8 : (P(0) \o P(1))[i] = IF i <= 4 THEN P(0)[i] ELSE P(1)[i - 4]
  BY <1>2, ConcatProperties
<1> QED
  BY <1>1, <1>3

LEMMA PortSteps ==
  ASSUME NEW F, "ignore" \in F, "return" \in F, NEW p \in Ports
  PROVE  StepList(ConntrackInitPort(p), F)
<1> DEFINE s == ConntrackInitPort(p)
<1>1. /\ s \in Seq({s[k] : k \in 1 .. 5}) /\ Len(s) = 5
      /\ s[1] = Build(RssPipe(p), "ignore") /\ s[2] = Entry(RssPipe(p), NULL, NULL, "ignore")
      /\ s[3] = Build(ConnPipe("UDP", p), "return") /\ s[4] = Build(ConnPipe("TCP", p), "return")
      /\ s[5] = Enable(p)
  BY DEF ConntrackInitPort
<1> HIDE DEF s
<1>2. /\ s[1].op = "build" /\ s[1].pipe = RssPipe(p) /\ s[1].fail = "ignore"
      /\ s[2].op = "entry" /\ s[2].pipe = RssPipe(p) /\ s[2].fail = "ignore"
      /\ s[3].op = "build" /\ s[3].pipe = ConnPipe("UDP", p) /\ s[3].fail = "return"
      /\ s[4].op = "build" /\ s[4].pipe = ConnPipe("TCP", p) /\ s[4].fail = "return"
      /\ s[5].op = "enable" /\ s[5].port = p
  BY <1>1 DEF Build, Entry, Enable
<1>3. /\ RssPipe(p) \in AllPipes \ LaterIds /\ PortOf(RssPipe(p)) = p
      /\ ConnPipe("UDP", p) \in AllPipes /\ PortOf(ConnPipe("UDP", p)) = p
      /\ ConnPipe("TCP", p) \in AllPipes /\ PortOf(ConnPipe("TCP", p)) = p
  BY PipesKnown, PipePorts, OtherPipes DEF Protocols
<1>4. \A k \in 1 .. 5 : Known(s[k], F)
  <2>1. Known(s[1], F) /\ Known(s[2], F)
    BY <1>2, <1>3 DEF Known
  <2>2. Known(s[3], F) /\ Known(s[4], F) /\ Known(s[5], F)
    BY <1>2, <1>3 DEF Known
  <2> QED
    BY <2>1, <2>2
<1>5. ASSUME NEW k \in 1 .. 5 PROVE Placed(s, k)
  <2>1. CASE k \in {1, 2}
    BY <1>2, <2>1 DEF Placed
  <2>2. CASE k \in {3, 4}
    <3>1. /\ 5 \in k .. 5 /\ s[5].op = "enable"
          /\ \A j \in k .. 5 - 1 : s[j].op = "build" /\ s[j].fail = "return"
      BY <1>2, <2>2
    <3>2. s[k].op # "enable"
      BY <1>2, <2>2
    <3> QED
      BY <1>1, <3>1, <3>2 DEF Placed
  <2>3. CASE k = 5
    BY <1>1, <1>2, <2>3 DEF Placed
  <2> QED
    BY <2>1, <2>2, <2>3
<1>6. StepList(s, F)
  BY <1>1, <1>4, <1>5 DEF StepList, IsList
<1> QED
  BY <1>6 DEF s

(* How the code answers a failure; only LB_init tests results later.        *)
Answers == {"exit", "ignore", "return"}

LEMMA AllSteps ==
  ASSUME app \in Apps, NEW F, Answers \subseteq F, app = "lb" => "note" \in F
  PROVE  StepList(Steps, F)
<1>0. /\ "exit" \in F /\ "ignore" \in F /\ "return" \in F /\ 0 \in Ports /\ 1 \in Ports
      /\ "TCP" \in Protocols /\ "UDP" \in Protocols
  BY DEF Answers, Protocols, Ports
<1>1. StepList(<<Acquire>>, F)
  BY OneStep, HarmlessSteps
<1>2. StepList(FirewallMain, F)
  <2>1. ASSUME NEW p \in Ports
        PROVE  /\ Harmless(Build(Hairpin(p), "exit"), F)
               /\ Harmless(Build(DropPipe("TCP", p), "exit"), F)
               /\ Harmless(Build(DropPipe("UDP", p), "exit"), F)
               /\ Harmless(Entry(Hairpin(p), NULL, NULL, "ignore"), F)
    <3>1. /\ Hairpin(p) \in AllPipes \ LaterIds /\ PortOf(Hairpin(p)) \in Ports
          /\ DropPipe("TCP", p) \in AllPipes /\ PortOf(DropPipe("TCP", p)) \in Ports
          /\ DropPipe("UDP", p) \in AllPipes /\ PortOf(DropPipe("UDP", p)) \in Ports
      BY <1>0, PipesKnown, PipePorts, OtherPipes
    <3> QED
      BY <1>0, <3>1, HarmlessSteps
  <2> DEFINE P(p) == <<Build(Hairpin(p), "exit"), Build(DropPipe("TCP", p), "exit"),
                       Build(DropPipe("UDP", p), "exit"), Entry(Hairpin(p), NULL, NULL, "ignore")>>
  <2>2. \A p \in Ports : StepList(P(p), F)
    BY <2>1, FourSteps
  <2>3. FirewallMain = P(0) \o P(1)
    BY DEF FirewallMain
  <2> HIDE DEF P
  <2> QED
    BY <1>0, <2>2, <2>3, StepListCat
<1>3. ASSUME "note" \in F PROVE StepList(LB_init, F)
  <2>1. /\ RssPipe(0) \in AllPipes \ LaterIds /\ PortOf(RssPipe(0)) \in Ports
        /\ \A x \in Protocols : DownstreamPipe(x) \in AllPipes \ LaterIds
                                /\ PortOf(DownstreamPipe(x)) \in Ports
    BY <1>0, PipesKnown, PipePorts, OtherPipes
  <2>2. StepList(<<Build(RssPipe(0), "note"), Entry(RssPipe(0), NULL, NULL, "note"),
                   Build(DownstreamPipe("TCP"), "note"), Build(DownstreamPipe("UDP"), "note"),
                   Verify>>, F)
    <3>1. /\ Harmless(Build(RssPipe(0), "note"), F)
          /\ Harmless(Entry(RssPipe(0), NULL, NULL, "note"), F)
          /\ Harmless(Build(DownstreamPipe("TCP"), "note"), F)
          /\ Harmless(Build(DownstreamPipe("UDP"), "note"), F) /\ Harmless(Verify, F)
      BY <1>0, <1>3, <2>1, HarmlessSteps
    <3> QED
      BY <3>1, FiveSteps
  <2> DEFINE Server(s, r) == Entry(DownstreamPipe(s.proto), [src_ip |-> r, src_port |-> s.rport],
                                   [src_ip |-> s.dip, src_port |-> s.dport], "exit")
             Service(s) == <<Server(s, RealServers[1]), Server(s, RealServers[2])>>
  <2>3. ASSUME NEW t, t.proto \in Protocols PROVE StepList(Service(t), F)
    <3>1. \A r : Harmless(Server(t, r), F)
      BY <1>0, <2>1, <2>3, HarmlessSteps
    <3> HIDE DEF Server
    <3> QED
      BY <3>1, TwoSteps
  <2>4. Services[1].proto \in Protocols /\ Services[2].proto \in Protocols
        /\ Services[3].proto \in Protocols
    BY DEF Services, Protocols
  <2> HIDE DEF Service
  <2>5. StepList(<<Acquire>> \o Service(Services[1]) \o Service(Services[2]) \o Service(Services[3]), F)
    BY <1>1, <2>3, <2>4, StepListCat
  <2>6. StepList(LB_load_params, F)
    BY <2>5 DEF LB_load_params, Service
  <2>7. StepList(ConntrackInitPort(1), F)
    BY <1>0, PortSteps
  <2> QED
    BY <1>1, <2>2, <2>6, <2>7, StepListCat DEF LB_init, ConntrackInitEnv
<1>4. StepList(InitSnat, F)
  <2>1. StepList(ConntrackInitPort(0), F) /\ StepList(ConntrackInitPort(1), F)
    BY <1>0, PortSteps
  <2> QED
    BY <1>1, <2>1, StepListCat DEF InitSnat, ConntrackInitEnv
<1>5. StepList(AdaptiveMain, F)
  <2>1. StepList(<<Build(FwdPipe, "exit"), Entry(FwdPipe, NULL, NULL, "exit"),
                   Build(ProbePipe, "exit"),
                   Entry(ProbePipe, [dst_ip |-> "host", dst_port |-> 4788], NULL, "exit"),
                   Acquire>>, F)
    <3>1. /\ FwdPipe \in AllPipes \ LaterIds /\ PortOf(FwdPipe) \in Ports
          /\ ProbePipe \in AllPipes \ LaterIds /\ PortOf(ProbePipe) \in Ports
      BY <1>0, PipesKnown, PipePorts, OtherPipes
    <3>2. /\ Harmless(Build(FwdPipe, "exit"), F) /\ Harmless(Entry(FwdPipe, NULL, NULL, "exit"), F)
          /\ Harmless(Build(ProbePipe, "exit"), F)
          /\ Harmless(Entry(ProbePipe, [dst_ip |-> "host", dst_port |-> 4788], NULL, "exit"), F)
          /\ Harmless(Acquire, F)
      BY <1>0, <3>1, HarmlessSteps
    <3> QED
      BY <3>2, FiveSteps
  <2>2. StepList(ConntrackInitPort(0), F)
    BY <1>0, PortSteps
  <2> QED
    BY <1>1, <2>1, <2>2, StepListCat DEF AdaptiveMain, ConntrackInitEnv
<1>6. StepList(EcmpMain, F)
  <2>1. ASSUME NEW p \in Ports
        PROVE  Harmless(Build(EcmpPipe(p), "exit"), F)
               /\ Harmless(Entry(EcmpPipe(p), NULL, NULL, "ignore"), F)
    <3>1. EcmpPipe(p) \in AllPipes \ LaterIds /\ PortOf(EcmpPipe(p)) \in Ports
      BY PipesKnown, PipePorts, OtherPipes
    <3> QED
      BY <1>0, <3>1, HarmlessSteps
  <2> QED
    BY <1>0, <2>1, FourSteps DEF EcmpMain
<1>7. StepList(SprayMain, F)
  <2> DEFINE M(p) == [dst_ip |-> IF p = 1 THEN "dst" ELSE "src"]
             P(p) == <<Build(SprayPipe(p), "ignore"), Entry(SprayPipe(p), M(p), NULL, "ignore")>>
  <2>1. ASSUME NEW p \in Ports PROVE StepList(P(p), F)
    <3>1. SprayPipe(p) \in AllPipes \ LaterIds /\ PortOf(SprayPipe(p)) \in Ports
      BY PipesKnown, PipePorts, OtherPipes
    <3> HIDE DEF M
    <3>2. /\ Harmless(Build(SprayPipe(p), "ignore"), F)
          /\ Harmless(Entry(SprayPipe(p), M(p), NULL, "ignore"), F)
      BY <1>0, <3>1, HarmlessSteps
    <3> QED
      BY <3>2, TwoSteps
  <2>2. SprayMain = P(0) \o P(1)
    BY DEF SprayMain
  <2> HIDE DEF P
  <2> QED
    BY <1>0, <2>1, <2>2, StepListCat
<1>8. app \in Programs
  BY StartupAssumption
<1> QED
  BY <1>2, <1>3, <1>4, <1>5, <1>6, <1>7, <1>8 DEF Steps, Programs

-----------------------------------------------------------------------------
(* Start and end.                                                           *)

Dpdk == {"devices", "port0", "port1", "bind0", "bind1", "doca", "start0", "start1", "message"}
AllBound == {"bind1", "doca", "start0", "start1", "message"}
Serving == {"main", "running", "exit", "crashed"}

(* How far the program has come, and what it has acquired by then.          *)
Acquired ==
  /\ pc \in {"argp", "eal"} \cup (Dpdk \ AllBound) => bound = {}
  /\ pc = "bind1" => bound = Hairpins(0)
  /\ bound \subseteq Hairpins(0)
  /\ pc \in {"argp", "eal"} => eal = "none"
  /\ pc \in Dpdk => eal = "up" /\ argp = "up"
  /\ pc = "eal" => argp = "up"
  /\ pc \in {"argp", "eal", "devices", "port0"} => \A p \in Ports : eth[p] # "started"
  /\ pc = "port1" => eth[0] = "started" /\ eth[1] # "started"
  /\ pc \in {"bind0"} \cup AllBound => \A p \in Ports : eth[p] = "started"
  /\ pc \in {"start0", "start1", "message"} => doca = "up"
  /\ pc = "start1" => ports[0] = "up"
  /\ pc = "message" => \A p \in Ports : ports[p] = "up"

(* A successful flowQoS_env_init has acquired everything, and nothing is    *)
(* released before flowQoS_env_destroy.                                     *)
Complete ==
  /\ pc \notin Serving \cup {"ended"} => misuse = {} /\ ~init_ok
  /\ init_ok /\ pc \in Serving =>
       /\ argp = "up" /\ eal = "up" /\ doca = "up" /\ misuse = {}
       /\ \A p \in Ports : eth[p] = "started" /\ ports[p] = "up"

EnvInv == PortsOrderly /\ CleanExit /\ Acquired /\ Complete

USE DEF Ports, Lifecycle, Dpdk, AllBound, Serving, Hairpins

LEMMA EnvInitInv == Init => EnvInv
  BY DEF Init, EnvInit, EnvInv, PortsOrderly, EnvTypeOK, CleanExit, Acquired, Complete

(* The first steps of flowQoS_env_init.                                     *)
LEMMA DevicesStep ==
  ASSUME EnvInv, ArgpInit \/ ArgpStart \/ CheckDevices
  PROVE  EnvInv'
<1>1. CASE ArgpInit
  BY <1>1 DEF ArgpInit, EnvInv, PortsOrderly, EnvTypeOK, CleanExit, Acquired, Complete
<1>2. CASE ArgpStart
  BY <1>2 DEF ArgpStart, EnvInv, PortsOrderly, EnvTypeOK, CleanExit, Acquired, Complete
<1>3. CASE CheckDevices
  BY <1>3 DEF CheckDevices, AllocateMempool, DpdkFailed,
     EnvInv, PortsOrderly, EnvTypeOK, CleanExit, Acquired, Complete
<1> QED
  BY <1>1, <1>2, <1>3

(* dpdk_ports_init: a port that fails takes the ports before it with it.    *)
LEMMA PortStepInv ==
  ASSUME EnvInv, NEW p \in Ports, PortInit(p)
  PROVE  EnvInv'
<1>1. CASE p = 0
  BY <1>1 DEF PortInit, PortStep, Rollback, ClosePorts, SetupHairpinQueues, DpdkFailed,
     EnvInv, PortsOrderly, EnvTypeOK, CleanExit, Acquired, Complete
<1>2. CASE p = 1
  <2>1. /\ pc = "port1" /\ pc' \in {"bind0", "main"}
        /\ UNCHANGED <<init_ok, doca, mempool, bound, ports, cut, misuse>>
        /\ \/ pc' = "bind0" /\ UNCHANGED <<eal, argp>>
           \/ pc' = "main" /\ eal' = "down" /\ argp' = "down"
    BY <1>2 DEF PortInit, PortStep, DpdkFailed
  <2>2. eth' \in [Ports -> {"none", "probed", "configured", "started", "closed"}]
    BY <1>2 DEF PortInit, PortStep, Rollback, ClosePorts, SetupHairpinQueues,
       EnvInv, PortsOrderly, EnvTypeOK
  <2>3. pc' = "bind0" => \A q \in Ports : eth'[q] = "started"
    <3>1. eth \in [Ports -> {"none", "probed", "configured", "started", "closed"}]
          /\ eth[0] = "started"
      BY <2>1 DEF EnvInv, PortsOrderly, EnvTypeOK, Acquired
    <3> QED
      BY <1>2, <3>1 DEF PortInit, DpdkFailed
  <2>4. pc' = "main" => \A q \in Ports : eth'[q] # "started"
    <3>1. ClosePorts(1) \in [Ports -> {"none", "probed", "configured", "started", "closed"}]
          /\ ClosePorts(1)[0] # "started"
      BY DEF ClosePorts, EnvInv, PortsOrderly, EnvTypeOK
    <3>2. pc' = "main" => \E s \in {"probed", "configured"} :
                            eth' = [ClosePorts(1) EXCEPT ![1] = s]
      BY <1>2 DEF PortInit, Rollback, SetupHairpinQueues
    <3> QED
      BY <3>1, <3>2
  <2> QED
    BY <2>1, <2>2, <2>3, <2>4
    DEF EnvInv, PortsOrderly, EnvTypeOK, CleanExit, Acquired, Complete
<1> QED
  BY <1>1, <1>2

(* enable_hairpin_queues succeeds for port p.                               *)
LEMMA BindStepInv ==
  ASSUME EnvInv, NEW p \in Ports, BindHairpin(p)
  PROVE  EnvInv'
  BY DEF BindHairpin, BindStep,
     EnvInv, PortsOrderly, EnvTypeOK, CleanExit, Acquired, Complete

(* A binding fails: the ports before p are unbound and all ports closed.    *)
LEMMA BindFailsInv ==
  ASSUME EnvInv, NEW p \in Ports, BindFails(p)
  PROVE  EnvInv'
<1>1. /\ pc \in {"bind0", "bind1"} /\ pc' = "main" /\ eal' = "down" /\ argp' = "down"
      /\ UNCHANGED <<init_ok, doca, mempool, ports, misuse>>
      /\ cut' = (bound' # {})
  BY DEF BindFails, BindStep, DpdkFailed
<1>2. eth' \in [Ports -> {"none", "probed", "configured", "closed"}]
  BY DEF BindFails, ClosePorts, EnvInv, PortsOrderly, EnvTypeOK
<1>3. bound' \subseteq Hairpins(0)
  BY DEF BindFails, Unbind, EnvInv, Acquired
<1>4. cut' \in BOOLEAN /\ (~cut' => bound' = {})
  BY <1>1
<1>5. PortsOrderly'
  BY <1>1, <1>2, <1>3, <1>4 DEF EnvInv, PortsOrderly, EnvTypeOK
<1>6. CleanExit' /\ Acquired' /\ Complete'
  BY <1>1, <1>3 DEF EnvInv, CleanExit, Acquired, Complete
<1> QED
  BY <1>5, <1>6 DEF EnvInv

(* init_doca_flow, init_doca_flow_ports and flowQoS_message_init.           *)
LEMMA DocaStep ==
  ASSUME EnvInv, InitDocaFlow \/ MessageInit \/ \E p \in Ports : StartDocaPort(p)
  PROVE  EnvInv'
<1>1. CASE InitDocaFlow
  BY <1>1 DEF InitDocaFlow, EnvInv, PortsOrderly, EnvTypeOK, CleanExit, Acquired, Complete
<1>2. CASE MessageInit
  BY <1>2 DEF MessageInit, EnvInv, PortsOrderly, EnvTypeOK, CleanExit, Acquired, Complete
<1>3. ASSUME NEW p \in Ports, StartDocaPort(p) PROVE EnvInv'
  <2>1. /\ pc \in {"start0", "start1"} /\ pc' \in {"start1", "message", "main"}
        /\ UNCHANGED <<init_ok, argp, eal, mempool, eth, bound, cut, misuse>>
        /\ doca' \in {doca, "down"} /\ (pc' # "main" => UNCHANGED doca)
    BY <1>3 DEF StartDocaPort
  <2>2. ports' \in [Ports -> Lifecycle]
    <3>1. CreateDocaFlowPort(p) \in [Ports -> Lifecycle] /\ Destroyed \in [Ports -> Lifecycle]
      BY DEF CreateDocaFlowPort, Destroyed, EnvInv, PortsOrderly, EnvTypeOK
    <3>2. \/ ports' = CreateDocaFlowPort(p)
          \/ \E t \in {"none", "down"} : ports' = [Destroyed EXCEPT ![p] = t]
      BY <1>3 DEF StartDocaPort
    <3> QED
      BY <3>1, <3>2
  <2>3. /\ pc' = "start1" => ports'[0] = "up"
        /\ pc' = "message" => \A q \in Ports : ports'[q] = "up"
    BY <1>3 DEF StartDocaPort, CreateDocaFlowPort, EnvInv, PortsOrderly, EnvTypeOK, Acquired
  <2>4. PortsOrderly'
    BY <2>1, <2>2 DEF EnvInv, PortsOrderly, EnvTypeOK
  <2>5. CleanExit' /\ Acquired' /\ Complete'
    BY <2>1, <2>3 DEF EnvInv, CleanExit, Acquired, Complete
  <2> QED
    BY <2>4, <2>5 DEF EnvInv
<1> QED
  BY <1>1, <1>2, <1>3

(* flowQoS_env_destroy, after whatever start-up.                            *)
LEMMA DestroyInv ==
  ASSUME EnvInv, EnvDestroy
  PROVE  EnvInv'
  BY DEF EnvDestroy, DpdkQueuesAndPortsFini, Unbind, ClosePorts, Destroyed, Misused,
     EnvInv, PortsOrderly, EnvTypeOK, CleanExit, Acquired, Complete

(* Between the two a main only moves on, and counts the use of a port that  *)
(* was destroyed.                                                           *)
LEMMA MainStepInv ==
  ASSUME EnvInv, MainNext
  PROVE  EnvInv'
<1>1. /\ UNCHANGED envBut
      /\ pc \in {"main", "running"} /\ pc' \in Serving
      /\ \/ UNCHANGED misuse
         \/ \E port : BuildPipeFails(port)
  BY DEF MainNext, MainBuild, MainEntry, MainCrash, MainVerify, MainAcquire, MainEnable,
     MainLaunch, Quit, Doing, Failed, Succeeded, envVars, envBut, EnvInv
<1>2. /\ misuse' \subseteq misuse \cup {"pipe"}
      /\ (\A p \in Ports : ports[p] = "up") => misuse' = misuse
  BY <1>1 DEF BuildPipeFails
<1> QED
  BY <1>1, <1>2 DEF envBut, EnvInv, PortsOrderly, EnvTypeOK, CleanExit, Acquired, Complete

(* The commands of the firewall leave the environment alone.                *)
LEMMA UnchangedInv ==
  ASSUME EnvInv, UNCHANGED envVars
  PROVE  EnvInv'
  BY DEF envVars, EnvInv, PortsOrderly, EnvTypeOK, CleanExit, Acquired, Complete

(* Every step of every program preserves the invariant.                     *)
LEMMA EnvStepInv == EnvInv /\ [Next]_vars => EnvInv'
<1> SUFFICES ASSUME EnvInv, [Next]_vars PROVE EnvInv'
  OBVIOUS
<1>1. CASE EnvNext
  BY <1>1, DevicesStep, PortStepInv, BindStepInv, BindFailsInv, DocaStep, DestroyInv
  DEF EnvNext
<1>2. CASE MainNext
  BY <1>2, MainStepInv
<1>3. CASE UNCHANGED envVars
  BY <1>3, UnchangedInv
<1> QED
  BY <1>1, <1>2, <1>3 DEF Next, vars, AddRule, DelRule

(* dpdk_queues_and_ports_init, flowQoS_env_init and flowQoS_env_destroy:    *)
(* at every moment, whatever failed, no port runs once the EAL is down, and *)
(* hairpins are bound between running ports only, but for the binding that  *)
(* failed half way.                                                         *)
THEOREM OrderlyPorts == Spec => []PortsOrderly
<1>1. EnvInv => PortsOrderly
  BY DEF EnvInv
<1> QED
  BY <1>1, EnvInitInv, EnvStepInv, PTL DEF Spec

(* After a flowQoS_env_init that succeeded, flowQoS_env_destroy releases    *)
(* everything exactly once, whichever pipes and entries failed in main.     *)
THEOREM CleanEnd == Spec => []CleanExit
<1>1. EnvInv => CleanExit
  BY DEF EnvInv
<1> QED
  BY <1>1, EnvInitInv, EnvStepInv, PTL DEF Spec
-----------------------------------------------------------------------------
(* The rules of the firewall.                                               *)

Starting == {"argp", "eal"} \cup Dpdk
Rule == [direction : Directions, proto : Protocols, match : Match, entry : Handles]

(* The entry flowQoS_add_entry installs in a pipe that has no action.       *)
Plain(i, e) == [pipe |-> i, match |-> e, action |-> NULL]

Shape ==
  /\ app \in Apps /\ at \in Nat \ {0} /\ late \in BOOLEAN /\ open \in BOOLEAN
  /\ bucket \in Seq(Rule)
  /\ pipes = [i \in PipeIds |-> pipes[i]]
  /\ hw = [h \in Handles |-> hw[h]]
  /\ pending = [p \in Ports |-> pending[p]]

(* Before the worker is launched there is no rule and no drop entry, and a  *)
(* program other than the firewall never has one.                           *)
NoRules ==
  /\ pc \in Starting => at = 1
  /\ (app # "firewall" \/ pc \in Starting \cup {"main"}) =>
       bucket = <<>> /\ ~late /\ DropEntries = {}

(* What main has built, as long as it goes on: the pipes of the steps it    *)
(* has taken, and the hairpin entries if their results came in time.        *)
Built ==
  app = "firewall" /\ pc \in {"main", "running"} =>
    /\ pc = "running" => at > 8
    /\ \A k \in 1 .. 8 : k < at =>
         LET s == FirewallMain[k]
         IN /\ s.op = "build" => pipes[s.pipe] = PipeOf(s.pipe)
            /\ s.op = "entry" /\ open => \E h \in Handles : hw[h] = Plain(s.pipe, NULL)

(* No completion is outstanding unless one was late.                        *)
Punctual == app = "firewall" /\ ~late /\ open => \A p \in Ports : pending[p] = <<>>

FwInv == Shape /\ NoRules /\ RulesBacked /\ Built /\ Punctual

(* The same in terms of a list of rules and a table of entries.             *)
Dropping(w) == {h \in Handles : w[h] # NULL /\ w[h].pipe \in DropIds}
Entries(b) == {b[n].entry : n \in DOMAIN b}
RuleEntry(r) == Plain(DropPipe(r.proto, RulePort(r.direction)), r.match)
Backs(b, w) ==
  \A n \in DOMAIN b :
    /\ w[b[n].entry] = RuleEntry(b[n])
    /\ \A k \in DOMAIN b : b[k].entry = b[n].entry => k = n

LEMMA Backing ==
  /\ DropEntries = Dropping(hw)
  /\ RulesBacked <=> Backs(bucket, hw) /\ (~late => Dropping(hw) = Entries(bucket))
<1>1. DropEntries = Dropping(hw)
  <2> DEFINE E(x, p) == EntriesOf(DropPipe(x, p))
  <2>1. \A h : h \in DropEntries <=> \E x \in Protocols, p \in Ports : h \in E(x, p)
    <3> HIDE DEF E
    <3>1. DropEntries = UNION {E(x, p) : x \in Protocols, p \in Ports}
      BY DEF DropEntries, E
    <3> QED
      BY <3>1
  <2>2. \A x \in Protocols, p \in Ports :
          E(x, p) = {h \in Handles : hw[h] # NULL /\ hw[h].pipe = DropPipe(x, p)}
    BY DEF EntriesOf
  <2> HIDE DEF E
  <2> QED
    BY <2>1, <2>2 DEF Dropping, DropIds
<1> QED
  BY <1>1 DEF RulesBacked, Backs, RuleEntries, Entries, RuleEntry, Plain

LEMMA BackingNext ==
  /\ DropEntries' = Dropping(hw')
  /\ RulesBacked' <=> Backs(bucket', hw') /\ (~late' => Dropping(hw') = Entries(bucket'))
<1>1. DropEntries' = Dropping(hw')
  <2> DEFINE E(x, p) == EntriesOf(DropPipe(x, p))'
  <2>1. \A h : h \in DropEntries' <=> \E x \in Protocols, p \in Ports : h \in E(x, p)
    <3> HIDE DEF E
    <3>1. DropEntries' = UNION {E(x, p) : x \in Protocols, p \in Ports}
      BY DEF DropEntries, E
    <3> QED
      BY <3>1
  <2>2. \A x \in Protocols, p \in Ports :
          E(x, p) = {h \in Handles : hw'[h] # NULL /\ hw'[h].pipe = DropPipe(x, p)}
    BY DEF EntriesOf
  <2> HIDE DEF E
  <2> QED
    BY <2>1, <2>2 DEF Dropping, DropIds
<1> QED
  BY <1>1 DEF RulesBacked, Backs, RuleEntries, Entries, RuleEntry, Plain

(* The pipe of a direction and a protocol, and what the firewall's entries  *)
(* are: no entry is NULL.                                                   *)
LEMMA DropPipes ==
  /\ \A x \in Protocols, p \in Ports : DropPipe(x, p) \in DropIds /\ DropPipe(x, p) \in PipeIds
  /\ \A p \in Ports : Hairpin(p) \in PipeIds /\ Hairpin(p) \notin DropIds
  /\ \A d \in Directions : RulePort(d) \in Ports
  /\ \A i \in PipeIds, e \in Match \cup {NULL} : Plain(i, e) # NULL
<1>1. \A x \in Protocols, p \in Ports : DropPipe(x, p) \in DropIds /\ DropPipe(x, p) \in PipeIds
  BY PipesKnown, MainsAssumption DEF DropIds
<1>2. \A p \in Ports : Hairpin(p) \in PipeIds /\ Hairpin(p) \notin DropIds
  BY PipesKnown, MainsAssumption, OtherPipes DEF LaterIds
<1>3. \A d \in Directions : RulePort(d) \in Ports
  BY DEF RulePort, PORT_TO_HOST, PORT_TO_NET
<1>4. \A i \in PipeIds, e \in Match \cup {NULL} : Plain(i, e) # NULL
  BY FirewallAssumption DEF Plain
<1> QED
  BY <1>1, <1>2, <1>3, <1>4

LEMMA RuleEntryOf ==
  ASSUME NEW r \in Rule
  PROVE  RuleEntry(r) # NULL /\ RuleEntry(r).pipe \in DropIds
<1>1. r.proto \in Protocols /\ RulePort(r.direction) \in Ports /\ r.match \in Match
  BY DropPipes DEF Rule
<1> QED
  BY <1>1, DropPipes DEF RuleEntry, Plain

(* A handle that was free gets an entry: all other entries stay.            *)
LEMMA NewEntry ==
  ASSUME NEW w, w = [h \in Handles |-> w[h]], NEW g \in Handles, w[g] = NULL, NEW r,
         NEW v, v = [w EXCEPT ![g] = r]
  PROVE  /\ v = [h \in Handles |-> v[h]] /\ v[g] = r
         /\ \A h \in Handles \ {g} : v[h] = w[h]
         /\ r.pipe \notin DropIds => Dropping(v) = Dropping(w)
         /\ r.pipe \in DropIds /\ r # NULL => Dropping(v) = Dropping(w) \cup {g}
         /\ \A h \in Handles : w[h] # NULL => v[h] = w[h]
<1>1. /\ v = [h \in Handles |-> v[h]] /\ v[g] = r
      /\ \A h \in Handles \ {g} : v[h] = w[h]
  OBVIOUS
<1> QED
  BY <1>1 DEF Dropping

(* The pipes the running firewall has.                                      *)
LEMMA PipesThere ==
  ASSUME Shape, Built, app = "firewall", pc = "running"
  PROVE  /\ \A x \in Protocols, p \in Ports : pipes[DropPipe(x, p)] = PipeOf(DropPipe(x, p))
         /\ \A p \in Ports : pipes[Hairpin(p)] = PipeOf(Hairpin(p))
         /\ open => \A p \in Ports : \E h \in Handles : hw[h] = Plain(Hairpin(p), NULL)
<1>1. \A k \in 1 .. 8 :
        LET s == FirewallMain[k]
        IN /\ s.op = "build" => pipes[s.pipe] = PipeOf(s.pipe)
           /\ s.op = "entry" /\ open => \E h \in Handles : hw[h] = Plain(s.pipe, NULL)
  <2>1. at \in Nat /\ at > 8
    BY DEF Shape, Built
  <2> QED
    BY <2>1 DEF Built
<1>2. /\ pipes[FirewallMain[1].pipe] = PipeOf(FirewallMain[1].pipe)
      /\ pipes[FirewallMain[2].pipe] = PipeOf(FirewallMain[2].pipe)
      /\ pipes[FirewallMain[3].pipe] = PipeOf(FirewallMain[3].pipe)
      /\ pipes[FirewallMain[5].pipe] = PipeOf(FirewallMain[5].pipe)
      /\ pipes[FirewallMain[6].pipe] = PipeOf(FirewallMain[6].pipe)
      /\ pipes[FirewallMain[7].pipe] = PipeOf(FirewallMain[7].pipe)
  BY <1>1, FirewallSteps DEF Build
<1>3. open => /\ \E h \in Handles : hw[h] = Plain(FirewallMain[4].pipe, NULL)
              /\ \E h \in Handles : hw[h] = Plain(FirewallMain[8].pipe, NULL)
  BY <1>1, FirewallSteps DEF Entry
<1>4. /\ FirewallMain[1].pipe = Hairpin(0) /\ FirewallMain[2].pipe = DropPipe("TCP", 0)
      /\ FirewallMain[3].pipe = DropPipe("UDP", 0) /\ FirewallMain[4].pipe = Hairpin(0)
      /\ FirewallMain[5].pipe = Hairpin(1) /\ FirewallMain[6].pipe = DropPipe("TCP", 1)
      /\ FirewallMain[7].pipe = DropPipe("UDP", 1) /\ FirewallMain[8].pipe = Hairpin(1)
  BY FirewallSteps DEF Build, Entry
<1> QED
  BY <1>2, <1>3, <1>4 DEF Protocols

LEMMA PipeForms ==
  /\ \A p \in Ports : /\ PipeOf(Hairpin(p)).port_id = p /\ PipeOf(Hairpin(p)).match = {}
                      /\ PipeOf(Hairpin(p)).matched = PORT /\ PipeOf(Hairpin(p)).unmatched = DROP
  /\ \A x \in Protocols, p \in Ports :
       /\ PipeOf(DropPipe(x, p)).port_id = p /\ PipeOf(DropPipe(x, p)).match = Source(x)
       /\ PipeOf(DropPipe(x, p)).matched = DROP /\ PipeOf(DropPipe(x, p)).unmatched = PIPE
       /\ PipeOf(DropPipe(x, p)).next = Hairpin(p)
<1>1. ASSUME NEW p \in Ports
      PROVE  /\ PipeOf(Hairpin(p)).port_id = p /\ PipeOf(Hairpin(p)).match = {}
             /\ PipeOf(Hairpin(p)).matched = PORT /\ PipeOf(Hairpin(p)).unmatched = DROP
  <2> DEFINE i == Hairpin(p)
  <2>1. i[1] = "hairpin_pipe" /\ i[2] = p
    BY DEF Hairpin
  <2> HIDE DEF i
  <2>2. PipeOf(i) = [port_id |-> i[2], match |-> {}, matched |-> PORT, unmatched |-> DROP,
                     next |-> NULL, max_entry_amount |-> 2]
    BY <2>1 DEF PipeOf, Protocols, FwdPipe, ProbePipe
  <2> QED
    BY <2>1, <2>2 DEF i
<1>2. ASSUME NEW x \in Protocols, NEW p \in Ports
      PROVE  /\ PipeOf(DropPipe(x, p)).port_id = p /\ PipeOf(DropPipe(x, p)).match = Source(x)
             /\ PipeOf(DropPipe(x, p)).matched = DROP /\ PipeOf(DropPipe(x, p)).unmatched = PIPE
             /\ PipeOf(DropPipe(x, p)).next = Hairpin(p)
  <2> DEFINE i == DropPipe(x, p)
  <2>1. i[1] = x /\ i[2] = p
    BY DEF DropPipe
  <2> HIDE DEF i
  <2>2. PipeOf(i) = [port_id |-> i[2], match |-> Source(i[1]), matched |-> DROP,
                     unmatched |-> PIPE, next |-> Hairpin(i[2]), max_entry_amount |-> MaxEntries]
    BY <2>1 DEF PipeOf, Protocols, FwdPipe, ProbePipe
  <2> QED
    BY <2>1, <2>2 DEF i
<1> QED
  BY <1>1, <1>2

(* The list of rules with one in front, and with one taken out.             *)
LEMMA InFront ==
  ASSUME NEW b \in Seq(Rule), NEW r \in Rule
  PROVE  /\ <<r>> \o b \in Seq(Rule) /\ Len(<<r>> \o b) = Len(b) + 1
         /\ (<<r>> \o b)[1] = r
         /\ \A n \in 1 .. Len(b) : (<<r>> \o b)[n + 1] = b[n]
         /\ \A n \in 2 .. Len(b) + 1 : (<<r>> \o b)[n] = b[n - 1]
<1>1. <<r>> \in Seq(Rule) /\ Len(<<r>>) = 1 /\ <<r>>[1] = r
  OBVIOUS
<1>2. /\ <<r>> \o b \in Seq(Rule) /\ Len(<<r>> \o b) = 1 + Len(b)
      /\ \A i \in 1 .. 1 + Len(b) : (<<r>> \o b)[i] = IF i <= 1 THEN <<r>>[i] ELSE b[i - 1]
  BY <1>1, ConcatProperties
<1> QED
  BY <1>1, <1>2

LEMMA TakenOut ==
  ASSUME NEW S, NEW b \in Seq(S), NEW n \in 1 .. Len(b),
         NEW c, c = SubSeq(b, 1, n - 1) \o SubSeq(b, n + 1, Len(b))
  PROVE  /\ c \in Seq(S) /\ Len(c) = Len(b) - 1
         /\ \A k \in 1 .. Len(b) - 1 : c[k] = IF k < n THEN b[k] ELSE b[k + 1]
<1> DEFINE p == SubSeq(b, 1, n - 1)
           q == SubSeq(b, n + 1, Len(b))
<1>1. /\ p \in Seq(S) /\ Len(p) = n - 1 /\ \A k \in 1 .. n - 1 : p[k] = b[k]
  OBVIOUS
<1>2. /\ q \in Seq(S) /\ Len(q) = Len(b) - n /\ \A k \in 1 .. Len(b) - n : q[k] = b[n + k]
  OBVIOUS
<1> HIDE DEF p, q
<1>3. /\ p \o q \in Seq(S) /\ Len(p \o q) = Len(p) + Len(q)
      /\ \A i \in 1 .. Len(p) + Len(q) : (p \o q)[i] = IF i <= Len(p) THEN p[i] ELSE q[i - Len(p)]
  BY <1>1, <1>2, ConcatProperties
<1>4. c = p \o q
  BY DEF p, q
<1>5. Len(p \o q) = Len(b) - 1
  BY <1>1, <1>2, <1>3
<1>6. ASSUME NEW k \in 1 .. Len(b) - 1
      PROVE  (p \o q)[k] = IF k < n THEN b[k] ELSE b[k + 1]
  <2>1. CASE k < n
    BY <1>1, <1>2, <1>3, <2>1
  <2>2. CASE ~ k < n
    <3>1. k - (n - 1) \in 1 .. Len(b) - n /\ n + (k - (n - 1)) = k + 1
      BY <2>2
    <3> QED
      BY <1>1, <1>2, <1>3, <2>2, <3>1
  <2> QED
    BY <2>1, <2>2
<1> QED
  BY <1>3, <1>4, <1>5, <1>6

-----------------------------------------------------------------------------
(* The steps of the rules' invariant.                                       *)

LEMMA FwInit == Init => FwInv
<1> SUFFICES ASSUME Init PROVE FwInv
  OBVIOUS
<1>1. /\ pc = "argp" /\ app \in Apps /\ at = 1 /\ open = TRUE /\ bucket = <<>> /\ late = FALSE
      /\ pipes = [i \in PipeIds |-> NULL] /\ hw = [h \in Handles |-> NULL]
      /\ pending = [p \in Ports |-> <<>>]
  BY DEF Init, EnvInit, PipeInit, MainInit
<1>2. Dropping(hw) = {} /\ Entries(bucket) = {} /\ Backs(bucket, hw)
  BY <1>1 DEF Dropping, Entries, Backs
<1>3. Shape
  BY <1>1 DEF Shape
<1>4. NoRules /\ RulesBacked
  BY <1>1, <1>2, Backing DEF NoRules
<1>5. Built /\ Punctual
  BY <1>1 DEF Built, Punctual
<1> QED
  BY <1>3, <1>4, <1>5 DEF FwInv

(* A step that leaves pipes, entries and rules alone.                       *)
LEMMA FwFrame ==
  ASSUME FwInv, UNCHANGED <<pipes, hw, pending, app, open, bucket, late>>,
         at' \in Nat \ {0}, pc' \in Starting => at' = 1,
         pc' \in Starting \cup {"main"} => pc \in Starting \cup {"main"},
         Built'
  PROVE  FwInv'
<1>1. Shape' /\ Punctual'
  BY DEF FwInv, Shape, Punctual
<1>2. RulesBacked'
  BY Backing, BackingNext DEF FwInv
<1>3. NoRules'
  BY Backing, BackingNext DEF FwInv, NoRules
<1> QED
  BY <1>1, <1>2, <1>3 DEF FwInv

(* A step that only moves pc: to the end, or on while the program starts.   *)
LEMMA FwStill ==
  ASSUME FwInv, UNCHANGED <<pipes, hw, pending, app, at, open, bucket, late>>,
         \/ pc' = pc
         \/ pc \in Starting /\ pc' \in Starting \cup {"main"}
         \/ pc' \in {"exit", "crashed", "ended"}
  PROVE  FwInv'
<1>1. at' \in Nat \ {0} /\ (pc' \in Starting => at' = 1)
  BY DEF FwInv, Shape, NoRules, Starting
<1>2. pc' \in Starting \cup {"main"} => pc \in Starting \cup {"main"}
  BY DEF Starting
<1>3. Built'
  <2>1. CASE pc' = pc
    BY <2>1 DEF FwInv, Built
  <2>2. CASE pc \in Starting /\ pc' \in Starting \cup {"main"}
    <3>1. at' = 1 /\ pc' # "running"
      BY <2>2 DEF FwInv, NoRules, Starting
    <3> QED
      BY <3>1 DEF Built
  <2>3. CASE pc' \in {"exit", "crashed", "ended"}
    BY <2>3 DEF Built
  <2> QED
    BY <2>1, <2>2, <2>3
<1> QED
  BY <1>1, <1>2, <1>3, FwFrame

LEMMA EnvMoves ==
  ASSUME EnvNext
  PROVE  \/ pc \in Starting /\ pc' \in Starting \cup {"main"}
         \/ pc = "exit" /\ pc' = "ended"
<1>1. ASSUME NEW p \in Ports, PortInit(p) \/ BindHairpin(p) \/ BindFails(p) \/ StartDocaPort(p)
      PROVE  pc \in Starting /\ pc' \in Starting \cup {"main"}
  BY <1>1 DEF PortInit, PortStep, BindHairpin, BindStep, BindFails, StartDocaPort, DpdkFailed,
     Starting
<1>2. CASE EnvDestroy
  BY <1>2 DEF EnvDestroy
<1>3. CASE ArgpInit \/ ArgpStart \/ InitDocaFlow \/ MessageInit
  BY <1>3 DEF ArgpInit, ArgpStart, InitDocaFlow, MessageInit, Starting
<1>4. CASE CheckDevices
  BY <1>4 DEF CheckDevices, DpdkFailed, Starting
<1> QED
  BY <1>1, <1>2, <1>3, <1>4 DEF EnvNext

LEMMA LeastNumber ==
  ASSUME NEW T \in SUBSET Nat, T # {}
  PROVE  \E m \in T : \A k \in T : m <= k
<1>1. PICK x \in T : \A y \in T : ~ (<<y, x>> \in OpToRel(<, Nat))
  BY WFMin, NatLessThanWellFounded
<1>2. \A y \in T : ~ (y < x)
  BY <1>1 DEF OpToRel
<1> QED
  BY <1>2

(* The step main is at, and the one it goes on with.                        *)
LEMMA StepFacts ==
  ASSUME Shape, at <= Len(Steps)
  PROVE  /\ at \in 1 .. Len(Steps) /\ at + 1 \in Nat \ {0} /\ Len(Steps) \in Nat
         /\ Known(Step, Answers \cup {"note"}) /\ (app # "lb" => Known(Step, Answers))
         /\ Step.op = "entry" => Step.pipe \notin DropIds
         /\ Step.op \in {"build", "entry"} /\ Step.fail = "return" =>
              /\ Return \in Nat \ {0} /\ Return \in at + 1 .. Len(Steps) + 1
              /\ Steps[Return - 1].op = "enable"
              /\ \A j \in at .. Return - 2 : Steps[j].op = "build" /\ Steps[j].fail = "return"
<1> DEFINE F == Answers \cup {"note"}
<1>1. StepList(Steps, F) /\ (app # "lb" => StepList(Steps, Answers)) /\ at \in Nat \ {0}
  BY AllSteps DEF Shape
<1>2. Len(Steps) \in Nat
  BY <1>1 DEF StepList, IsList
<1>3. at \in 1 .. Len(Steps)
  BY <1>1, <1>2
<1>4. Known(Step, F) /\ Placed(Steps, at) /\ (app # "lb" => Known(Step, Answers))
  BY <1>1, <1>3 DEF StepList, Step
<1>5. Step.op = "entry" => Step.pipe \notin DropIds /\ Step.fail # "return"
  BY <1>4 DEF Known, LaterIds
<1>6. ASSUME Step.op \in {"build", "entry"}, Step.fail = "return"
      PROVE  /\ Return \in Nat \ {0} /\ Return \in at + 1 .. Len(Steps) + 1
             /\ Steps[Return - 1].op = "enable"
             /\ \A j \in at .. Return - 2 : Steps[j].op = "build" /\ Steps[j].fail = "return"
  <2>1. PICK l \in at .. Len(Steps) :
          /\ Steps[l].op = "enable"
          /\ \A j \in at .. l - 1 : Steps[j].op = "build" /\ Steps[j].fail = "return"
    BY <1>4, <1>5, <1>6 DEF Placed, Step
  <2> DEFINE T == {k \in at .. Len(Steps) : Steps[k].op = "enable"}
  <2>2. l \in T /\ T \in SUBSET Nat /\ T # {}
    BY <1>3, <2>1
  <2>3. \A k \in T : k \in at .. Len(Steps) /\ ~(k \in at .. l - 1)
    BY <2>1
  <2> HIDE DEF T
  <2>4. Min(T) \in T /\ \A k \in T : Min(T) <= k
    BY <2>2, LeastNumber DEF Min
  <2>5. Min(T) = l
    <3>1. Min(T) \in at .. Len(Steps) /\ Min(T) <= l /\ ~(Min(T) \in at .. l - 1)
      BY <2>2, <2>3, <2>4
    <3> QED
      BY <1>2, <1>3, <3>1
  <2>6. Return = l + 1
    BY <2>5 DEF Return, T
  <2>7. /\ Return \in Nat \ {0} /\ Return \in at + 1 .. Len(Steps) + 1
        /\ Return - 1 = l /\ Return - 2 = l - 1
    BY <1>2, <1>3, <2>6
  <2> QED
    BY <2>1, <2>7
<1> QED
  BY <1>1, <1>2, <1>3, <1>4, <1>5, <1>6

(* The steps of the firewall's main, as main meets them.                    *)
LEMMA FirewallStep ==
  ASSUME Shape, app = "firewall", at <= Len(Steps)
  PROVE  /\ Len(Steps) = 8 /\ at \in 1 .. 8 /\ Step = FirewallMain[at]
         /\ Step.op \in {"build", "entry"}
         /\ Step.op = "build" => Step.fail = "exit" /\ Step.pipe \in PipeIds
         /\ Step.op = "entry" =>
              /\ Step.fail = "ignore" /\ Step.match = NULL /\ Step.action = NULL
              /\ Step.pipe \in PipeIds /\ Step.pipe \notin DropIds
<1>1. Steps = FirewallMain
  BY DEF Steps
<1>2. Len(Steps) = 8 /\ at \in 1 .. 8 /\ Step = FirewallMain[at]
  BY <1>1, FirewallSteps DEF Step, Shape
<1>3. \A k \in 1 .. 8 :
        \/ \E i \in PipeIds : FirewallMain[k] = Build(i, "exit")
        \/ \E i \in PipeIds \ DropIds : FirewallMain[k] = Entry(i, NULL, NULL, "ignore")
  <2>1. 0 \in Ports /\ 1 \in Ports /\ "TCP" \in Protocols /\ "UDP" \in Protocols
    BY DEF Protocols
  <2>2. /\ Hairpin(0) \in PipeIds \ DropIds /\ Hairpin(1) \in PipeIds \ DropIds
        /\ DropPipe("TCP", 0) \in PipeIds /\ DropPipe("UDP", 0) \in PipeIds
        /\ DropPipe("TCP", 1) \in PipeIds /\ DropPipe("UDP", 1) \in PipeIds
    BY <2>1, DropPipes
  <2> QED
    BY <2>2, FirewallSteps
<1>4. \/ \E i \in PipeIds : Step = Build(i, "exit")
      \/ \E i \in PipeIds \ DropIds : Step = Entry(i, NULL, NULL, "ignore")
  BY <1>2, <1>3
<1>5. CASE \E i \in PipeIds : Step = Build(i, "exit")
  BY <1>2, <1>5 DEF Build
<1>6. CASE \E i \in PipeIds \ DropIds : Step = Entry(i, NULL, NULL, "ignore")
  BY <1>2, <1>6 DEF Entry
<1> QED
  BY <1>4, <1>5, <1>6

(* main builds a pipe, or does not and goes on or gives up.                 *)
LEMMA FwBuild ==
  ASSUME FwInv, MainBuild, UNCHANGED <<bucket, late>>
  PROVE  FwInv'
<1>1. /\ pc = "main" /\ at <= Len(Steps) /\ Step.op = "build"
      /\ UNCHANGED <<hw, pending, app, open>>
  BY DEF MainBuild, Doing
<1>2. \/ /\ pipes' = [pipes EXCEPT ![Step.pipe] = PipeOf(Step.pipe)]
         /\ at' = at + 1 /\ pc' = pc
      \/ /\ pipes' = pipes /\ pc' = (IF Step.fail = "exit" THEN "exit" ELSE pc)
         /\ at' = IF Step.fail = "return" THEN Return ELSE at + 1
  BY DEF MainBuild, BuildPipe, Succeeded, Failed
<1>3. Shape
  BY DEF FwInv
<1>4. at' \in Nat \ {0} /\ pc' \in {"main", "exit"}
  BY <1>1, <1>2, <1>3, StepFacts
<1>5. pipes' = [i \in PipeIds |-> pipes'[i]]
  BY <1>2, <1>3 DEF Shape
<1>6. Shape'
  BY <1>1, <1>3, <1>4, <1>5 DEF Shape
<1>7. RulesBacked' /\ NoRules'
  BY <1>1, <1>4, Backing, BackingNext DEF FwInv, NoRules, Starting
<1>8. Punctual'
  BY <1>1 DEF FwInv, Punctual
<1>9. Built'
  <2> SUFFICES ASSUME app = "firewall", pc' = "main" PROVE Built'
    BY <1>1, <1>4 DEF Built
  <2>1. /\ at \in 1 .. 8 /\ Step = FirewallMain[at]
        /\ Step.fail = "exit" /\ Step.pipe \in PipeIds
    BY <1>1, <1>3, FirewallStep
  <2>2. pipes' = [pipes EXCEPT ![Step.pipe] = PipeOf(Step.pipe)] /\ at' = at + 1
    BY <1>2, <2>1
  <2>3. /\ pipes'[Step.pipe] = PipeOf(Step.pipe)
        /\ \A i : pipes[i] = PipeOf(i) => pipes'[i] = PipeOf(i)
    <3>1. pipes = [i \in PipeIds |-> pipes[i]]
      BY <1>3 DEF Shape
    <3> QED
      BY <2>1, <2>2, <3>1
  <2>4. ASSUME NEW k \in 1 .. 8, k < at'
        PROVE  LET t == FirewallMain[k]
               IN /\ t.op = "build" => pipes'[t.pipe] = PipeOf(t.pipe)
                  /\ t.op = "entry" /\ open' =>
                       \E h \in Handles : hw'[h] = Plain(t.pipe, NULL)
    <3>1. CASE k = at
      BY <1>1, <2>1, <2>3, <3>1
    <3>2. CASE k < at
      <4>1. LET t == FirewallMain[k]
            IN /\ t.op = "build" => pipes[t.pipe] = PipeOf(t.pipe)
               /\ t.op = "entry" /\ open => \E h \in Handles : hw[h] = Plain(t.pipe, NULL)
        BY <1>1, <3>2 DEF FwInv, Built
      <4> QED
        BY <1>1, <2>3, <4>1
    <3> QED
      BY <2>1, <2>2, <2>4, <3>1, <3>2
  <2> QED
    BY <2>4 DEF Built
<1> QED
  BY <1>6, <1>7, <1>8, <1>9 DEF FwInv

(* Waiting for completions: the queue of the port is all that changes.      *)
LEMMA Awaited ==
  ASSUME Shape, NEW q, NEW h, NEW done,
         LET waiting == IF h = NULL THEN pending[q] ELSE Append(pending[q], h)
         IN /\ done \in 0 .. Len(waiting)
            /\ pending' = [pending EXCEPT ![q] = SubSeq(waiting, done + 1, Len(waiting))],
         h = NULL => q \in Ports, h # NULL => done = 1,
         \A p \in Ports : pending[p] = <<>>
  PROVE  \A p \in Ports : pending'[p] = <<>>
<1>1. pending = [p \in Ports |-> <<>>]
  BY DEF Shape
<1>2. CASE q \notin Ports
  BY <1>1, <1>2
<1>3. CASE q \in Ports /\ h = NULL
  <2>1. pending[q] = <<>> /\ done = 0
    BY <1>1, <1>3
  <2>2. SubSeq(pending[q], done + 1, Len(pending[q])) = <<>>
    BY <2>1
  <2> QED
    BY <1>1, <1>3, <2>2
<1>4. CASE q \in Ports /\ h # NULL
  <2>1. Append(pending[q], h) = <<h>>
    BY <1>1, <1>4
  <2>2. SubSeq(<<h>>, 1 + 1, Len(<<h>>)) = <<>>
    OBVIOUS
  <2> QED
    BY <1>1, <1>4, <2>1, <2>2
<1> QED
  BY <1>2, <1>3, <1>4

(* main installs an entry, which is never in a drop pipe.                   *)
LEMMA FwEntry ==
  ASSUME FwInv, MainEntry, UNCHANGED <<bucket, late>>
  PROVE  FwInv'
<1>1. /\ pc = "main" /\ at <= Len(Steps) /\ Step.op = "entry"
      /\ UNCHANGED <<pipes, app>>
  BY DEF MainEntry, Doing
<1>2. PICK h \in Handles \cup {NULL}, done \in 0 .. Cardinality(Handles) :
        /\ AddEntry(Step.pipe, Step.match, Step.action, h, done)
        /\ IF AddEntryResult(h, done) THEN Succeeded /\ UNCHANGED open
           ELSE Failed(Step.fail) /\ open' = (open /\ Step.fail # "ignore")
  BY DEF MainEntry
<1>3. Shape
  BY DEF FwInv
<1>4. at' \in Nat \ {0} /\ pc' \in {"main", "exit"} /\ open' \in BOOLEAN
  BY <1>1, <1>2, <1>3, StepFacts DEF Succeeded, Failed, Shape
<1> DEFINE r == [pipe |-> Step.pipe, match |-> Step.match, action |-> Step.action]
<1>5. /\ h \in Posted(Step.pipe)
      /\ hw' = IF h = NULL THEN hw ELSE [hw EXCEPT ![h] = r]
      /\ pending' = [p \in Ports |-> pending'[p]]
  BY <1>2, <1>3 DEF AddEntry, Shape
<1>6. h # NULL => h \in Handles /\ hw[h] = NULL
  BY <1>5 DEF Posted
<1>7. r.pipe \notin DropIds
  BY <1>1, <1>3, StepFacts
<1>8. hw = [g \in Handles |-> hw[g]]
  BY <1>3 DEF Shape
<1>9. /\ hw' = [g \in Handles |-> hw'[g]] /\ Dropping(hw') = Dropping(hw)
      /\ h # NULL => hw'[h] = r
      /\ \A g \in Handles : hw[g] # NULL => hw'[g] = hw[g]
  <2> HIDE DEF r
  <2>1. CASE h = NULL
    BY <1>5, <1>8, <2>1
  <2>2. CASE h # NULL
    BY <1>5, <1>6, <1>7, <1>8, <2>2, NewEntry
  <2> QED
    BY <2>1, <2>2
<1>10. Shape'
  BY <1>1, <1>3, <1>4, <1>5, <1>9 DEF Shape
<1>11. bucket = <<>> /\ ~late /\ Dropping(hw) = {}
  BY <1>1, Backing DEF FwInv, NoRules, Starting
<1>12. NoRules' /\ RulesBacked'
  <2>1. Backs(bucket', hw') /\ Entries(bucket') = {} /\ Dropping(hw') = {} /\ pc' \notin Starting
    BY <1>9, <1>11, <1>4 DEF Backs, Entries, Starting
  <2> QED
    BY <1>11, <2>1, BackingNext DEF NoRules
<1>13. ASSUME app = "firewall"
       PROVE  /\ at \in 1 .. 8 /\ Step = FirewallMain[at] /\ r = Plain(Step.pipe, NULL)
              /\ pc' = pc /\ at' = at + 1
              /\ open' => open /\ AddEntryResult(h, done)
  <2>1. /\ at \in 1 .. 8 /\ Step = FirewallMain[at]
        /\ Step.fail = "ignore" /\ Step.match = NULL /\ Step.action = NULL
    BY <1>1, <1>3, <1>13, FirewallStep
  <2> QED
    BY <1>2, <1>3, <2>1 DEF Plain, Succeeded, Failed, Shape
<1>14. Punctual'
  <2> SUFFICES ASSUME app = "firewall", open' PROVE \A p \in Ports : pending'[p] = <<>>
    BY <1>1 DEF Punctual
  <2>1. open /\ h # NULL /\ done = 1
    BY <1>13 DEF AddEntryResult
  <2>2. \A p \in Ports : pending[p] = <<>>
    BY <1>11, <2>1 DEF FwInv, Punctual
  <2>3. LET q == pipes[Step.pipe].port_id
            waiting == IF h = NULL THEN pending[q] ELSE Append(pending[q], h)
        IN /\ done \in 0 .. Len(waiting)
           /\ pending' = [pending EXCEPT ![q] = SubSeq(waiting, done + 1, Len(waiting))]
    BY <1>2 DEF AddEntry
  <2> QED
    BY <1>3, <2>1, <2>2, <2>3, Awaited
<1>15. Built'
  <2> SUFFICES ASSUME app = "firewall" PROVE Built'
    BY <1>1 DEF Built
  <2>1. /\ at \in 1 .. 8 /\ Step = FirewallMain[at] /\ r = Plain(Step.pipe, NULL)
        /\ pc' = pc /\ at' = at + 1
        /\ open' => open /\ h \in Handles
    BY <1>13, <1>6 DEF AddEntryResult
  <2>2. ASSUME NEW k \in 1 .. 8, k < at'
        PROVE  LET t == FirewallMain[k]
               IN /\ t.op = "build" => pipes'[t.pipe] = PipeOf(t.pipe)
                  /\ t.op = "entry" /\ open' =>
                       \E g \in Handles : hw'[g] = Plain(t.pipe, NULL)
    <3>1. CASE k = at
      <4>1. open' => hw'[h] = Plain(Step.pipe, NULL)
        BY <1>9, <2>1, PipeAssumption
      <4> QED
        BY <1>1, <2>1, <3>1, <4>1
    <3>2. CASE k < at
      <4> DEFINE t == FirewallMain[k]
      <4>1. /\ t.op = "build" => pipes[t.pipe] = PipeOf(t.pipe)
            /\ t.op = "entry" /\ open => \E g \in Handles : hw[g] = Plain(t.pipe, NULL)
        BY <1>1, <3>2 DEF FwInv, Built
      <4>2. t.op = "entry" => Plain(t.pipe, NULL) # NULL
        <5>1. t.op = "entry" => t.pipe \in PipeIds
          <6>1. Hairpin(0) \in PipeIds /\ Hairpin(1) \in PipeIds
            BY DropPipes
          <6> QED
            BY FirewallSteps, <6>1 DEF Build, Entry
        <5> QED
          BY <5>1, DropPipes
      <4> HIDE DEF t
      <4>3. /\ t.op = "build" => pipes'[t.pipe] = PipeOf(t.pipe)
            /\ t.op = "entry" /\ open' => \E g \in Handles : hw'[g] = Plain(t.pipe, NULL)
        BY <1>1, <1>9, <2>1, <4>1, <4>2
      <4> QED
        BY <4>3 DEF t
    <3> QED
      BY <2>1, <2>2, <3>1, <3>2
  <2> QED
    BY <1>1, <2>1, <2>2 DEF Built
<1> QED
  BY <1>10, <1>12, <1>14, <1>15 DEF FwInv

(* The other steps of main; the firewall has none but the last three.       *)
LEMMA FwMain ==
  ASSUME FwInv, MainNext, UNCHANGED <<bucket, late>>
  PROVE  FwInv'
<1>1. Shape
  BY DEF FwInv
<1>2. CASE MainCrash \/ Quit
  BY <1>2, FwStill DEF MainCrash, Quit, pipeVars, mainVars
<1>3. CASE MainVerify \/ MainAcquire \/ MainEnable
  <2>1. /\ pc = "main" /\ at <= Len(Steps) /\ Step.op \notin {"build", "entry"}
        /\ UNCHANGED <<pipes, hw, pending, app, open>>
        /\ pc' \in {"main", "exit"} /\ at' \in {at, at + 1}
    BY <1>3 DEF MainVerify, MainAcquire, MainEnable, Doing, pipeVars, envVars
  <2>2. at' \in Nat \ {0} /\ app # "firewall"
    BY <1>1, <2>1, FirewallStep DEF Shape
  <2>3. Built'
    BY <2>1, <2>2 DEF Built
  <2> QED
    BY <2>1, <2>2, <2>3, FwFrame DEF Starting
<1>4. CASE MainLaunch
  <2>1. /\ pc = "main" /\ at > Len(Steps) /\ pc' = "running"
        /\ UNCHANGED <<pipes, hw, pending, app, at, open>>
    BY <1>4 DEF MainLaunch, pipeVars, mainVars
  <2>2. app = "firewall" => at > 8
    BY <2>1, FirewallSteps DEF Steps
  <2>3. Built'
    BY <2>1, <2>2 DEF FwInv, Built
  <2> QED
    BY <1>1, <2>1, <2>3, FwFrame DEF Starting, Shape
<1> QED
  BY <1>2, <1>3, <1>4, FwBuild, FwEntry DEF MainNext

(* A rule put in front of the list, with the entry g it got.                *)
LEMMA BacksFront ==
  ASSUME NEW b \in Seq(Rule), NEW w, NEW v, Backs(b, w), NEW r \in Rule, NEW g, r.entry = g,
         v[g] = RuleEntry(r), w[g] = NULL,
         \A h \in Handles : w[h] # NULL => v[h] = w[h]
  PROVE  Backs(<<r>> \o b, v) /\ Entries(<<r>> \o b) = Entries(b) \cup {g}
<1> DEFINE c == <<r>> \o b
<1>1. /\ c \in Seq(Rule) /\ Len(c) = Len(b) + 1 /\ c[1] = r
      /\ \A n \in 1 .. Len(b) : c[n + 1] = b[n]
      /\ \A n \in 2 .. Len(b) + 1 : c[n] = b[n - 1]
  BY InFront
<1>2. DOMAIN b = 1 .. Len(b) /\ DOMAIN c = 1 .. Len(b) + 1 /\ Len(b) \in Nat
  BY <1>1
<1> HIDE DEF c
<1>3. \A n \in 1 .. Len(b) :
        /\ b[n].entry \in Handles /\ w[b[n].entry] = RuleEntry(b[n]) /\ RuleEntry(b[n]) # NULL
        /\ b[n].entry # g /\ v[b[n].entry] = RuleEntry(b[n])
  <2> SUFFICES ASSUME NEW n \in 1 .. Len(b)
               PROVE  /\ b[n].entry \in Handles /\ w[b[n].entry] = RuleEntry(b[n])
                      /\ RuleEntry(b[n]) # NULL
                      /\ b[n].entry # g /\ v[b[n].entry] = RuleEntry(b[n])
    OBVIOUS
  <2>0. b[n] \in Rule
    OBVIOUS
  <2>1. b[n] \in Rule /\ b[n].entry \in Handles
    BY <2>0 DEF Rule
  <2>2. RuleEntry(b[n]) # NULL /\ w[b[n].entry] = RuleEntry(b[n])
    BY <1>2, <2>1, RuleEntryOf DEF Backs
  <2> QED
    BY <2>1, <2>2
<1>4. \A n \in 1 .. Len(b), k \in 1 .. Len(b) : b[k].entry = b[n].entry => k = n
  BY <1>2 DEF Backs
<1>5. ASSUME NEW n \in 1 .. Len(b) + 1 PROVE v[c[n].entry] = RuleEntry(c[n])
  BY <1>1, <1>2, <1>3
<1>6. ASSUME NEW n \in 1 .. Len(b) + 1, NEW k \in 1 .. Len(b) + 1, c[k].entry = c[n].entry
      PROVE  k = n
  <2>1. CASE n = 1 /\ k # 1
    <3>1. k - 1 \in 1 .. Len(b) /\ c[k] = b[k - 1]
      BY <1>1, <1>2, <2>1
    <3> QED
      BY <1>1, <1>3, <1>6, <2>1, <3>1
  <2>2. CASE n # 1 /\ k = 1
    <3>1. n - 1 \in 1 .. Len(b) /\ c[n] = b[n - 1]
      BY <1>1, <1>2, <2>2
    <3> QED
      BY <1>1, <1>3, <1>6, <2>2, <3>1
  <2>3. CASE n # 1 /\ k # 1
    <3>1. n - 1 \in 1 .. Len(b) /\ c[n] = b[n - 1] /\ k - 1 \in 1 .. Len(b) /\ c[k] = b[k - 1]
      BY <1>1, <1>2, <2>3
    <3>2. n - 1 = k - 1
      BY <1>4, <1>6, <3>1
    <3> QED
      BY <3>2
  <2> QED
    BY <2>1, <2>2, <2>3
<1>7. Backs(c, v)
  BY <1>2, <1>5, <1>6 DEF Backs
<1>8. Entries(c) = Entries(b) \cup {g}
  <2>1. \A h : h \in Entries(c) => h \in Entries(b) \cup {g}
    <3> SUFFICES ASSUME NEW n \in 1 .. Len(b) + 1 PROVE c[n].entry \in Entries(b) \cup {g}
      BY <1>2 DEF Entries
    <3>1. CASE n = 1
      BY <1>1, <3>1
    <3>2. CASE n # 1
      <4>1. n - 1 \in DOMAIN b /\ c[n] = b[n - 1]
        BY <1>1, <1>2, <3>2
      <4> QED
        BY <4>1 DEF Entries
    <3> QED
      BY <3>1, <3>2
  <2>2. g \in Entries(c)
    <3>1. 1 \in DOMAIN c /\ c[1].entry = g
      BY <1>1, <1>2
    <3> QED
      BY <3>1 DEF Entries
  <2>3. ASSUME NEW n \in 1 .. Len(b) PROVE b[n].entry \in Entries(c)
    <3>1. n + 1 \in DOMAIN c /\ c[n + 1].entry = b[n].entry
      BY <1>1, <1>2
    <3> QED
      BY <3>1 DEF Entries
  <2>4. \A h \in Entries(b) : h \in Entries(c)
    BY <1>2, <2>3 DEF Entries
  <2> QED
    BY <2>1, <2>2, <2>4
<1> QED
  BY <1>7, <1>8 DEF c

(* flowQoS_firewall_add_rule                                                *)
LEMMA FwAdd ==
  ASSUME FwInv, NEW d \in Directions, NEW x \in Protocols, NEW e \in Match, AddRule(d, x, e)
  PROVE  FwInv'
<1> DEFINE i == DropPipe(x, RulePort(d))
           Rl(h) == [direction |-> d, proto |-> x, match |-> e, entry |-> h]
<1>1. /\ pc = "running" /\ app = "firewall"
      /\ UNCHANGED <<pc, app, at, open, pipes>>
  BY DEF AddRule, envVars, mainVars
<1>2. PICK h \in Handles \cup {NULL}, done \in 0 .. Cardinality(Handles) :
        /\ AddEntry(i, e, NULL, h, done)
        /\ bucket' = Listed(Rl(h), AddEntryResult(h, done))
        /\ late' = (late \/ (h # NULL /\ done = 0))
  BY DEF AddRule
<1>3. Shape /\ Backs(bucket, hw) /\ (~late => Dropping(hw) = Entries(bucket))
  BY Backing DEF FwInv
<1>4. /\ i \in PipeIds /\ i \in DropIds /\ RulePort(d) \in Ports
      /\ Plain(i, e) # NULL /\ Plain(i, e).pipe = i
  BY DropPipes DEF Plain
<1>5. pipes[i].port_id = RulePort(d)
  BY <1>1, <1>3, <1>4, PipesThere, PipeForms DEF FwInv
<1> HIDE DEF i
<1>6. /\ h \in Posted(i)
      /\ hw' = IF h = NULL THEN hw ELSE [hw EXCEPT ![h] = Plain(i, e)]
      /\ h # NULL => done <= 1
      /\ pending' = [p \in Ports |-> pending'[p]]
  BY <1>2, <1>3 DEF AddEntry, Shape, Plain
<1>7. h # NULL => h \in Handles /\ hw[h] = NULL
  BY <1>6 DEF Posted
<1>8. hw = [g \in Handles |-> hw[g]]
  BY <1>3 DEF Shape
<1>9. /\ hw' = [g \in Handles |-> hw'[g]]
      /\ h # NULL => hw'[h] = Plain(i, e) /\ Dropping(hw') = Dropping(hw) \cup {h}
      /\ \A g \in Handles : hw[g] # NULL => hw'[g] = hw[g]
  <2>1. CASE h = NULL
    BY <1>6, <1>8, <2>1
  <2>2. CASE h # NULL
    BY <1>4, <1>6, <1>7, <1>8, <2>2, NewEntry
  <2> QED
    BY <2>1, <2>2
<1>10. Shape' /\ RulesBacked'
  <2>1. CASE h = NULL
    <3>1. hw' = hw /\ bucket' = bucket /\ late' = late
      BY <1>2, <1>3, <1>6, <2>1 DEF Listed, AddEntryResult, Shape
    <3> QED
      BY <1>1, <1>3, <1>6, <3>1, BackingNext DEF Shape
  <2>2. CASE h # NULL /\ done = 1
    <3> DEFINE r == Rl(h)
    <3>1. bucket' = <<r>> \o bucket /\ late' = late
      BY <1>2, <1>3, <2>2 DEF Listed, AddEntryResult, Shape
    <3>2. r \in Rule /\ r.entry = h /\ RuleEntry(r) = Plain(i, e)
      BY <1>7, <2>2 DEF Rule, RuleEntry, i
    <3> HIDE DEF r
    <3>3. bucket \in Seq(Rule)
      BY <1>3 DEF Shape
    <3>4. Backs(<<r>> \o bucket, hw') /\ Entries(<<r>> \o bucket) = Entries(bucket) \cup {h}
      BY <1>3, <1>7, <1>9, <2>2, <3>2, <3>3, BacksFront
    <3>5. <<r>> \o bucket \in Seq(Rule)
      BY <3>2, <3>3, InFront
    <3> QED
      BY <1>1, <1>3, <1>6, <1>9, <2>2, <3>1, <3>4, <3>5, BackingNext DEF Shape
  <2>3. CASE h # NULL /\ done = 0
    <3>0. bucket' = bucket /\ late' = (late \/ TRUE)
      BY <1>2, <2>3 DEF Listed, AddEntryResult
    <3>1. bucket' = bucket /\ late' = TRUE
      BY <3>0
    <3>2. Backs(bucket, hw')
      <4> SUFFICES ASSUME NEW n \in DOMAIN bucket PROVE hw'[bucket[n].entry] = RuleEntry(bucket[n])
        BY <1>3 DEF Backs
      <4>1. bucket[n] \in Rule /\ hw[bucket[n].entry] = RuleEntry(bucket[n])
        BY <1>3 DEF Shape, Backs
      <4>2. bucket[n].entry \in Handles /\ RuleEntry(bucket[n]) # NULL
        BY <4>1, RuleEntryOf DEF Rule
      <4> QED
        BY <1>9, <4>1, <4>2
    <3> QED
      BY <1>1, <1>3, <1>6, <1>9, <3>1, <3>2, BackingNext DEF Shape
  <2> QED
    BY <1>2, <1>6, <2>1, <2>2, <2>3
<1>11. NoRules'
  BY <1>1 DEF NoRules, Starting
<1>12. Punctual'
  <2> SUFFICES ASSUME ~late', open' PROVE \A p \in Ports : pending'[p] = <<>>
    BY DEF Punctual
  <2>1. ~late /\ open /\ (h # NULL => done = 1)
    BY <1>1, <1>2, <1>3, <1>6 DEF Shape
  <2>2. \A p \in Ports : pending[p] = <<>>
    BY <1>1, <2>1 DEF FwInv, Punctual
  <2> DEFINE q == pipes[i].port_id
  <2>3. LET waiting == IF h = NULL THEN pending[q] ELSE Append(pending[q], h)
        IN /\ done \in 0 .. Len(waiting)
           /\ pending' = [pending EXCEPT ![q] = SubSeq(waiting, done + 1, Len(waiting))]
    BY <1>2 DEF AddEntry
  <2>4. q \in Ports
    BY <1>4, <1>5
  <2> HIDE DEF q
  <2> QED
    BY <1>3, <2>1, <2>2, <2>3, <2>4, Awaited
<1>13. Built'
  <2>1. ASSUME NEW k \in 1 .. 8, FirewallMain[k].op = "entry", NEW g \in Handles,
               hw[g] = Plain(FirewallMain[k].pipe, NULL)
        PROVE  hw'[g] = Plain(FirewallMain[k].pipe, NULL)
    <3>1. FirewallMain[k].pipe \in PipeIds
      <4>1. Hairpin(0) \in PipeIds /\ Hairpin(1) \in PipeIds
        BY DropPipes
      <4> QED
        BY FirewallSteps, <2>1, <4>1 DEF Build, Entry
    <3>2. hw[g] # NULL
      BY <2>1, <3>1, DropPipes
    <3> QED
      BY <1>9, <2>1, <3>2
  <2> QED
    BY <1>1, <2>1 DEF FwInv, Built
<1> QED
  BY <1>10, <1>11, <1>12, <1>13 DEF FwInv

(* The n-th rule is taken out of the list and its entry removed.            *)
Out(b, n) == SubSeq(b, 1, n - 1) \o SubSeq(b, n + 1, Len(b))
Removed(w, g) == [w EXCEPT ![g] = NULL]

TakenAway(b, w, g, c, v) ==
  /\ c \in Seq(Rule) /\ Backs(c, v)
  /\ Entries(c) = Entries(b) \ {g}
  /\ Dropping(v) = Dropping(w) \ {g}
  /\ v = [h \in Handles |-> v[h]]
  /\ \A h \in Handles : w[h] # NULL /\ w[h].pipe \notin DropIds => v[h] = w[h]

LEMMA BacksOut ==
  ASSUME NEW b \in Seq(Rule), NEW n \in 1 .. Len(b), NEW w, w = [h \in Handles |-> w[h]],
         Backs(b, w)
  PROVE  TakenAway(b, w, b[n].entry, Out(b, n), Removed(w, b[n].entry))
<1> DEFINE c == Out(b, n)
           v == Removed(w, b[n].entry)
<1> HIDE DEF c, v
<1> DEFINE g == b[n].entry
           old(k) == IF k < n THEN k ELSE k + 1
<1>1. /\ c \in Seq(Rule) /\ Len(c) = Len(b) - 1
      /\ \A k \in 1 .. Len(b) - 1 : c[k] = IF k < n THEN b[k] ELSE b[k + 1]
  <2>1. c = SubSeq(b, 1, n - 1) \o SubSeq(b, n + 1, Len(b))
    BY DEF c, Out
  <2>2. \A z : z = SubSeq(b, 1, n - 1) \o SubSeq(b, n + 1, Len(b)) =>
          /\ z \in Seq(Rule) /\ Len(z) = Len(b) - 1
          /\ \A k \in 1 .. Len(b) - 1 : z[k] = IF k < n THEN b[k] ELSE b[k + 1]
    BY TakenOut
  <2> QED
    BY <2>1, <2>2
<1>2. DOMAIN b = 1 .. Len(b) /\ DOMAIN c = 1 .. Len(b) - 1 /\ Len(b) \in Nat
  BY <1>1
<1>3. /\ \A k \in 1 .. Len(b) - 1 : old(k) \in 1 .. Len(b) /\ old(k) # n /\ c[k] = b[old(k)]
      /\ \A k \in 1 .. Len(b) - 1, l \in 1 .. Len(b) - 1 : old(k) = old(l) => k = l
      /\ \A m \in 1 .. Len(b) : m # n => \E k \in 1 .. Len(b) - 1 : old(k) = m
  <2>1. \A k \in 1 .. Len(b) - 1 : old(k) \in 1 .. Len(b) /\ old(k) # n /\ c[k] = b[old(k)]
    <3>1. \A k \in 1 .. Len(b) - 1 : old(k) \in 1 .. Len(b) /\ old(k) # n
      BY <1>2
    <3>2. \A k \in 1 .. Len(b) - 1 : c[k] = b[old(k)]
      BY <1>1
    <3> QED
      BY <3>1, <3>2
  <2>2. \A k \in 1 .. Len(b) - 1, l \in 1 .. Len(b) - 1 : old(k) = old(l) => k = l
    OBVIOUS
  <2>3. ASSUME NEW m \in 1 .. Len(b), m # n PROVE \E k \in 1 .. Len(b) - 1 : old(k) = m
    <3>1. CASE m < n
      <4>1. m \in 1 .. Len(b) - 1 /\ old(m) = m
        BY <1>2, <3>1
      <4> QED
        BY <4>1
    <3>2. CASE m > n
      <4>1. m - 1 \in 1 .. Len(b) - 1 /\ old(m - 1) = m
        BY <1>2, <3>2
      <4> QED
        BY <4>1
    <3> QED
      BY <2>3, <3>1, <3>2
  <2> QED
    BY <2>1, <2>2, <2>3
<1>4. \A k \in 1 .. Len(b) : b[k] \in Rule
  OBVIOUS
<1> HIDE DEF old
<1>5. \A k \in 1 .. Len(b) :
        /\ b[k].entry \in Handles /\ w[b[k].entry] = RuleEntry(b[k])
        /\ \A l \in 1 .. Len(b) : b[l].entry = b[k].entry => l = k
  BY <1>2, <1>4 DEF Backs, Rule
<1>6. g \in Handles /\ w[g] # NULL /\ w[g].pipe \in DropIds
  BY <1>4, <1>5, RuleEntryOf
<1> HIDE DEF g
<1>7. /\ v = [h \in Handles |-> v[h]] /\ v[g] = NULL
      /\ \A h \in Handles \ {g} : v[h] = w[h]
  BY <1>6 DEF g, v, Removed
<1>8. Dropping(v) = Dropping(w) \ {g}
  BY <1>7 DEF Dropping
<1>9. \A k \in 1 .. Len(b) : k # n => b[k].entry # g
  BY <1>5 DEF g
<1>10. Backs(c, v)
  <2>1. ASSUME NEW k \in 1 .. Len(b) - 1 PROVE v[c[k].entry] = RuleEntry(c[k])
    <3>1. PICK j \in 1 .. Len(b) : j # n /\ c[k] = b[j]
      BY <1>3
    <3>2. b[j].entry \in Handles \ {g} /\ w[b[j].entry] = RuleEntry(b[j])
      BY <1>5, <1>9, <3>1
    <3> QED
      BY <1>7, <3>1, <3>2
  <2>2. ASSUME NEW k \in 1 .. Len(b) - 1, NEW l \in 1 .. Len(b) - 1, c[l].entry = c[k].entry
        PROVE  l = k
    <3>1. old(k) \in 1 .. Len(b) /\ old(l) \in 1 .. Len(b)
          /\ c[k] = b[old(k)] /\ c[l] = b[old(l)]
      BY <1>3
    <3>2. old(l) = old(k)
      BY <1>5, <2>2, <3>1
    <3> QED
      BY <1>3, <3>2
  <2> QED
    BY <1>2, <2>1, <2>2 DEF Backs
<1>11. Entries(c) = Entries(b) \ {g}
  <2>1. ASSUME NEW k \in 1 .. Len(b) - 1 PROVE c[k].entry \in Entries(b) \ {g}
    BY <1>2, <1>3, <1>9 DEF Entries
  <2>2. ASSUME NEW m \in 1 .. Len(b), b[m].entry # g PROVE b[m].entry \in Entries(c)
    <3>1. m # n
      BY <2>2 DEF g
    <3>2. PICK k \in 1 .. Len(b) - 1 : old(k) = m
      BY <1>3, <3>1
    <3>3. c[k] = b[m] /\ k \in DOMAIN c
      BY <1>2, <1>3, <3>2
    <3> QED
      BY <3>3 DEF Entries
  <2>3. \A h \in Entries(c) : h \in Entries(b) \ {g}
    BY <1>2, <2>1 DEF Entries
  <2>4. \A h \in Entries(b) : h # g => h \in Entries(c)
    BY <1>2, <2>2 DEF Entries
  <2>5. g \notin Entries(c)
    BY <2>3
  <2> QED
    BY <2>3, <2>4, <2>5
<1>12. \A h \in Handles : w[h] # NULL /\ w[h].pipe \notin DropIds => v[h] = w[h]
  BY <1>6, <1>7
<1>13. TakenAway(b, w, g, c, v)
  BY <1>1, <1>7, <1>8, <1>10, <1>11, <1>12 DEF TakenAway
<1> QED
  BY <1>13 DEF g, c, v

(* flowQoS_firewall_del_rule                                                *)
LEMMA FwDel ==
  ASSUME FwInv, NEW n \in Nat, DelRule(n)
  PROVE  FwInv'
<1>1. /\ pc = "running" /\ app = "firewall" /\ n \in DOMAIN bucket
      /\ UNCHANGED <<pc, app, at, open, pipes, late>>
      /\ bucket' = Without(n) /\ RemoveEntry(bucket[n].entry)
  BY DEF DelRule, envVars, mainVars
<1>2. Shape /\ Backs(bucket, hw) /\ (~late => Dropping(hw) = Entries(bucket))
  BY Backing DEF FwInv
<1>3. /\ bucket \in Seq(Rule) /\ n \in 1 .. Len(bucket) /\ hw = [h \in Handles |-> hw[h]]
      /\ bucket' = Out(bucket, n) /\ hw' = Removed(hw, bucket[n].entry)
  BY <1>1, <1>2 DEF Shape, Without, RemoveEntry, Out, Removed
<1>4. /\ bucket' \in Seq(Rule) /\ Backs(bucket', hw')
      /\ Entries(bucket') = Entries(bucket) \ {bucket[n].entry}
      /\ Dropping(hw') = Dropping(hw) \ {bucket[n].entry}
      /\ hw' = [h \in Handles |-> hw'[h]]
      /\ \A h \in Handles : hw[h] # NULL /\ hw[h].pipe \notin DropIds => hw'[h] = hw[h]
  <2>1. TakenAway(bucket, hw, bucket[n].entry, bucket', hw')
    BY <1>2, <1>3, BacksOut
  <2> QED
    BY <2>1 DEF TakenAway
<1>5. pending' = [p \in Ports |-> NotAwaited(pending[p], bucket[n].entry)]
  BY <1>1 DEF RemoveEntry
<1>6. Shape'
  BY <1>1, <1>2, <1>4, <1>5 DEF Shape
<1>7. RulesBacked'
  BY <1>1, <1>2, <1>4, BackingNext
<1>8. NoRules'
  BY <1>1 DEF NoRules, Starting
<1>9. Punctual'
  <2>1. \A h : NotAwaited(<<>>, h) = <<>>
    BY DEF NotAwaited
  <2> SUFFICES ASSUME ~late', open' PROVE \A p \in Ports : pending'[p] = <<>>
    BY DEF Punctual
  <2>2. \A p \in Ports : pending[p] = <<>>
    BY <1>1 DEF FwInv, Punctual
  <2> QED
    BY <1>5, <2>1, <2>2
<1>10. Built'
  <2>1. ASSUME NEW k \in 1 .. 8, FirewallMain[k].op = "entry", NEW g \in Handles,
               hw[g] = Plain(FirewallMain[k].pipe, NULL)
        PROVE  hw'[g] = Plain(FirewallMain[k].pipe, NULL)
    <3>1. FirewallMain[k].pipe \in PipeIds \ DropIds
      <4>1. Hairpin(0) \in PipeIds \ DropIds /\ Hairpin(1) \in PipeIds \ DropIds
        BY DropPipes
      <4> QED
        BY FirewallSteps, <2>1, <4>1 DEF Build, Entry
    <3>2. hw[g] # NULL /\ hw[g].pipe \notin DropIds
      <4>1. hw[g] # NULL
        BY <2>1, <3>1, DropPipes
      <4> QED
        BY <2>1, <3>1, <4>1 DEF Plain
    <3> QED
      BY <1>4, <2>1, <3>2
  <2> QED
    BY <1>1, <2>1 DEF FwInv, Built
<1> QED
  BY <1>6, <1>7, <1>8, <1>9, <1>10 DEF FwInv

LEMMA FwStep == FwInv /\ [Next]_vars => FwInv'
<1> SUFFICES ASSUME FwInv, [Next]_vars PROVE FwInv'
  OBVIOUS
<1>1. CASE EnvNext /\ UNCHANGED <<pipeVars, mainVars, bucket, late>>
  BY <1>1, EnvMoves, FwStill DEF pipeVars, mainVars
<1>2. CASE MainNext /\ UNCHANGED <<bucket, late>>
  BY <1>2, FwMain
<1>3. ASSUME NEW d \in Directions, NEW x \in Protocols, NEW e \in Match, AddRule(d, x, e)
      PROVE  FwInv'
  BY <1>3, FwAdd
<1>4. ASSUME NEW n \in 1 .. Cardinality(Handles), DelRule(n) PROVE FwInv'
  BY <1>4, FwDel
<1>5. CASE UNCHANGED vars
  BY <1>5, FwStill DEF vars, envVars, pipeVars, mainVars
<1> QED
  BY <1>1, <1>2, <1>3, <1>4, <1>5 DEF Next

(* Every rule the firewall lists has an entry of its own, of its match, in  *)
(* the drop pipe of its direction and protocol, after any sequence of       *)
(* flowQoS_firewall_add_rule and flowQoS_firewall_del_rule and whatever     *)
(* doca-flow refuses or completes late; and the drop pipes hold no other    *)
(* entry unless one completed late.                                         *)
THEOREM RuleSafety == Spec => []RulesBacked
<1>1. FwInv => RulesBacked
  BY DEF FwInv
<1> QED
  BY <1>1, FwInit, FwStep, PTL DEF Spec

(* What the packet m meets: with every entry complete, its drop pipe takes  *)
(* it where a listed rule names it, and the hairpin takes the rest.         *)
LEMMA FwFilter ==
  ASSUME FwInv, pc = "running", app = "firewall", ~late, open, NEW m \in Packets
  PROVE  Dropped(m) <=> \E n \in DOMAIN bucket : LET r == bucket[n] IN
           /\ RulePort(r.direction) = m.port /\ r.proto = m.proto
           /\ r.match = [src_ip |-> m.src_ip, src_port |-> m.src_port]
<1> DEFINE i == DropPipe(m.proto, m.port)
           j == Hairpin(m.port)
           Named == \E n \in DOMAIN bucket : LET r == bucket[n] IN
                      /\ RulePort(r.direction) = m.port /\ r.proto = m.proto
                      /\ r.match = [src_ip |-> m.src_ip, src_port |-> m.src_port]
<1>1. m.proto \in Protocols /\ m.port \in Ports
  BY DEF Packets
<1>2. Shape /\ Built /\ Backs(bucket, hw) /\ Dropping(hw) = Entries(bucket)
  BY Backing DEF FwInv
<1>3. /\ pipes[i].match = Source(m.proto) /\ pipes[i].matched = DROP
      /\ pipes[i].unmatched = PIPE /\ pipes[i].next = j
      /\ pipes[j].match = {} /\ pipes[j].matched = PORT
  BY <1>1, <1>2, PipesThere, PipeForms
<1>4. \A h \in Handles : Effective(h) <=> hw[h] # NULL
  <2>1. \A p \in Ports : pending[p] = <<>>
    BY DEF FwInv, Punctual
  <2> QED
    BY <2>1 DEF Effective
<1>5. Hits(j, m) # {}
  <2>1. PICK h \in Handles : hw[h] = Plain(j, NULL)
    BY <1>1, <1>2, PipesThere
  <2>2. hw[h] # NULL /\ hw[h].pipe = j
    <3>1. hw[h] # NULL
      BY <1>1, <2>1, DropPipes
    <3> QED
      BY <2>1, <3>1 DEF Plain
  <2>3. MatchAdapter(pipes[j].match, hw[h].match, m)
    BY <1>3 DEF MatchAdapter
  <2>4. h \in Hits(j, m)
    BY <1>4, <2>2, <2>3 DEF Hits, EntriesOf
  <2> QED
    BY <2>4
<1>6. \A r \in Rule : r.match = [src_ip |-> r.match.src_ip, src_port |-> r.match.src_port]
  BY DEF Rule, Match
<1>7. \A e : MatchAdapter(pipes[i].match, e, m) <=> e.src_ip = m.src_ip /\ e.src_port = m.src_port
  <2>1. /\ "SIP" \in Source(m.proto) /\ "SPORT" \in Source(m.proto)
        /\ "DIP" \notin Source(m.proto) /\ "DPORT" \notin Source(m.proto)
        /\ "TCP" \in Source(m.proto) => m.proto = "TCP"
        /\ "UDP" \in Source(m.proto) => m.proto = "UDP"
    BY <1>1 DEF Source, Protocols
  <2> QED
    BY <1>3, <2>1 DEF MatchAdapter
<1>8. ASSUME NEW h \in Hits(i, m) PROVE Named
  <2>1. /\ h \in Handles /\ hw[h] # NULL /\ hw[h].pipe = i
        /\ hw[h].match.src_ip = m.src_ip /\ hw[h].match.src_port = m.src_port
    BY <1>7 DEF Hits, EntriesOf
  <2>2. h \in Dropping(hw)
    BY <1>1, <2>1, DropPipes DEF Dropping
  <2>3. PICK n \in DOMAIN bucket : h = bucket[n].entry
    BY <1>2, <2>2 DEF Entries
  <2> DEFINE r == bucket[n]
  <2>4. r \in Rule /\ hw[h] = RuleEntry(r)
    BY <1>2, <2>3 DEF Shape, Backs
  <2> HIDE DEF r
  <2>5. hw[h].pipe = DropPipe(r.proto, RulePort(r.direction)) /\ hw[h].match = r.match
    BY <2>4 DEF RuleEntry, Plain
  <2>6. RulePort(r.direction) = m.port /\ r.proto = m.proto
    BY <2>1, <2>5 DEF DropPipe
  <2>7. r.match = [src_ip |-> m.src_ip, src_port |-> m.src_port]
    BY <1>6, <2>1, <2>4, <2>5
  <2> QED
    BY <2>6, <2>7 DEF r
<1>9. ASSUME NEW n \in DOMAIN bucket,
             RulePort(bucket[n].direction) = m.port, bucket[n].proto = m.proto,
             bucket[n].match = [src_ip |-> m.src_ip, src_port |-> m.src_port]
      PROVE  Hits(i, m) # {}
  <2> DEFINE r == bucket[n]
             h == bucket[n].entry
  <2>1. r \in Rule /\ hw[h] = RuleEntry(r)
    BY <1>2 DEF Shape, Backs
  <2>2. h \in Handles
    BY <2>1 DEF Rule
  <2>3. hw[h] # NULL
    BY <2>1, RuleEntryOf
  <2>4. hw[h].pipe = i /\ hw[h].match = [src_ip |-> m.src_ip, src_port |-> m.src_port]
    BY <1>9, <2>1 DEF RuleEntry, Plain
  <2> HIDE DEF r, h
  <2>5. h \in Hits(i, m)
    BY <1>4, <1>7, <2>2, <2>3, <2>4 DEF Hits, EntriesOf
  <2> QED
    BY <2>5
<1>10. Hits(i, m) # {} <=> Named
  BY <1>8, <1>9
<1> HIDE DEF i, j, Named
<1>11. Walk(i, m) = DROP <=> Hits(i, m) # {}
  BY <1>3, <1>5 DEF Walk, Fate, DROP, PIPE, PORT
<1> QED
  BY <1>10, <1>11 DEF Dropped, i, Named

(* While the firewall runs, has had every completion in time and both       *)
(* hairpin entries, the hardware drops exactly the packets of the listed    *)
(* rules: main's pipes, the rules' entries and match_adapter taken together,*)
(* for any addresses, ports and number of rules.                            *)
THEOREM FilterSafety == Spec => []FilterExact
<1>1. FwInv => FilterExact
  BY FwFilter DEF FilterExact
<1> QED
  BY <1>1, FwInit, FwStep, PTL DEF Spec

-----------------------------------------------------------------------------
(* The programs that serve.                                                 *)

(* A port's entries that wait for their completion: each once, each an      *)
(* entry the hardware has, in a pipe of the port.                           *)
Queue(q, w, p) ==
  /\ q \in Seq(Handles)
  /\ \A n \in 1 .. Len(q) : w[q[n]] # NULL /\ PortOf(w[q[n]].pipe) = p
  /\ \A n, m \in 1 .. Len(q) : q[n] = q[m] => n = m

Holds(q, h) == \E n \in 1 .. Len(q) : q[n] = h

(* There are no more of them than handles.                                  *)
LEMMA QueueLength ==
  ASSUME NEW q, NEW w, NEW p, Queue(q, w, p)
  PROVE  Len(q) <= Cardinality(Handles)
<1>1. q \in Seq(Handles) /\ Len(q) \in Nat /\ q \in [1 .. Len(q) -> Handles]
  BY DEF Queue
<1>2. q \in Injection(1 .. Len(q), Handles)
  BY <1>1 DEF Queue, Injection, IsInjective
<1>3. IsFiniteSet(Handles)
  BY PipeAssumption
<1>4. Cardinality(1 .. Len(q)) <= Cardinality(Handles)
  BY <1>2, <1>3, FS_Injection
<1>5. Cardinality(1 .. Len(q)) = Len(q)
  BY <1>1, FS_Interval
<1> QED
  BY <1>4, <1>5

(* What is left of a queue when its first entries have been reported.       *)
LEMMA QueueRest ==
  ASSUME NEW q, NEW w, NEW p, Queue(q, w, p), NEW d \in 0 .. Len(q),
         NEW r, r = SubSeq(q, d + 1, Len(q))
  PROVE  Queue(r, w, p) /\ \A h : Holds(r, h) => Holds(q, h)
<1>1. q \in Seq(Handles) /\ Len(q) \in Nat /\ \A n \in 1 .. Len(q) : q[n] \in Handles
  BY DEF Queue
<1>2. /\ r \in Seq(Handles) /\ Len(r) = Len(q) - d
      /\ \A n \in 1 .. Len(q) - d : r[n] = q[d + n]
  <2>1. /\ r \in Seq(Handles) /\ Len(r) = IF d + 1 <= Len(q) THEN Len(q) - (d + 1) + 1 ELSE 0
        /\ \A i \in 1 .. Len(q) - (d + 1) + 1 : r[i] = q[(d + 1) + i - 1]
    <3>1. \A i \in (d + 1) .. Len(q) : q[i] \in Handles
      BY <1>1
    <3> QED
      BY <1>1, <3>1, SubSeqProperties
  <2>2. Len(r) = Len(q) - d
    BY <1>1, <2>1
  <2>3. ASSUME NEW n \in 1 .. Len(q) - d PROVE r[n] = q[d + n]
    <3>1. n \in 1 .. Len(q) - (d + 1) + 1 /\ (d + 1) + n - 1 = d + n
      BY <1>1
    <3> QED
      BY <2>1, <3>1
  <2> QED
    BY <2>1, <2>2, <2>3
<1>3. \A n \in 1 .. Len(q) - d : d + n \in 1 .. Len(q)
  BY <1>1
<1>4. \A n \in 1 .. Len(r) : w[r[n]] # NULL /\ PortOf(w[r[n]].pipe) = p
  BY <1>2, <1>3 DEF Queue
<1>5. ASSUME NEW n \in 1 .. Len(r), NEW m \in 1 .. Len(r), r[n] = r[m] PROVE n = m
  <2>1. n \in 1 .. Len(q) - d /\ m \in 1 .. Len(q) - d
    BY <1>2
  <2>2. d + n \in 1 .. Len(q) /\ d + m \in 1 .. Len(q) /\ q[d + n] = q[d + m]
    BY <1>2, <1>3, <1>5, <2>1
  <2>3. d + n = d + m
    BY <2>2 DEF Queue
  <2> QED
    BY <2>1, <2>3
<1>6. \A h : Holds(r, h) => Holds(q, h)
  BY <1>2, <1>3 DEF Holds
<1> QED
  BY <1>2, <1>4, <1>5, <1>6 DEF Queue

(* An entry that is posted waits behind the others.                         *)
LEMMA QueueAppend ==
  ASSUME NEW q, NEW w, NEW p, Queue(q, w, p), NEW h \in Handles, w[h] = NULL,
         NEW v, v[h] # NULL, PortOf(v[h].pipe) = p,
         \A g \in Handles : w[g] # NULL => v[g] = w[g]
  PROVE  /\ Queue(Append(q, h), v, p) /\ Len(Append(q, h)) = Len(q) + 1
         /\ \A g : Holds(Append(q, h), g) => g = h \/ Holds(q, g)
<1> DEFINE a == Append(q, h)
<1>1. q \in Seq(Handles) /\ Len(q) \in Nat /\ \A n \in 1 .. Len(q) : q[n] \in Handles /\ q[n] # h
  BY DEF Queue
<1>2. /\ a \in Seq(Handles) /\ Len(a) = Len(q) + 1
      /\ \A n \in 1 .. Len(q) : a[n] = q[n]
      /\ a[Len(q) + 1] = h
  BY <1>1, AppendProperties
<1> HIDE DEF a
<1>3. \A n \in 1 .. Len(a) : n \in 1 .. Len(q) \/ n = Len(q) + 1
  BY <1>1, <1>2
<1>4. ASSUME NEW n \in 1 .. Len(a) PROVE v[a[n]] # NULL /\ PortOf(v[a[n]].pipe) = p
  <2>1. CASE n \in 1 .. Len(q)
    <3>1. a[n] = q[n] /\ w[q[n]] # NULL /\ PortOf(w[q[n]].pipe) = p /\ v[q[n]] = w[q[n]]
      BY <1>1, <1>2, <2>1 DEF Queue
    <3> QED
      BY <3>1
  <2>2. CASE n = Len(q) + 1
    BY <1>2, <2>2
  <2> QED
    BY <1>3, <2>1, <2>2
<1>5. ASSUME NEW n \in 1 .. Len(a), NEW m \in 1 .. Len(a), a[n] = a[m] PROVE n = m
  <2>1. CASE n \in 1 .. Len(q) /\ m \in 1 .. Len(q)
    BY <1>2, <1>5, <2>1 DEF Queue
  <2>2. CASE n = Len(q) + 1 /\ m \in 1 .. Len(q)
    BY <1>1, <1>2, <1>5, <2>2
  <2>3. CASE n \in 1 .. Len(q) /\ m = Len(q) + 1
    BY <1>1, <1>2, <1>5, <2>3
  <2> QED
    BY <1>3, <2>1, <2>2, <2>3
<1>6. \A g : Holds(a, g) => g = h \/ Holds(q, g)
  BY <1>2, <1>3 DEF Holds
<1>7. Queue(a, v, p)
  BY <1>2, <1>4, <1>5 DEF Queue
<1> QED
  BY <1>2, <1>6, <1>7 DEF a

LEMMA QueueKept ==
  ASSUME NEW q, NEW w, NEW p, Queue(q, w, p), NEW v,
         \A g \in Handles : w[g] # NULL => v[g] = w[g]
  PROVE  Queue(q, v, p)
<1>1. \A n \in 1 .. Len(q) : q[n] \in Handles
  BY DEF Queue
<1> QED
  BY <1>1 DEF Queue

(* doca_flow_pipe_rm_entry takes the entry g out.                           *)
LEMMA QueueWithout ==
  ASSUME NEW q, NEW w, NEW p, Queue(q, w, p), NEW g, NEW v,
         \A h \in Handles : h # g => v[h] = w[h]
  PROVE  Queue(NotAwaited(q, g), v, p)
<1>1. q \in Seq(Handles) /\ Len(q) \in Nat /\ DOMAIN q = 1 .. Len(q)
      /\ \A n \in 1 .. Len(q) : q[n] \in Handles
  BY DEF Queue
<1>2. CASE ~\E n \in DOMAIN q : q[n] = g
  <2>1. NotAwaited(q, g) = q
    BY <1>2 DEF NotAwaited
  <2>2. \A n \in 1 .. Len(q) : v[q[n]] = w[q[n]]
    BY <1>1, <1>2
  <2> QED
    BY <2>1, <2>2 DEF Queue
<1>3. CASE \E n \in DOMAIN q : q[n] = g
  <2> DEFINE k == CHOOSE n \in DOMAIN q : q[n] = g
             c == SubSeq(q, 1, k - 1) \o SubSeq(q, k + 1, Len(q))
  <2>1. k \in 1 .. Len(q) /\ q[k] = g
    BY <1>1, <1>3
  <2>2. NotAwaited(q, g) = c
    BY <1>3 DEF NotAwaited
  <2> HIDE DEF k
  <2>3. /\ c \in Seq(Handles) /\ Len(c) = Len(q) - 1
        /\ \A n \in 1 .. Len(q) - 1 : c[n] = IF n < k THEN q[n] ELSE q[n + 1]
    BY <1>1, <2>1, TakenOut
  <2> HIDE DEF c
  <2> DEFINE old(n) == IF n < k THEN n ELSE n + 1
  <2>4. /\ \A n \in 1 .. Len(q) - 1 : old(n) \in 1 .. Len(q) /\ old(n) # k
        /\ \A n, m \in 1 .. Len(q) - 1 : old(n) = old(m) => n = m
    BY <1>1, <2>1
  <2>5. \A n \in 1 .. Len(q) - 1 : c[n] = q[old(n)]
    BY <2>3
  <2> HIDE DEF old
  <2>6. ASSUME NEW n \in 1 .. Len(q) - 1 PROVE v[c[n]] # NULL /\ PortOf(v[c[n]].pipe) = p
    <3>1. q[old(n)] # g
      BY <2>1, <2>4 DEF Queue
    <3>2. v[q[old(n)]] = w[q[old(n)]]
      BY <1>1, <2>4, <3>1
    <3> QED
      BY <2>4, <2>5, <3>2 DEF Queue
  <2>7. ASSUME NEW n \in 1 .. Len(q) - 1, NEW m \in 1 .. Len(q) - 1, c[n] = c[m] PROVE n = m
    <3>1. q[old(n)] = q[old(m)]
      BY <2>5, <2>7
    <3>2. old(n) = old(m)
      BY <2>4, <3>1 DEF Queue
    <3> QED
      BY <2>4, <3>2
  <2>8. Queue(c, v, p)
    BY <2>3, <2>6, <2>7 DEF Queue
  <2> QED
    BY <2>2, <2>8
<1> QED
  BY <1>2, <1>3

(* The entry h is there and reported.                                       *)
Reported(w, pd, h) == w[h] # NULL /\ \A p \in Ports : ~Holds(pd[p], h)

Queues == \A p \in Ports : Queue(pending[p], hw, p)

LEMMA ReportedEffective ==
  ASSUME Queues, NEW h
  PROVE  Effective(h) <=> Reported(hw, pending, h)
<1>1. \A p \in Ports : DOMAIN pending[p] = 1 .. Len(pending[p])
  BY DEF Queues, Queue
<1> QED
  BY <1>1 DEF Effective, Reported, Holds

(* flowQoS_add_entry of the entry r, in a pipe of port q: what is reported  *)
(* stays so, and what was posted on an idle port and reported is r itself.  *)
LEMMA EntryAdded ==
  ASSUME Shape, Queues, NEW i, NEW e, NEW a, NEW h, NEW done, AddEntry(i, e, a, h, done),
         pipes[i] = PipeOf(i), NEW q \in Ports, q = PortOf(i),
         NEW r, r = [pipe |-> i, match |-> e, action |-> a], r # NULL
  PROVE  /\ Queues'
         /\ \A g \in Handles : hw[g] # NULL => hw'[g] = hw[g]
         /\ \A g \in Handles : hw[g] = NULL => hw'[g] \in {NULL, r}
         /\ \A g \in Handles : Reported(hw, pending, g) => Reported(hw', pending', g)
         /\ \A p \in Ports : p # q => pending'[p] = pending[p]
         /\ pending[q] = <<>> /\ (h = NULL \/ AddEntryResult(h, done)) => pending'[q] = <<>>
         /\ AddEntryResult(h, done) =>
              /\ h \in Handles /\ hw'[h] = r
              /\ pending[q] = <<>> => Reported(hw', pending', h)
<1> DEFINE waiting == IF h = NULL THEN pending[q] ELSE Append(pending[q], h)
           rest == SubSeq(waiting, done + 1, Len(waiting))
<1>1. /\ h \in Posted(i) /\ done \in 0 .. Len(waiting) /\ (h # NULL => done <= 1)
      /\ hw' = IF h = NULL THEN hw ELSE [hw EXCEPT ![h] = r]
      /\ pending' = [pending EXCEPT ![q] = rest]
  BY DEF AddEntry, PortOf
<1>2. h # NULL => h \in Handles /\ hw[h] = NULL
  BY <1>1 DEF Posted
<1>3. hw = [g \in Handles |-> hw[g]] /\ pending = [p \in Ports |-> pending[p]]
  BY DEF Shape
<1>4. /\ \A g \in Handles : hw[g] # NULL => hw'[g] = hw[g]
      /\ \A g \in Handles : hw[g] = NULL => hw'[g] \in {NULL, r}
      /\ h # NULL => hw'[h] = r
  BY <1>1, <1>2, <1>3
<1>5. r.pipe = i
  OBVIOUS
<1>6. pending'[q] = rest /\ \A p \in Ports : p # q => pending'[p] = pending[p]
  <2> HIDE DEF rest
  <2> QED
    BY <1>1, <1>3
<1>7. \A p \in Ports : Queue(pending[p], hw, p)
  BY DEF Queues
<1>8. /\ Queue(waiting, hw', q)
      /\ \A g : Holds(waiting, g) => g = h \/ Holds(pending[q], g)
  <2>1. CASE h = NULL
    BY <1>1, <1>7, <2>1
  <2>2. CASE h # NULL
    <3>1. /\ h \in Handles /\ hw[h] = NULL /\ hw'[h] = r /\ r # NULL /\ PortOf(r.pipe) = q
          /\ \A g \in Handles : hw[g] # NULL => hw'[g] = hw[g]
      BY <1>2, <1>4, <1>5, <2>2
    <3>2. /\ Queue(Append(pending[q], h), hw', q)
          /\ \A g : Holds(Append(pending[q], h), g) => g = h \/ Holds(pending[q], g)
      BY <1>7, <3>1, QueueAppend
    <3> QED
      BY <2>2, <3>2
  <2> QED
    BY <2>1, <2>2
<1> HIDE DEF waiting
<1>9. Queue(rest, hw', q) /\ \A g : Holds(rest, g) => Holds(waiting, g)
  <2>1. rest = SubSeq(waiting, done + 1, Len(waiting))
    OBVIOUS
  <2>2. done \in 0 .. Len(waiting) /\ Queue(waiting, hw', q)
    BY <1>1, <1>8
  <2> HIDE DEF rest
  <2>3. \A d \in 0 .. Len(waiting) : \A z : z = SubSeq(waiting, d + 1, Len(waiting)) =>
          Queue(z, hw', q) /\ \A g : Holds(z, g) => Holds(waiting, g)
    BY <2>2, QueueRest
  <2> QED
    BY <2>1, <2>2, <2>3
<1> HIDE DEF rest
<1>10. Queues'
  <2>1. ASSUME NEW p \in Ports PROVE Queue(pending'[p], hw', p)
    <3>1. CASE p = q
      BY <1>6, <1>9, <3>1
    <3>2. CASE p # q
      <4>1. Queue(pending[p], hw', p)
        BY <1>4, <1>7, QueueKept
      <4> QED
        BY <1>6, <3>2, <4>1
    <3> QED
      BY <3>1, <3>2
  <2> QED
    BY <2>1 DEF Queues
<1>11. ASSUME NEW g \in Handles, Reported(hw, pending, g) PROVE Reported(hw', pending', g)
  <2>1. hw[g] # NULL /\ g # h
    BY <1>2, <1>11, PipeAssumption DEF Reported
  <2>2. hw'[g] # NULL
    BY <1>4, <2>1
  <2>3. ASSUME NEW p \in Ports PROVE ~Holds(pending'[p], g)
    <3>1. CASE p = q
      BY <1>6, <1>8, <1>9, <1>11, <2>1, <3>1 DEF Reported
    <3>2. CASE p # q
      BY <1>6, <1>11, <3>2 DEF Reported
    <3> QED
      BY <3>1, <3>2
  <2> QED
    BY <2>2, <2>3 DEF Reported
<1>12. pending[q] = <<>> /\ (h = NULL \/ AddEntryResult(h, done)) => rest = <<>>
  <2> SUFFICES ASSUME pending[q] = <<>>, h = NULL \/ AddEntryResult(h, done) PROVE rest = <<>>
    OBVIOUS
  <2>1. CASE h = NULL
    <3>1. waiting = <<>> /\ done = 0
      BY <1>1, <2>1 DEF waiting
    <3> QED
      BY <3>1 DEF rest
  <2>2. CASE h # NULL
    <3>1. waiting = <<h>> /\ done = 1
      BY <1>1, <2>2 DEF waiting, AddEntryResult
    <3> QED
      BY <3>1 DEF rest
  <2> QED
    BY <2>1, <2>2
<1>13. ASSUME AddEntryResult(h, done)
       PROVE  /\ h \in Handles /\ hw'[h] = r
              /\ pending[q] = <<>> => Reported(hw', pending', h)
  <2>1. h \in Handles /\ hw'[h] = r /\ hw[h] = NULL
    BY <1>2, <1>4, <1>13 DEF AddEntryResult
  <2>2. ASSUME pending[q] = <<>>, NEW p \in Ports PROVE ~Holds(pending'[p], h)
    <3>1. CASE p = q
      <4>1. pending'[p] = <<>> /\ Len(<<>>) = 0
        BY <1>6, <1>12, <1>13, <2>2, <3>1
      <4> QED
        BY <4>1 DEF Holds
    <3>2. CASE p # q
      <4>1. pending'[p] = pending[p] /\ Queue(pending[p], hw, p)
        BY <1>6, <1>7, <3>2
      <4> QED
        BY <2>1, <4>1 DEF Holds, Queue
    <3> QED
      BY <3>1, <3>2
  <2> QED
    BY <2>1, <2>2 DEF Reported
<1> QED
  BY <1>4, <1>6, <1>10, <1>11, <1>12, <1>13

-----------------------------------------------------------------------------
(* The entry a step installs.                                               *)
EntryOf(x) == [pipe |-> x.pipe, match |-> x.match, action |-> x.action]

Live(c) == c \notin {"exit", "crashed", "ended"}

(* The step k of s installed no entry, or one that was reported late, and   *)
(* main went on: nt and op are noted and open.                              *)
Late(s, k, nt, op) ==
  /\ s[k].op = "entry"
  /\ \/ s[k].fail = "note" /\ nt
     \/ s[k].fail = "ignore" /\ ~op

(* No step up to k left a completion of k's port behind.                    *)
Clear(s, k, nt, op) ==
  \A j \in 1 .. k : Late(s, j, nt, op) => PortOf(s[j].pipe) # PortOf(s[k].pipe)

(* Every entry in the hardware is one of a step.                            *)
FromMain(s, w) ==
  \A h \in Handles : w[h] # NULL =>
    \E k \in 1 .. Len(s) : s[k].op = "entry" /\ w[h] = EntryOf(s[k])

(* Completions are outstanding on ports where a step was late only; the     *)
(* steps before n are done.                                                 *)
Waits(s, n, nt, op, pd) ==
  \A p \in Ports : pd[p] # <<>> =>
    \E k \in 1 .. Len(s) : k < n /\ Late(s, k, nt, op) /\ PortOf(s[k].pipe) = p

(* The pipe of a step done; one whose failure returns may be missing once   *)
(* flowQoS_conntrack_init_port is left.                                     *)
BuiltStep(s, k, n, c, nt, pp) ==
  /\ s[k].fail = "exit" /\ Live(c) => pp[s[k].pipe] = PipeOf(s[k].pipe)
  /\ s[k].fail = "note" /\ ~nt => pp[s[k].pipe] = PipeOf(s[k].pipe)
  /\ s[k].fail = "return" => \/ pp[s[k].pipe] = PipeOf(s[k].pipe)
                             \/ \E l \in k .. Len(s) : l < n /\ s[l].op = "enable"

(* The entry of a step done, reported where its port was clear.             *)
PutStep(s, k, c, nt, op, pp, w, pd) ==
  /\ pp[s[k].pipe] = PipeOf(s[k].pipe)
  /\ Clear(s, k, nt, op) /\ (s[k].fail = "exit" => Live(c)) =>
       \E h \in Handles : w[h] = EntryOf(s[k]) /\ Reported(w, pd, h)

(* The ports conntrack is enabled on have their pipes.                      *)
Opened(s, n, a, E, pp) ==
  \A p \in E :
    /\ \A x \in Protocols : pp[ConnPipe(x, p)] = PipeOf(ConnPipe(x, p))
    /\ \E k \in 1 .. Len(s) : /\ k < n /\ (a = "lb" => k > 5)
                              /\ s[k] = Entry(RssPipe(p), NULL, NULL, "ignore")

Progress ==
  /\ FromMain(Steps, hw)
  /\ Live(pc) => Waits(Steps, at, noted, open, pending)
  /\ \A k \in 1 .. Len(Steps) : k < at =>
       /\ Steps[k].op = "build" => BuiltStep(Steps, k, at, pc, noted, pipes)
       /\ Steps[k].op = "entry" => PutStep(Steps, k, pc, noted, open, pipes, hw, pending)
  /\ Opened(Steps, at, app, enabled, pipes)

ServeInv ==
  /\ MainTypeOK /\ Queues
  /\ noted => app = "lb" /\ at <= 5
  /\ pc = "running" => at > Len(Steps)
  /\ app = "firewall" => enabled = {}
  /\ app # "firewall" => Progress

-----------------------------------------------------------------------------
(* The steps of LB_init and of adaptive routing's main.                     *)

LEMMA ConntrackSteps ==
  ASSUME NEW p
  PROVE  /\ IsList(ConntrackInitPort(p))
         /\ Len(ConntrackInitPort(p)) = 5
         /\ ConntrackInitPort(p)[1] = Build(RssPipe(p), "ignore")
         /\ ConntrackInitPort(p)[2] = Entry(RssPipe(p), NULL, NULL, "ignore")
         /\ ConntrackInitPort(p)[3] = Build(ConnPipe("UDP", p), "return")
         /\ ConntrackInitPort(p)[4] = Build(ConnPipe("TCP", p), "return")
         /\ ConntrackInitPort(p)[5] = Enable(p)
<1> DEFINE s == ConntrackInitPort(p)
<1>1. /\ s \in Seq({s[k] : k \in 1 .. 5}) /\ Len(s) = 5
      /\ s[1] = Build(RssPipe(p), "ignore") /\ s[2] = Entry(RssPipe(p), NULL, NULL, "ignore")
      /\ s[3] = Build(ConnPipe("UDP", p), "return") /\ s[4] = Build(ConnPipe("TCP", p), "return")
      /\ s[5] = Enable(p)
  BY DEF ConntrackInitPort
<1> HIDE DEF s
<1>2. IsList(s)
  BY <1>1 DEF IsList
<1> QED
  BY <1>1, <1>2 DEF s

LEMMA AcquireStep == IsList(<<Acquire>>) /\ Len(<<Acquire>>) = 1 /\ <<Acquire>>[1] = Acquire
<1>1. <<Acquire>> \in Seq({Acquire})
  OBVIOUS
<1> QED
  BY <1>1 DEF IsList

(* The step of LB_load_params for the real server r of the service v.       *)
ServerStep(v, r) ==
  Entry(DownstreamPipe(v.proto), [src_ip |-> r, src_port |-> v.rport],
        [src_ip |-> v.dip, src_port |-> v.dport], "exit")

LEMMA LoadSteps ==
  /\ IsList(LB_load_params)
  /\ Len(LB_load_params) = 7 /\ LB_load_params[1] = Acquire
  /\ LB_load_params[2] = ServerStep(Services[1], RealServers[1])
  /\ LB_load_params[3] = ServerStep(Services[1], RealServers[2])
  /\ LB_load_params[4] = ServerStep(Services[2], RealServers[1])
  /\ LB_load_params[5] = ServerStep(Services[2], RealServers[2])
  /\ LB_load_params[6] = ServerStep(Services[3], RealServers[1])
  /\ LB_load_params[7] = ServerStep(Services[3], RealServers[2])
<1> DEFINE T(v) == <<ServerStep(v, RealServers[1]), ServerStep(v, RealServers[2])>>
           a == <<Acquire>>
           b == a \o T(Services[1])
           c == b \o T(Services[2])
           d == c \o T(Services[3])
<1>1. LB_load_params = d
  BY DEF LB_load_params, ServerStep
<1>2. ASSUME NEW v
      PROVE  /\ IsList(T(v))
             /\ Len(T(v)) = 2
             /\ T(v)[1] = ServerStep(v, RealServers[1]) /\ T(v)[2] = ServerStep(v, RealServers[2])
  <2> DEFINE f == ServerStep(v, RealServers[1])
             g == ServerStep(v, RealServers[2])
  <2> HIDE DEF f, g
  <2>1. <<f, g>> \in Seq({f, g}) /\ Len(<<f, g>>) = 2 /\ <<f, g>>[1] = f /\ <<f, g>>[2] = g
    OBVIOUS
  <2>2. IsList(<<f, g>>)
    BY <2>1 DEF IsList
  <2> QED
    BY <2>1, <2>2 DEF f, g
<1>3. IsList(a) /\ Len(a) = 1 /\ a[1] = Acquire
  BY AcquireStep
<1> HIDE DEF T, a
<1>4. /\ IsList(b)
      /\ Len(b) = 3 /\ b[1] = a[1] /\ b[2] = T(Services[1])[1] /\ b[3] = T(Services[1])[2]
  <2>0. Follows(a, T(Services[1]), b)
    BY <1>2, <1>3, Joined
  <2> HIDE DEF b
  <2>1. /\ IsList(b) /\ Len(b) = Len(a) + Len(T(Services[1]))
        /\ \A i \in 1 .. Len(a) : b[i] = a[i]
        /\ \A i \in 1 .. Len(T(Services[1])) : b[Len(a) + i] = T(Services[1])[i]
    BY <2>0 DEF Follows
  <2>2. b[1] = a[1] /\ b[1 + 1] = T(Services[1])[1] /\ b[1 + 2] = T(Services[1])[2]
    BY <1>2, <1>3, <2>1
  <2> QED
    BY <1>2, <1>3, <2>1, <2>2
<1> HIDE DEF b
<1>5. /\ IsList(c)
      /\ Len(c) = 5 /\ c[1] = b[1] /\ c[2] = b[2] /\ c[3] = b[3]
      /\ c[4] = T(Services[2])[1] /\ c[5] = T(Services[2])[2]
  <2>0. Follows(b, T(Services[2]), c)
    BY <1>2, <1>4, Joined
  <2> HIDE DEF c
  <2>1. /\ IsList(c) /\ Len(c) = Len(b) + Len(T(Services[2]))
        /\ \A i \in 1 .. Len(b) : c[i] = b[i]
        /\ \A i \in 1 .. Len(T(Services[2])) : c[Len(b) + i] = T(Services[2])[i]
    BY <2>0 DEF Follows
  <2>2. c[3 + 1] = T(Services[2])[1] /\ c[3 + 2] = T(Services[2])[2]
    BY <1>2, <1>4, <2>1
  <2>3. Len(c) = 5 /\ c[1] = b[1] /\ c[2] = b[2] /\ c[3] = b[3]
    <3>1. Len(b) = 3 /\ Len(T(Services[2])) = 2
      BY <1>2, <1>4
    <3>2. Len(c) = 5
      BY <2>1, <3>1
    <3>3. \A i \in 1 .. 3 : c[i] = b[i]
      BY <2>1, <3>1
    <3> QED
      BY <3>2, <3>3
  <2>4. c[4] = T(Services[2])[1] /\ c[5] = T(Services[2])[2]
    BY <2>2
  <2>5. IsList(c)
    BY <2>1
  <2> QED
    BY <2>3, <2>4, <2>5
<1> HIDE DEF c
<1>6. /\ IsList(d)
      /\ Len(d) = 7 /\ d[1] = c[1] /\ d[2] = c[2] /\ d[3] = c[3] /\ d[4] = c[4] /\ d[5] = c[5]
      /\ d[6] = T(Services[3])[1] /\ d[7] = T(Services[3])[2]
  <2>0. Follows(c, T(Services[3]), d)
    BY <1>2, <1>5, Joined
  <2> HIDE DEF d
  <2>1. /\ IsList(d) /\ Len(d) = Len(c) + Len(T(Services[3]))
        /\ \A i \in 1 .. Len(c) : d[i] = c[i]
        /\ \A i \in 1 .. Len(T(Services[3])) : d[Len(c) + i] = T(Services[3])[i]
    BY <2>0 DEF Follows
  <2>2. d[5 + 1] = T(Services[3])[1] /\ d[5 + 2] = T(Services[3])[2]
    BY <1>2, <1>5, <2>1
  <2>3. /\ Len(d) = 7 /\ d[1] = c[1] /\ d[2] = c[2] /\ d[3] = c[3] /\ d[4] = c[4]
        /\ d[5] = c[5]
    <3>1. Len(c) = 5 /\ Len(T(Services[3])) = 2
      BY <1>2, <1>5
    <3>2. Len(d) = 7
      BY <2>1, <3>1
    <3>3. \A i \in 1 .. 5 : d[i] = c[i]
      BY <2>1, <3>1
    <3> QED
      BY <3>2, <3>3
  <2>4. d[6] = T(Services[3])[1] /\ d[7] = T(Services[3])[2]
    BY <2>2
  <2>5. IsList(d)
    BY <2>1
  <2> QED
    BY <2>3, <2>4, <2>5
<1> HIDE DEF d
<1> QED
  BY <1>1, <1>2, <1>3, <1>4, <1>5, <1>6

LEMMA LbSteps ==
  /\ Len(LB_init) = 18
  /\ LB_init[1] = Build(RssPipe(0), "note")
  /\ LB_init[2] = Entry(RssPipe(0), NULL, NULL, "note")
  /\ LB_init[3] = Build(DownstreamPipe("TCP"), "note")
  /\ LB_init[4] = Build(DownstreamPipe("UDP"), "note")
  /\ LB_init[5] = Verify
  /\ LB_init[6] = Acquire
  /\ LB_init[7] = Build(RssPipe(1), "ignore")
  /\ LB_init[8] = Entry(RssPipe(1), NULL, NULL, "ignore")
  /\ LB_init[9] = Build(ConnPipe("UDP", 1), "return")
  /\ LB_init[10] = Build(ConnPipe("TCP", 1), "return")
  /\ LB_init[11] = Enable(1)
  /\ LB_init[12] = Acquire
  /\ LB_init[13] = ServerStep(Services[1], RealServers[1])
  /\ LB_init[14] = ServerStep(Services[1], RealServers[2])
  /\ LB_init[15] = ServerStep(Services[2], RealServers[1])
  /\ LB_init[16] = ServerStep(Services[2], RealServers[2])
  /\ LB_init[17] = ServerStep(Services[3], RealServers[1])
  /\ LB_init[18] = ServerStep(Services[3], RealServers[2])
<1> DEFINE a == <<Build(RssPipe(0), "note"), Entry(RssPipe(0), NULL, NULL, "note"),
                  Build(DownstreamPipe("TCP"), "note"), Build(DownstreamPipe("UDP"), "note"),
                  Verify>>
           P == ConntrackInitPort(1)
           L == LB_load_params
           b == a \o <<Acquire>>
           c == b \o P
           d == c \o L
<1>1. LB_init = d
  BY DEF LB_init, ConntrackInitEnv
<1>2. /\ a \in Seq({a[k] : k \in 1 .. 5}) /\ Len(a) = 5
      /\ a[1] = Build(RssPipe(0), "note") /\ a[2] = Entry(RssPipe(0), NULL, NULL, "note")
      /\ a[3] = Build(DownstreamPipe("TCP"), "note") /\ a[4] = Build(DownstreamPipe("UDP"), "note")
      /\ a[5] = Verify
  OBVIOUS
<1> HIDE DEF a
<1>3. IsList(a)
  BY <1>2 DEF IsList
<1>4. /\ IsList(P)
      /\ Len(P) = 5
      /\ P[1] = Build(RssPipe(1), "ignore") /\ P[2] = Entry(RssPipe(1), NULL, NULL, "ignore")
      /\ P[3] = Build(ConnPipe("UDP", 1), "return") /\ P[4] = Build(ConnPipe("TCP", 1), "return")
      /\ P[5] = Enable(1)
  BY ConntrackSteps
<1>5. IsList(L) /\ Len(L) = 7
  BY LoadSteps
<1> HIDE DEF P, L
<1>6. /\ IsList(b)
      /\ Len(b) = 6 /\ b[6] = Acquire
      /\ \A i \in 1 .. 5 : b[i] = a[i]
  <2>0. Follows(a, <<Acquire>>, b)
    BY <1>3, AcquireStep, Joined
  <2> HIDE DEF b
  <2>1. /\ IsList(b) /\ Len(b) = Len(a) + Len(<<Acquire>>)
        /\ \A i \in 1 .. Len(a) : b[i] = a[i]
        /\ \A i \in 1 .. Len(<<Acquire>>) : b[Len(a) + i] = <<Acquire>>[i]
    BY <2>0 DEF Follows
  <2>2. b[5 + 1] = Acquire
    BY <1>2, <2>1, AcquireStep
  <2> QED
    BY <1>2, <2>1, <2>2, AcquireStep
<1> HIDE DEF b
<1>7. /\ IsList(c)
      /\ Len(c) = 11
      /\ \A i \in 1 .. 6 : c[i] = b[i]
      /\ c[7] = P[1] /\ c[8] = P[2] /\ c[9] = P[3] /\ c[10] = P[4] /\ c[11] = P[5]
  <2>0. Follows(b, P, c)
    BY <1>4, <1>6, Joined
  <2> HIDE DEF c
  <2>1. /\ IsList(c) /\ Len(c) = Len(b) + Len(P)
        /\ \A i \in 1 .. Len(b) : c[i] = b[i]
        /\ \A i \in 1 .. Len(P) : c[Len(b) + i] = P[i]
    BY <2>0 DEF Follows
  <2>2. c[6 + 1] = P[1] /\ c[6 + 2] = P[2] /\ c[6 + 3] = P[3] /\ c[6 + 4] = P[4] /\ c[6 + 5] = P[5]
    BY <1>4, <1>6, <2>1
  <2> QED
    BY <1>4, <1>6, <2>1, <2>2
<1> HIDE DEF c
<1>8. /\ Len(d) = 18
      /\ \A i \in 1 .. 11 : d[i] = c[i]
      /\ d[12] = L[1] /\ d[13] = L[2] /\ d[14] = L[3] /\ d[15] = L[4] /\ d[16] = L[5]
      /\ d[17] = L[6] /\ d[18] = L[7]
  <2>0. Follows(c, L, d)
    BY <1>5, <1>7, Joined
  <2> HIDE DEF d
  <2>1. /\ IsList(d) /\ Len(d) = Len(c) + Len(L)
        /\ \A i \in 1 .. Len(c) : d[i] = c[i]
        /\ \A i \in 1 .. Len(L) : d[Len(c) + i] = L[i]
    BY <2>0 DEF Follows
  <2>2. /\ d[11 + 1] = L[1] /\ d[11 + 2] = L[2] /\ d[11 + 3] = L[3] /\ d[11 + 4] = L[4]
        /\ d[11 + 5] = L[5] /\ d[11 + 6] = L[6] /\ d[11 + 7] = L[7]
    BY <1>5, <1>7, <2>1
  <2> QED
    BY <1>5, <1>7, <2>1, <2>2
<1> HIDE DEF d
<1>9. /\ d[1] = a[1] /\ d[2] = a[2] /\ d[3] = a[3] /\ d[4] = a[4] /\ d[5] = a[5] /\ d[6] = Acquire
      /\ d[7] = P[1] /\ d[8] = P[2] /\ d[9] = P[3] /\ d[10] = P[4] /\ d[11] = P[5]
  BY <1>6, <1>7, <1>8
<1>10. /\ L[1] = Acquire
       /\ L[2] = ServerStep(Services[1], RealServers[1])
       /\ L[3] = ServerStep(Services[1], RealServers[2])
       /\ L[4] = ServerStep(Services[2], RealServers[1])
       /\ L[5] = ServerStep(Services[2], RealServers[2])
       /\ L[6] = ServerStep(Services[3], RealServers[1])
       /\ L[7] = ServerStep(Services[3], RealServers[2])
  BY LoadSteps DEF L
<1> QED
  BY <1>1, <1>2, <1>4, <1>8, <1>9, <1>10

LEMMA ArSteps ==
  /\ Len(AdaptiveMain) = 11
  /\ AdaptiveMain[1] = Acquire
  /\ AdaptiveMain[2] = Build(RssPipe(0), "ignore")
  /\ AdaptiveMain[3] = Entry(RssPipe(0), NULL, NULL, "ignore")
  /\ AdaptiveMain[4] = Build(ConnPipe("UDP", 0), "return")
  /\ AdaptiveMain[5] = Build(ConnPipe("TCP", 0), "return")
  /\ AdaptiveMain[6] = Enable(0)
  /\ AdaptiveMain[7] = Build(FwdPipe, "exit")
  /\ AdaptiveMain[8] = Entry(FwdPipe, NULL, NULL, "exit")
  /\ AdaptiveMain[9] = Build(ProbePipe, "exit")
  /\ AdaptiveMain[10] = Entry(ProbePipe, [dst_ip |-> "host", dst_port |-> 4788], NULL, "exit")
  /\ AdaptiveMain[11] = Acquire
<1> DEFINE m == [dst_ip |-> "host", dst_port |-> 4788]
           a == <<Acquire>>
           P == ConntrackInitPort(0)
           L == <<Build(FwdPipe, "exit"), Entry(FwdPipe, NULL, NULL, "exit"),
                  Build(ProbePipe, "exit"), Entry(ProbePipe, m, NULL, "exit"), Acquire>>
           b == a \o P
           c == b \o L
<1>1. AdaptiveMain = c
  BY DEF AdaptiveMain, ConntrackInitEnv
<1> HIDE DEF m
<1>2. /\ L \in Seq({L[k] : k \in 1 .. 5}) /\ Len(L) = 5
      /\ L[1] = Build(FwdPipe, "exit") /\ L[2] = Entry(FwdPipe, NULL, NULL, "exit")
      /\ L[3] = Build(ProbePipe, "exit") /\ L[4] = Entry(ProbePipe, m, NULL, "exit")
      /\ L[5] = Acquire
  OBVIOUS
<1> HIDE DEF L
<1>3. IsList(L)
  BY <1>2 DEF IsList
<1>4. /\ IsList(P)
      /\ Len(P) = 5
      /\ P[1] = Build(RssPipe(0), "ignore") /\ P[2] = Entry(RssPipe(0), NULL, NULL, "ignore")
      /\ P[3] = Build(ConnPipe("UDP", 0), "return") /\ P[4] = Build(ConnPipe("TCP", 0), "return")
      /\ P[5] = Enable(0)
  BY ConntrackSteps
<1>5. IsList(a) /\ Len(a) = 1 /\ a[1] = Acquire
  BY AcquireStep
<1> HIDE DEF P, a
<1>6. /\ IsList(b)
      /\ Len(b) = 6 /\ b[1] = Acquire
      /\ b[2] = P[1] /\ b[3] = P[2] /\ b[4] = P[3] /\ b[5] = P[4] /\ b[6] = P[5]
  <2>0. Follows(a, P, b)
    BY <1>4, <1>5, Joined
  <2> HIDE DEF b
  <2>1. /\ IsList(b) /\ Len(b) = Len(a) + Len(P)
        /\ \A i \in 1 .. Len(a) : b[i] = a[i]
        /\ \A i \in 1 .. Len(P) : b[Len(a) + i] = P[i]
    BY <2>0 DEF Follows
  <2>2. /\ b[1] = Acquire /\ b[1 + 1] = P[1] /\ b[1 + 2] = P[2] /\ b[1 + 3] = P[3]
        /\ b[1 + 4] = P[4] /\ b[1 + 5] = P[5]
    BY <1>4, <1>5, <2>1
  <2> QED
    BY <1>4, <1>5, <2>1, <2>2
<1> HIDE DEF b
<1>7. /\ Len(c) = 11
      /\ c[1] = b[1] /\ c[2] = b[2] /\ c[3] = b[3] /\ c[4] = b[4] /\ c[5] = b[5] /\ c[6] = b[6]
      /\ c[7] = L[1] /\ c[8] = L[2] /\ c[9] = L[3] /\ c[10] = L[4] /\ c[11] = L[5]
  <2>0. Follows(b, L, c)
    BY <1>3, <1>6, Joined
  <2> HIDE DEF c
  <2>1. /\ IsList(c) /\ Len(c) = Len(b) + Len(L)
        /\ \A i \in 1 .. Len(b) : c[i] = b[i]
        /\ \A i \in 1 .. Len(L) : c[Len(b) + i] = L[i]
    BY <2>0 DEF Follows
  <2>2. c[6 + 1] = L[1] /\ c[6 + 2] = L[2] /\ c[6 + 3] = L[3] /\ c[6 + 4] = L[4] /\ c[6 + 5] = L[5]
    BY <1>2, <1>6, <2>1
  <2> QED
    BY <1>2, <1>6, <2>1, <2>2
<1> HIDE DEF c
<1> QED
  BY <1>1, <1>2, <1>4, <1>6, <1>7 DEF m

-----------------------------------------------------------------------------
(* The steps of the invariant of the programs that serve.                   *)

(* LB_init notes the results of its first four steps and tests them in the  *)
(* fifth.                                                                   *)
LEMMA LbNotes ==
  ASSUME app = "lb"
  PROVE  /\ Steps = LB_init
         /\ \A k \in 1 .. 18 :
              /\ k <= 4 => Steps[k].op \in {"build", "entry"} /\ Steps[k].fail = "note"
              /\ k = 5 => Steps[k].op = "verify"
              /\ k > 5 /\ Steps[k].op \in {"build", "entry"} => Steps[k].fail # "note"
              /\ Steps[k].op = "enable" => k = 11
<1>1. Steps = LB_init
  BY DEF Steps
<1>2. \A v, r : ServerStep(v, r).op = "entry" /\ ServerStep(v, r).fail = "exit"
  BY DEF ServerStep, Entry
<1>3. /\ \A i, f : Build(i, f).op = "build" /\ Build(i, f).fail = f
      /\ \A i, e, a, f : Entry(i, e, a, f).op = "entry" /\ Entry(i, e, a, f).fail = f
      /\ Verify.op = "verify" /\ Acquire.op = "acquire" /\ \A p : Enable(p).op = "enable"
  BY DEF Build, Entry, Verify, Acquire, Enable
<1>4. \A k \in {1, 2, 3, 4} : LB_init[k].op \in {"build", "entry"} /\ LB_init[k].fail = "note"
  BY LbSteps, <1>3
<1>5. LB_init[5].op = "verify" /\ LB_init[6].op = "acquire" /\ LB_init[11].op = "enable"
      /\ LB_init[12].op = "acquire"
  BY LbSteps, <1>3
<1>6. \A k \in {7, 8, 9, 10} :
        LB_init[k].op \in {"build", "entry"} /\ LB_init[k].fail \in {"ignore", "return"}
  BY LbSteps, <1>3
<1>7. \A k \in {13, 14, 15, 16, 17, 18} : LB_init[k].op = "entry" /\ LB_init[k].fail = "exit"
  BY LbSteps, <1>2
<1>8. ASSUME NEW k \in 1 .. 18
      PROVE  /\ k <= 4 => LB_init[k].op \in {"build", "entry"} /\ LB_init[k].fail = "note"
             /\ k = 5 => LB_init[k].op = "verify"
             /\ k > 5 /\ LB_init[k].op \in {"build", "entry"} => LB_init[k].fail # "note"
             /\ LB_init[k].op = "enable" => k = 11
  <2>1. CASE k \in {1, 2, 3, 4}
    BY <1>4, <2>1
  <2>2. CASE k \in {5, 6, 11, 12}
    BY <1>5, <2>2
  <2>3. CASE k \in {7, 8, 9, 10}
    BY <1>6, <2>3
  <2>4. CASE k \in {13, 14, 15, 16, 17, 18}
    BY <1>7, <2>4
  <2> QED
    BY <2>1, <2>2, <2>3, <2>4
<1> QED
  BY <1>1, <1>8

(* All steps of the program.                                                *)
LEMMA KnownSteps ==
  ASSUME app \in Apps
  PROVE  /\ Len(Steps) \in Nat
         /\ \A k \in 1 .. Len(Steps) :
              /\ Known(Steps[k], Answers \cup {"note"}) /\ Placed(Steps, k)
              /\ Steps[k].op \in {"build", "entry"} =>
                   /\ Steps[k].pipe \in AllPipes /\ Steps[k].pipe \in PipeIds
                   /\ PipeOf(Steps[k].pipe) # NULL /\ PortOf(Steps[k].pipe) \in Ports
              /\ Steps[k].op = "entry" =>
                   EntryOf(Steps[k]) # NULL /\ Steps[k].fail # "return" /\ Steps[k].pipe \notin LaterIds
<1>1. StepList(Steps, Answers \cup {"note"})
  BY AllSteps
<1>2. Len(Steps) \in Nat /\ DOMAIN Steps = 1 .. Len(Steps)
  BY <1>1 DEF StepList, IsList
<1>3. \A k \in 1 .. Len(Steps) : Known(Steps[k], Answers \cup {"note"}) /\ Placed(Steps, k)
  BY <1>1 DEF StepList
<1>4. AllPipes \subseteq PipeIds /\ \A i \in AllPipes : PipeOf(i) # NULL
  BY MainsAssumption
<1>5. \A k \in 1 .. Len(Steps) : Steps[k].op \in {"build", "entry"} =>
        /\ Steps[k].pipe \in AllPipes /\ Steps[k].pipe \in PipeIds
        /\ PipeOf(Steps[k].pipe) # NULL /\ PortOf(Steps[k].pipe) \in Ports
  BY <1>3, <1>4 DEF Known
<1>6. Steps \in {FirewallMain, LB_init, InitSnat, AdaptiveMain, EcmpMain, SprayMain}
  BY StartupAssumption DEF Steps, Programs
<1>7. \A k \in 1 .. Len(Steps) : Steps[k].op = "entry" => EntryOf(Steps[k]) # NULL
  BY <1>2, <1>6, MainsAssumption DEF EntryOf
<1>8. \A k \in 1 .. Len(Steps) : Steps[k].op = "entry" =>
        Steps[k].fail # "return" /\ Steps[k].pipe \notin LaterIds
  BY <1>3 DEF Known
<1> QED
  BY <1>2, <1>3, <1>5, <1>7, <1>8

(* A later failure makes more steps late.                                   *)
LEMMA LateKept ==
  ASSUME NEW s, NEW nt, NEW op, NEW nt2, NEW op2, nt => nt2, op2 => op
  PROVE  /\ \A k : Late(s, k, nt, op) => Late(s, k, nt2, op2)
         /\ \A k : Clear(s, k, nt2, op2) => Clear(s, k, nt, op)
<1>1. \A k : Late(s, k, nt, op) => Late(s, k, nt2, op2)
  BY DEF Late
<1> QED
  BY <1>1 DEF Clear

(* What has been built and installed stays, and a program that has ended    *)
(* does not go on.                                                          *)
Grows ==
  /\ app' = app
  /\ at' \in Nat /\ at <= at'
  /\ noted => noted'
  /\ open' => open
  /\ Live(pc') => Live(pc)
  /\ \A i \in AllPipes : pipes[i] = PipeOf(i) => pipes'[i] = PipeOf(i)
  /\ \A g \in Handles : hw[g] # NULL => hw'[g] = hw[g]
  /\ \A g \in Handles : Reported(hw, pending, g) => Reported(hw', pending', g)

LEMMA ProgressKept ==
  ASSUME ServeInv, Progress, Grows
  PROVE  /\ Steps' = Steps
         /\ \A k \in 1 .. Len(Steps) : k < at =>
              /\ Steps[k].op = "build" => BuiltStep(Steps, k, at', pc', noted', pipes')
              /\ Steps[k].op = "entry" =>
                   PutStep(Steps, k, pc', noted', open', pipes', hw', pending')
         /\ \A k : Late(Steps, k, noted, open) => Late(Steps, k, noted', open')
         /\ Opened(Steps, at', app', enabled, pipes')
<1>1. Steps' = Steps
  BY DEF Grows, Steps
<1>2. /\ app \in Apps /\ at \in Nat /\ at' \in Nat /\ at <= at' /\ enabled \subseteq Ports
      /\ noted => noted'
      /\ open' => open
      /\ Live(pc') => Live(pc)
  <2>1. app \in Apps /\ at \in 1 .. Len(Steps) + 1 /\ enabled \subseteq Ports
    BY DEF ServeInv, MainTypeOK
  <2>2. Len(Steps) \in Nat
    BY <2>1, KnownSteps
  <2> QED
    BY <2>1, <2>2 DEF Grows
<1>3. /\ \A k : Late(Steps, k, noted, open) => Late(Steps, k, noted', open')
      /\ \A k : Clear(Steps, k, noted', open') => Clear(Steps, k, noted, open)
  BY <1>2, LateKept
<1>4. ASSUME NEW k \in 1 .. Len(Steps), k < at, Steps[k].op = "build"
      PROVE  BuiltStep(Steps, k, at', pc', noted', pipes')
  <2>1. BuiltStep(Steps, k, at, pc, noted, pipes)
    BY <1>4 DEF Progress
  <2>2. pipes[Steps[k].pipe] = PipeOf(Steps[k].pipe) => pipes'[Steps[k].pipe] = PipeOf(Steps[k].pipe)
    BY <1>2, <1>4, KnownSteps DEF Grows
  <2>3. \A l \in k .. Len(Steps) : l < at => l < at'
    BY <1>2, KnownSteps
  <2>4. Steps[k].fail = "exit" /\ Live(pc') => pipes'[Steps[k].pipe] = PipeOf(Steps[k].pipe)
    BY <1>2, <2>1, <2>2 DEF BuiltStep
  <2>5. Steps[k].fail = "note" /\ ~noted' => pipes'[Steps[k].pipe] = PipeOf(Steps[k].pipe)
    BY <1>2, <2>1, <2>2 DEF BuiltStep
  <2>6. Steps[k].fail = "return" =>
          \/ pipes'[Steps[k].pipe] = PipeOf(Steps[k].pipe)
          \/ \E l \in k .. Len(Steps) : l < at' /\ Steps[l].op = "enable"
    BY <2>1, <2>2, <2>3 DEF BuiltStep
  <2> QED
    BY <2>4, <2>5, <2>6 DEF BuiltStep
<1>5. ASSUME NEW k \in 1 .. Len(Steps), k < at, Steps[k].op = "entry"
      PROVE  PutStep(Steps, k, pc', noted', open', pipes', hw', pending')
  <2>1. PutStep(Steps, k, pc, noted, open, pipes, hw, pending)
    BY <1>5 DEF Progress
  <2>2. pipes'[Steps[k].pipe] = PipeOf(Steps[k].pipe)
    BY <1>2, <1>5, <2>1, KnownSteps DEF Grows, PutStep
  <2>3. ASSUME Clear(Steps, k, noted', open'), Steps[k].fail = "exit" => Live(pc')
        PROVE  \E h \in Handles : hw'[h] = EntryOf(Steps[k]) /\ Reported(hw', pending', h)
    <3>1. PICK h \in Handles : hw[h] = EntryOf(Steps[k]) /\ Reported(hw, pending, h)
      BY <1>2, <1>3, <2>1, <2>3 DEF PutStep
    <3>2. hw[h] # NULL
      BY <3>1 DEF Reported
    <3>3. hw'[h] = EntryOf(Steps[k]) /\ Reported(hw', pending', h)
      BY <3>1, <3>2 DEF Grows
    <3> QED
      BY <3>3
  <2> QED
    BY <2>2, <2>3 DEF PutStep
<1>6. Opened(Steps, at', app', enabled, pipes')
  <2> SUFFICES ASSUME NEW p \in enabled
               PROVE  /\ \A x \in Protocols : pipes'[ConnPipe(x, p)] = PipeOf(ConnPipe(x, p))
                      /\ \E k \in 1 .. Len(Steps) :
                           /\ k < at' /\ (app = "lb" => k > 5)
                           /\ Steps[k] = Entry(RssPipe(p), NULL, NULL, "ignore")
    BY DEF Opened, Grows
  <2>1. /\ \A x \in Protocols : pipes[ConnPipe(x, p)] = PipeOf(ConnPipe(x, p))
        /\ \E k \in 1 .. Len(Steps) : /\ k < at /\ (app = "lb" => k > 5)
                                      /\ Steps[k] = Entry(RssPipe(p), NULL, NULL, "ignore")
    BY DEF Progress, Opened
  <2>2. \A x \in Protocols : ConnPipe(x, p) \in AllPipes
    BY <1>2, PipesKnown
  <2>3. \A k \in 1 .. Len(Steps) : k < at => k < at'
    BY <1>2, KnownSteps
  <2> QED
    BY <2>1, <2>2, <2>3 DEF Grows
<1> QED
  BY <1>1, <1>3, <1>4, <1>5, <1>6

(* A step that only adds to what was built and installed, and the steps of  *)
(* main from at to at' - 1 that it takes.                                   *)
LEMMA ProgressOn ==
  ASSUME ServeInv, Progress, Grows, FromMain(Steps, hw'),
         Live(pc') => Waits(Steps, at', noted', open', pending'),
         \A k \in 1 .. Len(Steps) : at <= k /\ k < at' =>
           /\ Steps[k].op = "build" => BuiltStep(Steps, k, at', pc', noted', pipes')
           /\ Steps[k].op = "entry" =>
                PutStep(Steps, k, pc', noted', open', pipes', hw', pending'),
         Opened(Steps, at', app', enabled' \ enabled, pipes')
  PROVE  Progress'
<1>1. /\ Steps' = Steps
      /\ \A k \in 1 .. Len(Steps) : k < at =>
           /\ Steps[k].op = "build" => BuiltStep(Steps, k, at', pc', noted', pipes')
           /\ Steps[k].op = "entry" =>
                PutStep(Steps, k, pc', noted', open', pipes', hw', pending')
      /\ Opened(Steps, at', app', enabled, pipes')
  BY ProgressKept
<1>2. at \in Nat /\ \A k \in 1 .. Len(Steps) : k < at \/ at <= k
  <2>1. app \in Apps /\ at \in 1 .. Len(Steps) + 1
    BY DEF ServeInv, MainTypeOK
  <2>2. Len(Steps) \in Nat
    BY <2>1, KnownSteps
  <2> QED
    BY <2>1, <2>2
<1>3. \A k \in 1 .. Len(Steps) : k < at' =>
        /\ Steps[k].op = "build" => BuiltStep(Steps, k, at', pc', noted', pipes')
        /\ Steps[k].op = "entry" => PutStep(Steps, k, pc', noted', open', pipes', hw', pending')
  BY <1>1, <1>2
<1>4. Opened(Steps, at', app', enabled', pipes')
  BY <1>1 DEF Opened
<1> QED
  BY <1>1, <1>3, <1>4 DEF Progress

LEMMA NoHandles == 0 <= Cardinality(Handles)
<1>1. Cardinality(Handles) \in Nat
  BY PipeAssumption, FS_CardinalityType
<1> QED
  BY <1>1

LEMMA ServeInit == Init => ServeInv
<1> SUFFICES ASSUME Init PROVE ServeInv
  OBVIOUS
<1>1. /\ pc = "argp" /\ app \in Apps /\ at = 1 /\ noted = FALSE /\ enabled = {} /\ open = TRUE
      /\ pipes = [i \in PipeIds |-> NULL] /\ hw = [h \in Handles |-> NULL]
      /\ pending = [p \in Ports |-> <<>>]
  BY DEF Init, EnvInit, PipeInit, MainInit
<1>2. Len(Steps) \in Nat
  BY <1>1, KnownSteps
<1>3. <<>> \in Seq(Handles) /\ Len(<<>>) = 0
  OBVIOUS
<1>4. MainTypeOK
  <2>1. app \in Apps /\ at \in 1 .. Len(Steps) + 1 /\ noted \in BOOLEAN /\ open \in BOOLEAN
        /\ enabled \subseteq Ports
    BY <1>1, <1>2
  <2>2. \A i \in PipeIds : pipes[i] \in {NULL, PipeOf(i)}
    BY <1>1
  <2>3. \A h \in Handles : hw[h] = NULL
    BY <1>1
  <2>4. \A p \in Ports : Len(pending[p]) <= Cardinality(Handles)
    BY <1>1, <1>3, NoHandles
  <2> QED
    BY <2>1, <2>2, <2>3, <2>4 DEF MainTypeOK
<1>5. Queues
  <2>1. \A p \in Ports : pending[p] = <<>>
    BY <1>1
  <2>2. \A p : Queue(<<>>, hw, p)
    BY <1>3 DEF Queue
  <2> QED
    BY <2>1, <2>2 DEF Queues
<1>6. Progress
  <2>1. FromMain(Steps, hw)
    BY <1>1 DEF FromMain
  <2>2. Waits(Steps, at, noted, open, pending)
    BY <1>1 DEF Waits
  <2>3. \A k \in 1 .. Len(Steps) : ~(k < at)
    BY <1>1, <1>2
  <2>4. Opened(Steps, at, app, enabled, pipes)
    BY <1>1 DEF Opened
  <2> QED
    BY <2>1, <2>2, <2>3, <2>4 DEF Progress
<1> QED
  BY <1>1, <1>4, <1>5, <1>6 DEF ServeInv

(* A step that neither builds nor installs.                                 *)
LEMMA ServeMove ==
  ASSUME ServeInv, UNCHANGED <<pipes, hw, pending, app, noted, open>>,
         Live(pc') => Live(pc), pc' = "running" => at' > Len(Steps),
         at' \in at .. Len(Steps) + 1, noted => at' = at,
         \A k \in 1 .. Len(Steps) : at <= k /\ k < at' => Steps[k].op \notin {"build", "entry"},
         enabled' \subseteq Ports,
         IF app = "firewall" THEN enabled' = {}
         ELSE Opened(Steps, at', app, enabled' \ enabled, pipes)
  PROVE  ServeInv'
<1>1. Steps' = Steps
  BY DEF Steps
<1>2. app \in Apps /\ Len(Steps) \in Nat /\ at \in 1 .. Len(Steps) + 1
  <2>1. app \in Apps /\ at \in 1 .. Len(Steps) + 1
    BY DEF ServeInv, MainTypeOK
  <2> QED
    BY <2>1, KnownSteps
<1>3. at' \in 1 .. Len(Steps) + 1 /\ at <= at' /\ at' \in Nat
  BY <1>2
<1>4. MainTypeOK'
  BY <1>1, <1>3 DEF ServeInv, MainTypeOK
<1>5. Queues'
  BY DEF ServeInv, Queues
<1>6. noted' => app' = "lb" /\ at' <= 5
  BY DEF ServeInv
<1>7. ASSUME app # "firewall" PROVE Progress'
  <2>1. Progress
    BY <1>7 DEF ServeInv
  <2>2. Grows
    BY <1>3 DEF Grows
  <2>3. FromMain(Steps, hw')
    BY <2>1 DEF Progress
  <2>4. ASSUME Live(pc') PROVE Waits(Steps, at', noted', open', pending')
    <3>1. Waits(Steps, at, noted, open, pending)
      BY <2>1, <2>4 DEF Progress
    <3>2. \A k \in 1 .. Len(Steps) : k < at => k < at'
      BY <1>2, <1>3
    <3> QED
      BY <3>1, <3>2 DEF Waits
  <2>5. Opened(Steps, at', app', enabled' \ enabled, pipes')
    BY <1>7
  <2> QED
    BY <2>1, <2>2, <2>3, <2>4, <2>5, ProgressOn
<1>8. (pc' = "running" => at' > Len(Steps')) /\ (app' = "firewall" => enabled' = {})
  BY <1>1
<1> QED
  BY <1>4, <1>5, <1>6, <1>7, <1>8 DEF ServeInv

(* Steps whose failure is noted, and steps taken once one was, are the      *)
(* first four of LB_init.                                                   *)
LEMMA NoteStep ==
  ASSUME Shape, ServeInv, at <= Len(Steps), Step.op \in {"build", "entry"},
         noted \/ Step.fail = "note"
  PROVE  app = "lb" /\ at + 1 <= 5 /\ Step.fail = "note"
<1>1. /\ at \in 1 .. Len(Steps) /\ Len(Steps) \in Nat
      /\ app # "lb" => Known(Step, Answers)
  BY StepFacts
<1>2. app = "lb"
  <2>1. CASE noted
    BY <2>1 DEF ServeInv
  <2>2. CASE Step.fail = "note"
    BY <1>1, <2>2 DEF Known, Answers
  <2> QED
    BY <2>1, <2>2
<1>3. Len(Steps) = 18
  BY <1>2, LbNotes, LbSteps
<1>4. /\ at \in 1 .. 18 /\ at # 5
      /\ at <= 4 => Step.fail = "note"
      /\ at > 5 => Step.fail # "note"
  BY <1>1, <1>2, <1>3, LbNotes DEF Step
<1>5. noted => at <= 5
  BY DEF ServeInv
<1>6. at <= 4
  BY <1>4, <1>5
<1> QED
  BY <1>2, <1>4, <1>6

(* main builds a pipe; or fails to, and goes on or gives up.                *)
LEMMA ServeBuild ==
  ASSUME Shape, ServeInv, MainBuild
  PROVE  ServeInv'
<1> DEFINE i == Step.pipe
<1>1. /\ pc = "main" /\ at <= Len(Steps) /\ Step.op = "build"
      /\ UNCHANGED <<hw, pending, app, enabled, open>>
  BY DEF MainBuild, Doing
<1>2. \/ /\ pipes' = [pipes EXCEPT ![i] = PipeOf(i)]
         /\ at' = at + 1 /\ pc' = pc /\ noted' = noted
      \/ /\ pipes' = pipes /\ pc' = (IF Step.fail = "exit" THEN "exit" ELSE pc)
         /\ at' = IF Step.fail = "return" THEN Return ELSE at + 1
         /\ noted' = (noted \/ Step.fail = "note")
  BY DEF MainBuild, BuildPipe, Succeeded, Failed
<1>3. /\ app \in Apps /\ at \in 1 .. Len(Steps) /\ Len(Steps) \in Nat
      /\ Step = Steps[at] /\ Step.fail \in Answers \cup {"note"}
      /\ i \in AllPipes /\ i \in PipeIds
  <2>1. app \in Apps /\ at \in 1 .. Len(Steps) /\ Len(Steps) \in Nat
        /\ Known(Step, Answers \cup {"note"})
    BY <1>1, StepFacts DEF Shape
  <2>2. i \in AllPipes /\ Step.fail \in Answers \cup {"note"}
    BY <1>1, <2>1 DEF Known
  <2> QED
    BY <2>1, <2>2, MainsAssumption DEF Step
<1>4. Step.fail = "return" =>
        /\ Return \in at + 1 .. Len(Steps) + 1 /\ Steps[Return - 1].op = "enable"
        /\ \A j \in at .. Return - 2 : Steps[j].op = "build" /\ Steps[j].fail = "return"
  BY <1>1, StepFacts
<1>5. at' \in at + 1 .. Len(Steps) + 1
  BY <1>2, <1>3, <1>4
<1>6. /\ at' \in Nat /\ at <= at' /\ at' \in 1 .. Len(Steps) + 1
      /\ noted => noted'
      /\ open' => open
      /\ Live(pc') => Live(pc)
  <2>1. at' \in Nat /\ at <= at' /\ at' \in 1 .. Len(Steps) + 1
    BY <1>3, <1>5
  <2>2. noted => noted'
    BY <1>2, Zenon
  <2>3. (open' => open) /\ Live(pc)
    BY <1>1 DEF Live
  <2> QED
    BY <2>1, <2>2, <2>3
<1>7. pipes = [j \in PipeIds |-> pipes[j]]
  BY DEF Shape
<1> HIDE DEF i
<1>8. /\ \A j \in PipeIds : pipes'[j] = pipes[j] \/ (pipes'[j] = PipeOf(j))
      /\ pipes'[i] # PipeOf(i) =>
           \/ Step.fail = "exit" /\ pc' = "exit"
           \/ Step.fail = "return" /\ at' = Return
           \/ Step.fail = "note" /\ noted'
           \/ Step.fail = "ignore"
  <2>1. CASE /\ pipes' = [pipes EXCEPT ![i] = PipeOf(i)]
             /\ at' = at + 1 /\ pc' = pc /\ noted' = noted
    BY <1>3, <1>7, <2>1
  <2>2. CASE /\ pipes' = pipes /\ pc' = (IF Step.fail = "exit" THEN "exit" ELSE pc)
             /\ at' = IF Step.fail = "return" THEN Return ELSE at + 1
             /\ noted' = (noted \/ Step.fail = "note")
    <3>1. Step.fail = "note" => noted'
      BY <2>2, Zenon
    <3>2. Step.fail = "return" => at' = Return
      BY <2>2
    <3>3. Step.fail = "exit" => pc' = "exit"
      BY <2>2
    <3>4. Step.fail \in {"exit", "ignore", "return", "note"}
      BY <1>3 DEF Answers
    <3> QED
      BY <2>2, <3>1, <3>2, <3>3, <3>4
  <2> QED
    BY <1>2, <2>1, <2>2
<1>9. noted' => app = "lb" /\ at' <= 5
  <2> SUFFICES ASSUME noted' PROVE app = "lb" /\ at' <= 5
    OBVIOUS
  <2>1. noted \/ Step.fail = "note"
    BY <1>2
  <2>2. app = "lb" /\ at + 1 <= 5 /\ Step.fail = "note"
    BY <1>1, <2>1, NoteStep
  <2> QED
    BY <1>2, <2>2
<1>10. noted' \in BOOLEAN
  BY <1>2 DEF ServeInv, MainTypeOK
<1>11. Steps' = Steps
  BY <1>1 DEF Steps
<1>12. MainTypeOK'
  <2>1. \A j \in PipeIds : pipes'[j] \in {NULL, PipeOf(j)}
    BY <1>8 DEF ServeInv, MainTypeOK
  <2> QED
    BY <1>1, <1>6, <1>10, <1>11, <2>1 DEF ServeInv, MainTypeOK
<1>13. Queues'
  BY <1>1 DEF ServeInv, Queues
<1>14. ASSUME app # "firewall" PROVE Progress'
  <2>1. Progress
    BY <1>14 DEF ServeInv
  <2>2. Grows
    <3>1. \A j \in AllPipes : pipes[j] = PipeOf(j) => pipes'[j] = PipeOf(j)
      BY <1>8, MainsAssumption
    <3> QED
      BY <1>1, <1>6, <3>1 DEF Grows
  <2>3. FromMain(Steps, hw')
    BY <1>1, <2>1 DEF Progress
  <2>4. ASSUME Live(pc') PROVE Waits(Steps, at', noted', open', pending')
    <3>1. Waits(Steps, at, noted, open, pending)
      BY <1>6, <2>1, <2>4 DEF Progress
    <3>2. \A k \in 1 .. Len(Steps) : k < at => k < at'
      BY <1>3, <1>6
    <3>3. \A k : Late(Steps, k, noted, open) => Late(Steps, k, noted', open')
      BY <2>1, <2>2, ProgressKept
    <3> QED
      BY <1>1, <3>1, <3>2, <3>3 DEF Waits
  <2>5. ASSUME NEW k \in 1 .. Len(Steps), at <= k, k < at'
        PROVE  /\ Steps[k].op = "build" => BuiltStep(Steps, k, at', pc', noted', pipes')
               /\ Steps[k].op # "entry"
    <3>1. CASE Step.fail = "return" /\ at' = Return
      <4>1. k \in at .. Return - 2 \/ k = Return - 1
        BY <1>3, <1>4, <2>5, <3>1
      <4>2. CASE k = Return - 1
        BY <1>4, <3>1, <4>2
      <4>3. CASE k \in at .. Return - 2
        <5>1. Steps[k].op = "build" /\ Steps[k].fail = "return"
          BY <1>4, <3>1, <4>3
        <5>2. Return - 1 \in k .. Len(Steps) /\ Return - 1 < at' /\ Steps[Return - 1].op = "enable"
          BY <1>3, <1>4, <3>1, <4>3
        <5> QED
          BY <5>1, <5>2 DEF BuiltStep
      <4> QED
        BY <4>1, <4>2, <4>3
    <3>2. CASE ~(Step.fail = "return" /\ at' = Return)
      <4>1. at' = at + 1
        BY <1>2, <3>2
      <4>2. k = at /\ Steps[k] = Step
        BY <1>3, <2>5, <4>1
      <4>3. \/ pipes'[i] = PipeOf(i)
            \/ Step.fail = "exit" /\ pc' = "exit"
            \/ Step.fail = "note" /\ noted'
            \/ Step.fail = "ignore"
        BY <1>8, <3>2
      <4>4. BuiltStep(Steps, k, at', pc', noted', pipes')
        BY <4>2, <4>3 DEF BuiltStep, Live, i
      <4> QED
        BY <1>1, <4>2, <4>4
    <3> QED
      BY <3>1, <3>2
  <2>6. Opened(Steps, at', app', enabled' \ enabled, pipes')
    BY <1>1 DEF Opened
  <2> QED
    BY <2>1, <2>2, <2>3, <2>4, <2>5, <2>6, ProgressOn
<1>15. pc' # "running"
  BY <1>1, <1>2
<1> QED
  BY <1>1, <1>9, <1>12, <1>13, <1>14, <1>15 DEF ServeInv

(* main installs an entry; or the entry is refused or reported late, and    *)
(* main goes on or gives up.                                                *)
LEMMA ServeEntry ==
  ASSUME Shape, ServeInv, MainEntry
  PROVE  ServeInv'
<1> DEFINE i == Step.pipe
           q == PortOf(Step.pipe)
           r == EntryOf(Step)
<1>1. /\ pc = "main" /\ at <= Len(Steps) /\ Step.op = "entry" /\ pipes[i] # NULL
      /\ UNCHANGED <<pipes, app, enabled>>
  BY DEF MainEntry, Doing
<1>2. PICK h \in Handles \cup {NULL}, done \in 0 .. Cardinality(Handles) :
        /\ AddEntry(Step.pipe, Step.match, Step.action, h, done)
        /\ IF AddEntryResult(h, done) THEN Succeeded /\ UNCHANGED open
           ELSE Failed(Step.fail) /\ open' = (open /\ Step.fail # "ignore")
  BY DEF MainEntry
<1>3. /\ app \in Apps /\ at \in 1 .. Len(Steps) /\ Len(Steps) \in Nat /\ Step = Steps[at]
      /\ i \in AllPipes /\ i \in PipeIds /\ q \in Ports /\ r # NULL
      /\ Step.fail \in {"exit", "ignore", "note"}
  <2>1. /\ app \in Apps /\ at \in 1 .. Len(Steps) /\ Len(Steps) \in Nat /\ Step = Steps[at]
        /\ Known(Step, Answers \cup {"note"})
    BY <1>1, StepFacts DEF Shape, Step
  <2>2. i \in AllPipes /\ i \in PipeIds /\ q \in Ports /\ r # NULL
    BY <1>1, <2>1, KnownSteps
  <2>3. Step.fail \in Answers \cup {"note"} /\ Step.fail # "return"
    BY <1>1, <2>1 DEF Known
  <2> QED
    BY <2>1, <2>2, <2>3 DEF Answers
<1>4. pipes[i] = PipeOf(i)
  BY <1>1, <1>3 DEF ServeInv, MainTypeOK
<1>5. /\ Queues'
      /\ \A g \in Handles : hw[g] # NULL => hw'[g] = hw[g]
      /\ \A g \in Handles : hw[g] = NULL => hw'[g] \in {NULL, r}
      /\ \A g \in Handles : Reported(hw, pending, g) => Reported(hw', pending', g)
      /\ \A p \in Ports : p # q => pending'[p] = pending[p]
      /\ pending[q] = <<>> /\ (h = NULL \/ AddEntryResult(h, done)) => pending'[q] = <<>>
      /\ AddEntryResult(h, done) =>
           /\ h \in Handles /\ hw'[h] = r
           /\ pending[q] = <<>> => Reported(hw', pending', h)
  <2>1. Queues /\ r = [pipe |-> Step.pipe, match |-> Step.match, action |-> Step.action]
    BY DEF ServeInv, EntryOf
  <2> QED
    BY <1>2, <1>3, <1>4, <2>1, EntryAdded
<1>6. r.pipe = i
  BY DEF EntryOf
<1> HIDE DEF i, q, r
<1>7. /\ at' = at + 1 /\ pc' \in {"main", "exit"}
      /\ noted' \in BOOLEAN /\ open' \in BOOLEAN
      /\ noted => noted'
      /\ open' => open
      /\ noted' => noted \/ Step.fail = "note"
      /\ \/ AddEntryResult(h, done)
         \/ Step.fail = "exit" /\ pc' = "exit"
         \/ Step.fail = "note" /\ noted'
         \/ Step.fail = "ignore" /\ ~open'
  <2>1. noted \in BOOLEAN /\ open \in BOOLEAN
    BY DEF ServeInv, MainTypeOK
  <2>2. CASE AddEntryResult(h, done)
    <3>1. at' = at + 1 /\ pc' = pc /\ noted' = noted /\ open' = open
      BY <1>2, <2>2 DEF Succeeded
    <3> QED
      BY <1>1, <2>1, <2>2, <3>1
  <2>3. CASE ~AddEntryResult(h, done)
    <3>1. /\ pc' = (IF Step.fail = "exit" THEN "exit" ELSE pc)
          /\ at' = IF Step.fail = "return" THEN Return ELSE at + 1
      BY <1>2, <2>3 DEF Failed
    <3>2. noted' = (noted \/ Step.fail = "note") /\ open' = (open /\ Step.fail # "ignore")
      BY <1>2, <2>3 DEF Failed
    <3>3. /\ noted' \in BOOLEAN /\ open' \in BOOLEAN
          /\ noted => noted'
          /\ open' => open
          /\ noted' => noted \/ Step.fail = "note"
          /\ Step.fail = "note" => noted'
          /\ Step.fail = "ignore" => ~open'
      BY <3>2, Zenon
    <3>4. at' = at + 1 /\ pc' \in {"main", "exit"} /\ (Step.fail = "exit" => pc' = "exit")
      BY <1>1, <1>3, <3>1
    <3> QED
      BY <1>3, <3>3, <3>4
  <2> QED
    BY <2>2, <2>3
<1>8. noted' => app' = "lb" /\ at' <= 5
  BY <1>1, <1>7, NoteStep
<1>9. Steps' = Steps
  BY <1>1 DEF Steps
<1>10. at' \in 1 .. Len(Steps) + 1 /\ at' \in Nat /\ at <= at' /\ at < at'
  BY <1>3, <1>7
<1>11. MainTypeOK'
  <2>1. \A g \in Handles : hw'[g] = NULL \/ hw'[g].pipe \in PipeIds
    BY <1>3, <1>5, <1>6 DEF ServeInv, MainTypeOK
  <2>2. \A p \in Ports : Len(pending'[p]) <= Cardinality(Handles)
    BY <1>5, QueueLength DEF Queues
  <2>3. /\ \A j \in PipeIds : pipes'[j] \in {NULL, PipeOf(j)}
        /\ enabled' \subseteq Ports
    BY <1>1 DEF ServeInv, MainTypeOK
  <2> QED
    BY <1>1, <1>3, <1>7, <1>9, <1>10, <2>1, <2>2, <2>3 DEF MainTypeOK
<1>12. ASSUME app # "firewall" PROVE Progress'
  <2>1. Progress
    BY <1>12 DEF ServeInv
  <2>2. Grows
    BY <1>1, <1>5, <1>7, <1>10 DEF Grows, Live
  <2>3. FromMain(Steps, hw')
    <3>1. FromMain(Steps, hw)
      BY <2>1 DEF Progress
    <3>2. ASSUME NEW g \in Handles, hw'[g] # NULL
          PROVE  \E k \in 1 .. Len(Steps) : Steps[k].op = "entry" /\ hw'[g] = EntryOf(Steps[k])
      <4>1. CASE hw[g] # NULL
        BY <1>5, <3>1, <4>1 DEF FromMain
      <4>2. CASE hw[g] = NULL
        <5>1. hw'[g] = r
          BY <1>5, <3>2, <4>2
        <5> QED
          BY <1>1, <1>3, <5>1 DEF r
      <4> QED
        BY <4>1, <4>2
    <3> QED
      BY <3>2 DEF FromMain
  <2>4. \A k : Late(Steps, k, noted, open) => Late(Steps, k, noted', open')
    BY <2>1, <2>2, ProgressKept
  <2>5. Waits(Steps, at, noted, open, pending)
    BY <1>1, <2>1 DEF Progress, Live
  <2>6. \A k \in 1 .. Len(Steps) : k < at => k < at'
    BY <1>3, <1>10
  <2>7. ASSUME Live(pc'), NEW p \in Ports, pending'[p] # <<>>
        PROVE  \E k \in 1 .. Len(Steps) :
                 k < at' /\ Late(Steps, k, noted', open') /\ PortOf(Steps[k].pipe) = p
    <3>1. CASE pending[p] # <<>>
      BY <2>4, <2>5, <2>6, <3>1 DEF Waits
    <3>2. CASE pending[p] = <<>>
      <4>1. p = q /\ ~AddEntryResult(h, done)
        BY <1>5, <2>7, <3>2
      <4>2. \/ Step.fail = "note" /\ noted'
            \/ Step.fail = "ignore" /\ ~open'
        BY <1>7, <2>7, <4>1 DEF Live
      <4>3. Late(Steps, at, noted', open')
        BY <1>1, <1>3, <4>2 DEF Late
      <4> QED
        BY <1>3, <1>10, <4>1, <4>3 DEF q
    <3> QED
      BY <3>1, <3>2
  <2>8. Live(pc') => Waits(Steps, at', noted', open', pending')
    BY <2>7 DEF Waits
  <2>9. PutStep(Steps, at, pc', noted', open', pipes', hw', pending')
    <3>1. pipes'[Steps[at].pipe] = PipeOf(Steps[at].pipe)
      BY <1>1, <1>3, <1>4 DEF i
    <3>2. ASSUME Clear(Steps, at, noted', open'), Steps[at].fail = "exit" => Live(pc')
          PROVE  hw'[h] = EntryOf(Steps[at]) /\ Reported(hw', pending', h) /\ h \in Handles
      <4>1. ASSUME NEW k \in 1 .. at, Late(Steps, k, noted', open')
            PROVE  PortOf(Steps[k].pipe) # q
        BY <1>3, <3>2, <4>1 DEF Clear, q
      <4>2. at \in 1 .. at
        BY <1>3
      <4>3. ~Late(Steps, at, noted', open')
        BY <1>3, <4>1, <4>2 DEF q
      <4>4. AddEntryResult(h, done)
        BY <1>1, <1>3, <1>7, <3>2, <4>3 DEF Late, Live
      <4>5. pending[q] = <<>>
        <5> SUFFICES ASSUME pending[q] # <<>> PROVE FALSE
          OBVIOUS
        <5>1. PICK k \in 1 .. Len(Steps) :
                k < at /\ Late(Steps, k, noted, open) /\ PortOf(Steps[k].pipe) = q
          BY <1>3, <2>5 DEF Waits
        <5>2. k \in 1 .. at
          BY <1>3, <5>1
        <5> QED
          BY <2>4, <4>1, <5>1, <5>2
      <4> QED
        BY <1>3, <1>5, <4>4, <4>5 DEF r
    <3> QED
      BY <3>1, <3>2 DEF PutStep
  <2>10. \A k \in 1 .. Len(Steps) : at <= k /\ k < at' => k = at
    BY <1>3, <1>7
  <2>11. \A k \in 1 .. Len(Steps) : at <= k /\ k < at' =>
           /\ Steps[k].op = "build" => BuiltStep(Steps, k, at', pc', noted', pipes')
           /\ Steps[k].op = "entry" =>
                PutStep(Steps, k, pc', noted', open', pipes', hw', pending')
    BY <1>1, <1>3, <2>9, <2>10
  <2>12. Opened(Steps, at', app', enabled' \ enabled, pipes')
    BY <1>1 DEF Opened
  <2> QED
    BY <2>1, <2>2, <2>3, <2>8, <2>11, <2>12, ProgressOn
<1>13. pc' # "running"
  BY <1>7
<1> QED
  BY <1>1, <1>5, <1>8, <1>11, <1>12, <1>13 DEF ServeInv

(* A port is enabled after its pipes were built and its RSS entry posted.   *)
LEMMA EnableStep ==
  ASSUME Shape, ServeInv, app # "firewall", at <= Len(Steps), Step.op = "enable"
  PROVE  Opened(Steps, at + 1, app, {Step.port}, pipes)
<1> DEFINE p == Step.port
<1>1. /\ app \in Apps /\ at \in 1 .. Len(Steps) /\ Len(Steps) \in Nat /\ Step = Steps[at]
  BY StepFacts DEF Shape, Step
<1>2. /\ at > 3
      /\ Steps[at - 3] = Entry(RssPipe(p), NULL, NULL, "ignore")
      /\ Steps[at - 2] = Build(ConnPipe("UDP", p), "return")
      /\ Steps[at - 1] = Build(ConnPipe("TCP", p), "return")
  BY <1>1, KnownSteps DEF Placed
<1> HIDE DEF p
<1>3. /\ at - 3 \in 1 .. Len(Steps) /\ at - 2 \in 1 .. Len(Steps) /\ at - 1 \in 1 .. Len(Steps)
      /\ at - 3 < at + 1 /\ at - 2 < at /\ at - 1 < at
      /\ \A l \in (at - 2) .. Len(Steps) : l < at => l = at - 2 \/ l = at - 1
      /\ \A l \in (at - 1) .. Len(Steps) : l < at => l = at - 1
  <2>1. /\ at - 3 \in 1 .. Len(Steps) /\ at - 2 \in 1 .. Len(Steps) /\ at - 1 \in 1 .. Len(Steps)
    BY <1>1, <1>2
  <2>2. at \in Int /\ Len(Steps) \in Int
    BY <1>1
  <2>3. at - 3 < at + 1 /\ at - 2 < at /\ at - 1 < at
    BY <2>2
  <2>4. \A l \in (at - 2) .. Len(Steps) : l < at => l = at - 2 \/ l = at - 1
    BY <2>2
  <2>5. \A l \in (at - 1) .. Len(Steps) : l < at => l = at - 1
    BY <2>2
  <2> QED
    BY <2>1, <2>3, <2>4, <2>5
<1>4. \A j, f : /\ Build(j, f).op = "build" /\ Build(j, f).pipe = j /\ Build(j, f).fail = f
  BY DEF Build
<1>5. Progress
  BY DEF ServeInv
<1>6. /\ BuiltStep(Steps, at - 2, at, pc, noted, pipes)
      /\ BuiltStep(Steps, at - 1, at, pc, noted, pipes)
  BY <1>2, <1>3, <1>4, <1>5 DEF Progress
<1>7. pipes[ConnPipe("UDP", p)] = PipeOf(ConnPipe("UDP", p))
  BY <1>2, <1>3, <1>4, <1>6 DEF BuiltStep
<1>8. pipes[ConnPipe("TCP", p)] = PipeOf(ConnPipe("TCP", p))
  BY <1>2, <1>3, <1>4, <1>6 DEF BuiltStep
<1>9. app = "lb" => at - 3 > 5
  <2> SUFFICES ASSUME app = "lb" PROVE at - 3 > 5
    OBVIOUS
  <2>1. Len(Steps) = 18
    BY LbNotes, LbSteps
  <2>2. at = 11
    BY <1>1, <2>1, LbNotes
  <2> QED
    BY <2>2
<1>10. \A x \in Protocols : pipes[ConnPipe(x, p)] = PipeOf(ConnPipe(x, p))
  BY <1>7, <1>8 DEF Protocols
<1> QED
  BY <1>2, <1>3, <1>9, <1>10 DEF Opened, p

(* The other steps of main.                                                 *)
LEMMA ServeMain ==
  ASSUME Shape, ServeInv, MainNext
  PROVE  ServeInv'
<1>1. /\ app \in Apps /\ at \in 1 .. Len(Steps) + 1 /\ Len(Steps) \in Nat
      /\ noted \in BOOLEAN /\ enabled \subseteq Ports
      /\ app = "firewall" => enabled = {}
  <2>1. app \in Apps
    BY DEF Shape
  <2> QED
    BY <2>1, KnownSteps DEF ServeInv, MainTypeOK
<1>2. \A n, a : Opened(Steps, n, a, enabled \ enabled, pipes)
  BY DEF Opened
<1>3. CASE MainCrash \/ Quit \/ MainLaunch
  <2>1. /\ UNCHANGED <<pipes, hw, pending, app, at, noted, enabled, open>>
        /\ pc \in {"main", "running"} /\ (pc' = "running" => at > Len(Steps))
    BY <1>3 DEF MainCrash, Quit, MainLaunch, Doing, pipeVars, mainVars
  <2>2. at' \in at .. Len(Steps) + 1 /\ \A k \in 1 .. Len(Steps) : ~(at <= k /\ k < at')
    BY <1>1, <2>1
  <2>3. Live(pc') => Live(pc)
    BY <2>1 DEF Live
  <2> QED
    BY <1>1, <1>2, <2>1, <2>2, <2>3, ServeMove
<1>4. CASE MainVerify \/ MainAcquire \/ MainEnable
  <2>1. /\ pc = "main" /\ at <= Len(Steps) /\ Step.op \in {"verify", "acquire", "enable"}
        /\ UNCHANGED <<pipes, hw, pending, app, noted, open>>
        /\ pc' \in {"main", "exit"} /\ at' \in {at, at + 1}
        /\ enabled' = enabled \/ (enabled' = enabled \cup {Step.port} /\ Step.op = "enable" /\ at' = at + 1)
        /\ noted /\ at' # at => Step.op # "verify"
    BY <1>4 DEF MainVerify, MainAcquire, MainEnable, Doing, pipeVars, envVars
  <2>2. at \in 1 .. Len(Steps) /\ Step = Steps[at] /\ app # "firewall"
        /\ Known(Step, Answers \cup {"note"})
    BY <2>1, StepFacts, FirewallStep DEF Step
  <2>3. at' \in at .. Len(Steps) + 1
    BY <1>1, <2>1, <2>2
  <2>4. \A k \in 1 .. Len(Steps) : at <= k /\ k < at' => k = at
    BY <1>1, <2>1, <2>2
  <2>5. \A k \in 1 .. Len(Steps) : at <= k /\ k < at' => Steps[k].op \notin {"build", "entry"}
    BY <2>1, <2>2, <2>4
  <2>6. noted => at' = at
    <3> SUFFICES ASSUME noted, at' # at PROVE FALSE
      OBVIOUS
    <3>1. app = "lb" /\ at <= 5 /\ Step.op # "verify"
      BY <2>1 DEF ServeInv
    <3>2. Len(Steps) = 18
      BY <3>1, LbNotes, LbSteps
    <3>3. at \in 1 .. 18 /\ (at <= 4 \/ at = 5)
      BY <2>2, <3>1, <3>2
    <3> QED
      BY <2>1, <2>2, <3>1, <3>3, LbNotes
  <2>7. enabled' \subseteq Ports
    BY <1>1, <2>1, <2>2 DEF Known
  <2>8. Opened(Steps, at', app, enabled' \ enabled, pipes)
    <3>1. CASE enabled' = enabled
      BY <1>2, <3>1
    <3>2. CASE enabled' = enabled \cup {Step.port} /\ Step.op = "enable" /\ at' = at + 1
      <4>1. Opened(Steps, at', app, {Step.port}, pipes)
        BY <2>1, <2>2, <3>2, EnableStep
      <4> QED
        BY <3>2, <4>1 DEF Opened
    <3> QED
      BY <2>1, <3>1, <3>2
  <2>9. (Live(pc') => Live(pc)) /\ pc' # "running"
    BY <2>1 DEF Live
  <2> QED
    BY <2>1, <2>2, <2>3, <2>5, <2>6, <2>7, <2>8, <2>9, ServeMove
<1> QED
  BY <1>3, <1>4, ServeBuild, ServeEntry DEF MainNext

LEMMA ServeAdd ==
  ASSUME FwInv, ServeInv, NEW d \in Directions, NEW x \in Protocols, NEW e \in Match,
         AddRule(d, x, e)
  PROVE  ServeInv'
<1> DEFINE i == DropPipe(x, RulePort(d))
           r == Plain(DropPipe(x, RulePort(d)), e)
<1>1. /\ pc = "running" /\ app = "firewall"
      /\ UNCHANGED <<pc, app, at, noted, enabled, open, pipes>>
  BY DEF AddRule, envVars, mainVars
<1>2. PICK h \in Handles \cup {NULL}, done \in 0 .. Cardinality(Handles) :
        AddEntry(i, e, NULL, h, done)
  BY DEF AddRule
<1>3. Shape /\ Queues
  BY DEF FwInv, ServeInv
<1>4. /\ RulePort(d) \in Ports /\ i \in PipeIds /\ r # NULL /\ r.pipe = i
      /\ r = [pipe |-> i, match |-> e, action |-> NULL]
  BY DropPipes DEF Plain
<1>5. RulePort(d) = PortOf(i) /\ pipes[i] = PipeOf(i)
  BY <1>1, <1>4, PipePorts, PipesThere DEF FwInv
<1> HIDE DEF i, r
<1>6. /\ Queues'
      /\ \A g \in Handles : hw[g] # NULL => hw'[g] = hw[g]
      /\ \A g \in Handles : hw[g] = NULL => hw'[g] \in {NULL, r}
  BY <1>2, <1>3, <1>4, <1>5, EntryAdded
<1>7. Steps' = Steps
  BY <1>1 DEF Steps
<1>8. MainTypeOK'
  <2>1. \A g \in Handles : hw'[g] = NULL \/ hw'[g].pipe \in PipeIds
    BY <1>4, <1>6 DEF ServeInv, MainTypeOK
  <2>2. \A p \in Ports : Len(pending'[p]) <= Cardinality(Handles)
    BY <1>6, QueueLength DEF Queues
  <2> QED
    BY <1>1, <1>7, <2>1, <2>2 DEF ServeInv, MainTypeOK
<1> QED
  BY <1>1, <1>6, <1>7, <1>8 DEF ServeInv

LEMMA ServeDel ==
  ASSUME FwInv, ServeInv, NEW n \in Nat, DelRule(n)
  PROVE  ServeInv'
<1> DEFINE g == bucket[n].entry
<1>1. /\ pc = "running" /\ app = "firewall"
      /\ UNCHANGED <<pc, app, at, noted, enabled, open, pipes>>
      /\ hw' = [hw EXCEPT ![g] = NULL]
      /\ pending' = [p \in Ports |-> NotAwaited(pending[p], g)]
  BY DEF DelRule, RemoveEntry, envVars, mainVars
<1>2. hw = [h \in Handles |-> hw[h]]
  BY DEF FwInv, Shape
<1> HIDE DEF g
<1>3. /\ \A h \in Handles : h # g => hw'[h] = hw[h]
      /\ \A h \in Handles : hw'[h] \in {NULL, hw[h]}
  BY <1>1, <1>2
<1>4. Queues'
  <2>1. ASSUME NEW p \in Ports PROVE Queue(pending'[p], hw', p)
    <3>1. Queue(pending[p], hw, p)
      BY DEF ServeInv, Queues
    <3>2. Queue(NotAwaited(pending[p], g), hw', p)
      BY <1>3, <3>1, QueueWithout
    <3> QED
      BY <1>1, <3>2
  <2> QED
    BY <2>1 DEF Queues
<1>5. Steps' = Steps
  BY <1>1 DEF Steps
<1>6. MainTypeOK'
  <2>1. \A h \in Handles : hw'[h] = NULL \/ hw'[h].pipe \in PipeIds
    BY <1>3 DEF ServeInv, MainTypeOK
  <2>2. \A p \in Ports : Len(pending'[p]) <= Cardinality(Handles)
    BY <1>4, QueueLength DEF Queues
  <2> QED
    BY <1>1, <1>5, <2>1, <2>2 DEF ServeInv, MainTypeOK
<1> QED
  BY <1>1, <1>4, <1>5, <1>6 DEF ServeInv

LEMMA ServeStep == FwInv /\ ServeInv /\ [Next]_vars => ServeInv'
<1> SUFFICES ASSUME FwInv, ServeInv, [Next]_vars PROVE ServeInv'
  OBVIOUS
<1>1. Shape
  BY DEF FwInv
<1>2. /\ app \in Apps /\ at \in 1 .. Len(Steps) + 1 /\ Len(Steps) \in Nat
      /\ enabled \subseteq Ports
      /\ app = "firewall" => enabled = {}
      /\ pc = "running" => at > Len(Steps)
  <2>1. app \in Apps
    BY <1>1 DEF Shape
  <2> QED
    BY <2>1, KnownSteps DEF ServeInv, MainTypeOK
<1>3. ASSUME UNCHANGED <<pipes, hw, pending, app, at, noted, enabled, open>>,
             \/ pc' = pc
             \/ pc \in Starting /\ pc' \in Starting \cup {"main"}
             \/ pc = "exit" /\ pc' = "ended"
      PROVE  ServeInv'
  <2>1. at' \in at .. Len(Steps) + 1 /\ \A k \in 1 .. Len(Steps) : ~(at <= k /\ k < at')
    BY <1>2, <1>3
  <2>2. Live(pc') => Live(pc)
    BY <1>3 DEF Live, Starting
  <2>3. pc' = "running" => at' > Len(Steps)
    BY <1>2, <1>3 DEF Starting
  <2>4. Opened(Steps, at', app, enabled' \ enabled, pipes)
    BY <1>3 DEF Opened
  <2> QED
    BY <1>2, <1>3, <2>1, <2>2, <2>3, <2>4, ServeMove
<1>4. CASE EnvNext /\ UNCHANGED <<pipeVars, mainVars, bucket, late>>
  BY <1>3, <1>4, EnvMoves DEF pipeVars, mainVars
<1>5. CASE MainNext /\ UNCHANGED <<bucket, late>>
  BY <1>1, <1>5, ServeMain
<1>6. ASSUME NEW d \in Directions, NEW x \in Protocols, NEW e \in Match, AddRule(d, x, e)
      PROVE  ServeInv'
  BY <1>6, ServeAdd
<1>7. ASSUME NEW n \in 1 .. Cardinality(Handles), DelRule(n) PROVE ServeInv'
  BY <1>7, ServeDel
<1>8. CASE UNCHANGED vars
  BY <1>3, <1>8 DEF vars, envVars, pipeVars, mainVars
<1> QED
  BY <1>4, <1>5, <1>6, <1>7, <1>8 DEF Next

-----------------------------------------------------------------------------
(* What the programs that run have.                                         *)

(* The entry of a step done, on a port without a late one, takes packets.   *)
LEMMA Serves ==
  ASSUME ServeInv, Progress, NEW k \in 1 .. Len(Steps), k < at, Steps[k].op = "entry", Live(pc),
         \A j \in 1 .. k : Late(Steps, j, noted, open) =>
           PortOf(Steps[j].pipe) # PortOf(Steps[k].pipe)
  PROVE  /\ pipes[Steps[k].pipe] = PipeOf(Steps[k].pipe)
         /\ \E h \in Handles : /\ hw[h] = EntryOf(Steps[k]) /\ Effective(h)
                               /\ h \in EntriesOf(Steps[k].pipe)
<1>1. PutStep(Steps, k, pc, noted, open, pipes, hw, pending)
  BY DEF Progress
<1>2. Clear(Steps, k, noted, open)
  BY DEF Clear
<1>3. PICK h \in Handles : hw[h] = EntryOf(Steps[k]) /\ Reported(hw, pending, h)
  BY <1>1, <1>2 DEF PutStep
<1>4. Effective(h)
  BY <1>3, ReportedEffective DEF ServeInv
<1>5. hw[h] # NULL /\ hw[h].pipe = Steps[k].pipe
  BY <1>3 DEF Reported, EntryOf
<1>6. h \in EntriesOf(Steps[k].pipe)
  BY <1>5 DEF EntriesOf
<1> QED
  BY <1>1, <1>3, <1>4, <1>6 DEF PutStep

(* Where an entry comes from.                                               *)
LEMMA Installed ==
  ASSUME Progress, NEW i, NEW h \in EntriesOf(i)
  PROVE  \E k \in 1 .. Len(Steps) :
           Steps[k].op = "entry" /\ Steps[k].pipe = i /\ hw[h] = EntryOf(Steps[k])
<1>1. h \in Handles /\ hw[h] # NULL /\ hw[h].pipe = i
  BY DEF EntriesOf
<1>2. PICK k \in 1 .. Len(Steps) : Steps[k].op = "entry" /\ hw[h] = EntryOf(Steps[k])
  BY <1>1 DEF Progress, FromMain
<1>3. EntryOf(Steps[k]).pipe = Steps[k].pipe
  BY DEF EntryOf
<1> QED
  BY <1>1, <1>2, <1>3

(* A pipe that matches no field takes everything once it has an entry.      *)
LEMMA TakesAll ==
  ASSUME NEW i, NEW m, NEW h \in EntriesOf(i), Effective(h), pipes[i].match = {}
  PROVE  Fate(i, m) = pipes[i].matched
<1>1. MatchAdapter(pipes[i].match, hw[h].match, m)
  BY DEF MatchAdapter
<1>2. h \in Hits(i, m)
  BY <1>1 DEF Hits
<1> QED
  BY <1>2 DEF Fate

LEMMA RssForm ==
  ASSUME NEW p
  PROVE  PipeOf(RssPipe(p)) = [port_id |-> p, match |-> {}, matched |-> RSS_TO_QUEUE,
                               unmatched |-> DROP, next |-> NULL, max_entry_amount |-> 2]
<1>1. RssPipe(p)[1] = "RSS-PIPE" /\ RssPipe(p)[2] = p
  BY DEF RssPipe
<1> QED
  BY <1>1, NamedPipe

(* The steps that install entries: LB_init                                  *)
LEMMA LbEntries ==
  ASSUME NEW k \in 1 .. 18, LB_init[k].op = "entry"
  PROVE  \/ k = 2 /\ LB_init[k].pipe = RssPipe(0) /\ LB_init[k].fail = "note"
         \/ k = 8 /\ LB_init[k].pipe = RssPipe(1) /\ LB_init[k].fail = "ignore"
         \/ k > 12 /\ \E s \in {1, 2, 3}, n \in {1, 2} :
                        LB_init[k] = ServerStep(Services[s], RealServers[n])
<1>1. /\ \A i, f : Build(i, f).op = "build"
      /\ \A i, e, a, f : Entry(i, e, a, f).pipe = i /\ Entry(i, e, a, f).fail = f
      /\ Verify.op = "verify" /\ Acquire.op = "acquire" /\ \A p : Enable(p).op = "enable"
  BY DEF Build, Entry, Verify, Acquire, Enable
<1>2. \A j \in {1, 3, 4, 5, 6, 7, 9, 10, 11, 12} : LB_init[j].op # "entry"
  BY LbSteps, <1>1
<1>3. CASE k = 2
  BY LbSteps, <1>1, <1>3
<1>4. CASE k = 8
  BY LbSteps, <1>1, <1>4
<1>5. CASE k \in {13, 14, 15, 16, 17, 18}
  <2>1. \E s \in {1, 2, 3}, n \in {1, 2} : LB_init[k] = ServerStep(Services[s], RealServers[n])
    BY LbSteps, <1>5
  <2> QED
    BY <1>5, <2>1
<1>6. k \in {1, 3, 4, 5, 6, 7, 9, 10, 11, 12} \/ k = 2 \/ k = 8 \/ k \in {13, 14, 15, 16, 17, 18}
  OBVIOUS
<1> QED
  BY <1>2, <1>3, <1>4, <1>5, <1>6

(* The services differ in protocol or port, and keep the port.              *)
LEMMA ServiceFacts ==
  /\ DOMAIN Services = {1, 2, 3} /\ DOMAIN RealServers = {1, 2}
  /\ \A s \in {1, 2, 3} : /\ Services[s].proto \in Protocols /\ Services[s].dip = "vip"
                          /\ Services[s].dport = Services[s].rport
  /\ \A n \in {1, 2} : RealServers[n] \in {"rs102", "rs103"}
<1>1. Services[1].proto = "TCP" /\ Services[2].proto = "UDP" /\ Services[3].proto = "TCP"
  BY DEF Services
<1>2. /\ Services[1].dport = Services[1].rport /\ Services[2].dport = Services[2].rport
      /\ Services[3].dport = Services[3].rport
  BY DEF Services
<1>3. Services[1].dip = "vip" /\ Services[2].dip = "vip" /\ Services[3].dip = "vip"
  BY DEF Services
<1>4. DOMAIN Services = {1, 2, 3}
  <2>1. DOMAIN Services = 1 .. 3
    BY DEF Services
  <2> QED
    BY <2>1
<1>5. DOMAIN RealServers = {1, 2} /\ RealServers[1] = "rs102" /\ RealServers[2] = "rs103"
  <2>1. DOMAIN RealServers = 1 .. 2 /\ RealServers[1] = "rs102" /\ RealServers[2] = "rs103"
    BY DEF RealServers
  <2> QED
    BY <2>1
<1> QED
  BY <1>1, <1>2, <1>3, <1>4, <1>5 DEF Protocols

LEMMA ServerEntry ==
  ASSUME NEW v, NEW r
  PROVE  /\ ServerStep(v, r).op = "entry" /\ ServerStep(v, r).fail = "exit"
         /\ ServerStep(v, r).pipe = DownstreamPipe(v.proto)
         /\ EntryOf(ServerStep(v, r)).match = [src_ip |-> r, src_port |-> v.rport]
         /\ EntryOf(ServerStep(v, r)).action = [src_ip |-> v.dip, src_port |-> v.dport]
  BY DEF ServerStep, EntryOf, Entry

(* What the downstream pipes compare.                                       *)
LEMMA SourceMatch ==
  ASSUME NEW x \in Protocols, NEW e, NEW m, m.proto = x
  PROVE  MatchAdapter(Source(x), e, m) <=> e.src_ip = m.src_ip /\ e.src_port = m.src_port
<1>1. /\ "SIP" \in Source(x) /\ "SPORT" \in Source(x)
      /\ "DIP" \notin Source(x) /\ "DPORT" \notin Source(x)
      /\ "TCP" \in Source(x) => x = "TCP"
      /\ "UDP" \in Source(x) => x = "UDP"
  BY DEF Source, Protocols
<1> QED
  BY <1>1 DEF MatchAdapter

LEMMA Downstreams ==
  /\ \A x, y \in Protocols : DownstreamPipe(x) = DownstreamPipe(y) => x = y
  /\ \A x \in Protocols : \A p : DownstreamPipe(x) # RssPipe(p)
  BY DEF DownstreamPipe, RssPipe, Protocols

(* The load balancer that runs has taken every step of LB_init, and only    *)
(* the RSS entry of the WAN port may have been late.                        *)
LEMMA LbRuns ==
  ASSUME ServeInv, app = "lb", pc = "running"
  PROVE  /\ Progress /\ Live(pc) /\ ~noted /\ Steps = LB_init /\ Len(Steps) = 18
         /\ \A k \in 1 .. 18 : k < at
         /\ \A k \in 1 .. 18 : Late(Steps, k, noted, open) => PortOf(Steps[k].pipe) = 1
         /\ \A x \in Protocols : pipes[DownstreamPipe(x)] = PipeOf(DownstreamPipe(x))
         /\ pipes[RssPipe(0)] = PipeOf(RssPipe(0))
<1>1. Progress /\ Live(pc)
  BY DEF ServeInv, Live
<1>2. Steps = LB_init /\ Len(Steps) = 18
  BY LbNotes, LbSteps
<1>3. at \in Nat /\ at > 18
  BY <1>2 DEF ServeInv, MainTypeOK
<1>4. ~noted
  BY <1>3 DEF ServeInv
<1>5. \A k \in 1 .. 18 : k < at
  BY <1>3
<1>6. ASSUME NEW k \in 1 .. 18, Late(Steps, k, noted, open) PROVE PortOf(Steps[k].pipe) = 1
  <2>1. LB_init[k].op = "entry" /\ LB_init[k].fail = "ignore"
    BY <1>2, <1>4, <1>6 DEF Late
  <2>2. \A v, t : ServerStep(v, t).fail = "exit"
    BY ServerEntry
  <2>3. LB_init[k].pipe = RssPipe(1)
    BY <2>1, <2>2, LbEntries
  <2> QED
    BY <1>2, <2>3, PipePorts
<1>7. ASSUME NEW k \in {1, 3, 4} PROVE pipes[LB_init[k].pipe] = PipeOf(LB_init[k].pipe)
  <2>1. LB_init[k].op = "build" /\ LB_init[k].fail = "note"
    BY LbSteps DEF Build
  <2>2. k \in 1 .. Len(Steps) /\ k < at
    BY <1>2, <1>5
  <2>3. BuiltStep(Steps, k, at, pc, noted, pipes)
    BY <1>1, <1>2, <2>1, <2>2 DEF Progress
  <2> QED
    BY <1>2, <1>4, <2>1, <2>3 DEF BuiltStep
<1>8. LB_init[1].pipe = RssPipe(0) /\ LB_init[3].pipe = DownstreamPipe("TCP")
      /\ LB_init[4].pipe = DownstreamPipe("UDP")
  BY LbSteps DEF Build
<1>9. pipes[RssPipe(0)] = PipeOf(RssPipe(0))
  BY <1>7, <1>8
<1>10. \A x \in Protocols : pipes[DownstreamPipe(x)] = PipeOf(DownstreamPipe(x))
  BY <1>7, <1>8 DEF Protocols
<1> QED
  BY <1>1, <1>2, <1>4, <1>5, <1>6, <1>9, <1>10

(* A packet of the LAN that an entry takes: a real server's, of a service.  *)
LEMMA DownstreamHit ==
  ASSUME ServeInv, app = "lb", pc = "running", NEW x \in Protocols, NEW m, m.proto = x,
         NEW h \in Hits(DownstreamPipe(x), m)
  PROVE  \E s \in {1, 2, 3}, n \in {1, 2} :
           /\ m.src_ip = RealServers[n] /\ m.src_port = Services[s].rport
           /\ hw[h].action = [src_ip |-> Services[s].dip, src_port |-> Services[s].dport]
<1> DEFINE i == DownstreamPipe(x)
<1>1. Progress /\ Steps = LB_init /\ Len(Steps) = 18 /\ pipes[i] = PipeOf(i)
  BY LbRuns
<1>2. pipes[i].match = Source(x)
  BY <1>1, DownstreamForm
<1>3. h \in EntriesOf(i) /\ MatchAdapter(Source(x), hw[h].match, m)
  BY <1>2 DEF Hits
<1>4. PICK k \in 1 .. 18 : LB_init[k].op = "entry" /\ LB_init[k].pipe = i /\ hw[h] = EntryOf(LB_init[k])
  BY <1>1, <1>3, Installed
<1>5. \E s \in {1, 2, 3}, n \in {1, 2} : LB_init[k] = ServerStep(Services[s], RealServers[n])
  BY <1>4, LbEntries, Downstreams
<1>6. PICK s \in {1, 2, 3}, n \in {1, 2} : LB_init[k] = ServerStep(Services[s], RealServers[n])
  BY <1>5
<1>7. /\ hw[h].match = [src_ip |-> RealServers[n], src_port |-> Services[s].rport]
      /\ hw[h].action = [src_ip |-> Services[s].dip, src_port |-> Services[s].dport]
  BY <1>4, <1>6, ServerEntry
<1>8. hw[h].match.src_ip = m.src_ip /\ hw[h].match.src_port = m.src_port
  BY <1>3, SourceMatch
<1> QED
  BY <1>7, <1>8

LEMMA LbReady ==
  ASSUME ServeInv
  PROVE  DownstreamReady
<1> SUFFICES ASSUME app = "lb", pc = "running" PROVE DownstreamReady
  BY DEF DownstreamReady
<1>1. /\ Progress /\ Live(pc) /\ ~noted /\ Steps = LB_init /\ Len(Steps) = 18
      /\ \A k \in 1 .. 18 : k < at
      /\ \A k \in 1 .. 18 : Late(Steps, k, noted, open) => PortOf(Steps[k].pipe) = 1
      /\ \A x \in Protocols : pipes[DownstreamPipe(x)] = PipeOf(DownstreamPipe(x))
      /\ pipes[RssPipe(0)] = PipeOf(RssPipe(0))
  BY LbRuns
<1>2. ASSUME NEW k \in 1 .. 18, LB_init[k].op = "entry", PortOf(LB_init[k].pipe) = 0
      PROVE  \E h \in Handles : /\ hw[h] = EntryOf(LB_init[k]) /\ Effective(h)
                                /\ h \in EntriesOf(LB_init[k].pipe)
  <2>1. \A j \in 1 .. k : j \in 1 .. 18
    OBVIOUS
  <2>2. \A j \in 1 .. k : Late(Steps, j, noted, open) => PortOf(Steps[j].pipe) # PortOf(Steps[k].pipe)
    BY <1>1, <1>2, <2>1
  <2>3. k \in 1 .. Len(Steps) /\ k < at /\ Steps[k].op = "entry"
    BY <1>1, <1>2
  <2> QED
    BY <1>1, <2>2, <2>3, Serves
<1>3. ASSUME NEW s \in {1, 2, 3}, NEW n \in {1, 2}
      PROVE  \E k \in 1 .. 18 : LB_init[k] = ServerStep(Services[s], RealServers[n])
  <2>1. 13 \in 1 .. 18 /\ 14 \in 1 .. 18 /\ 15 \in 1 .. 18 /\ 16 \in 1 .. 18
        /\ 17 \in 1 .. 18 /\ 18 \in 1 .. 18
    OBVIOUS
  <2>2. CASE s = 1
    BY LbSteps, <2>1, <2>2
  <2>3. CASE s = 2
    BY LbSteps, <2>1, <2>3
  <2>4. CASE s = 3
    BY LbSteps, <2>1, <2>4
  <2> QED
    BY <2>2, <2>3, <2>4
<1>4. ASSUME NEW k \in {1, 2, 3}, NEW n \in {1, 2}
      PROVE  LET s == Services[k]
                 m == [proto |-> s.proto, src_ip |-> RealServers[n], src_port |-> s.rport]
                 i == DownstreamPipe(s.proto)
             IN /\ Fate(i, m) = PORT
                /\ \A h \in Hits(i, m) : hw[h].action = [src_ip |-> s.dip, src_port |-> s.dport]
  <2> DEFINE s == Services[k]
             m == [proto |-> s.proto, src_ip |-> RealServers[n], src_port |-> s.rport]
             i == DownstreamPipe(s.proto)
  <2>1. s.proto \in Protocols /\ s.dip = "vip" /\ s.dport = s.rport
    BY ServiceFacts
  <2>2. m.proto = s.proto /\ m.src_ip = RealServers[n] /\ m.src_port = s.rport
    OBVIOUS
  <2>3. PICK l \in 1 .. 18 : LB_init[l] = ServerStep(s, RealServers[n])
    BY <1>3
  <2> HIDE DEF s, m
  <2>4. LB_init[l].op = "entry" /\ LB_init[l].pipe = i /\ PortOf(i) = 0
    <3>1. \A v, t : ServerStep(v, t).op = "entry" /\ ServerStep(v, t).pipe = DownstreamPipe(v.proto)
      BY ServerEntry
    <3>2. LB_init[l].op = "entry"
      BY <2>3, <3>1
    <3>3. LB_init[l].pipe = i
      BY <2>3, <3>1
    <3>4. PortOf(i) = 0
      BY <2>1, PipePorts
    <3> QED
      BY <3>2, <3>3, <3>4
  <2>5. PICK h \in Handles : hw[h] = EntryOf(LB_init[l]) /\ Effective(h) /\ h \in EntriesOf(i)
    BY <1>2, <2>4
  <2>6. hw[h].match = [src_ip |-> RealServers[n], src_port |-> s.rport]
    <3>1. EntryOf(ServerStep(s, RealServers[n])).match
            = [src_ip |-> RealServers[n], src_port |-> s.rport]
      BY ServerEntry, Zenon
    <3> QED
      BY <2>3, <2>5, <3>1
  <2>7. pipes[i].match = Source(s.proto) /\ pipes[i].matched = PORT
    BY <1>1, <2>1, DownstreamForm
  <2>8. MatchAdapter(Source(s.proto), hw[h].match, m)
    BY <2>1, <2>2, <2>6, SourceMatch
  <2>9. h \in Hits(i, m)
    BY <2>5, <2>7, <2>8 DEF Hits
  <2>10. Fate(i, m) = PORT
    BY <2>7, <2>9 DEF Fate
  <2>11. ASSUME NEW g \in Hits(i, m) PROVE hw[g].action = [src_ip |-> s.dip, src_port |-> s.dport]
    <3>1. PICK t \in {1, 2, 3}, j \in {1, 2} :
            /\ m.src_ip = RealServers[j] /\ m.src_port = Services[t].rport
            /\ hw[g].action = [src_ip |-> Services[t].dip, src_port |-> Services[t].dport]
      BY <2>1, <2>2, DownstreamHit
    <3>2. Services[t].dip = "vip" /\ Services[t].dport = Services[t].rport
      BY ServiceFacts
    <3> QED
      BY <2>1, <2>2, <3>1, <3>2
  <2> QED
    BY <2>10, <2>11 DEF s, m
<1>5. ASSUME NEW x \in Protocols
      PROVE  Walk(DownstreamPipe(x), [proto |-> x, src_ip |-> "other", src_port |-> 80]) = RSS_TO_QUEUE
  <2> DEFINE m == [proto |-> x, src_ip |-> "other", src_port |-> 80]
             i == DownstreamPipe(x)
  <2>1. m.proto = x /\ m.src_ip = "other"
    OBVIOUS
  <2> HIDE DEF m
  <2>2. Hits(i, m) = {}
    <3>1. \A n \in {1, 2} : RealServers[n] # "other"
      BY ServiceFacts
    <3> QED
      BY <2>1, <3>1, DownstreamHit
  <2>3. pipes[i].unmatched = PIPE /\ pipes[i].next = RssPipe(0)
    BY <1>1, DownstreamForm
  <2>4. pipes[RssPipe(0)].match = {} /\ pipes[RssPipe(0)].matched = RSS_TO_QUEUE
    BY <1>1, RssForm
  <2>5. LB_init[2].op = "entry" /\ LB_init[2].pipe = RssPipe(0) /\ PortOf(RssPipe(0)) = 0
    BY LbSteps, PipePorts DEF Entry
  <2>6. PICK h \in Handles : Effective(h) /\ h \in EntriesOf(RssPipe(0))
    BY <1>2, <2>5
  <2>7. Fate(RssPipe(0), m) = RSS_TO_QUEUE
    BY <2>4, <2>6, TakesAll
  <2>8. Fate(i, m) = PIPE
    BY <2>2, <2>3 DEF Fate
  <2>9. Walk(i, m) = RSS_TO_QUEUE
    BY <2>3, <2>7, <2>8 DEF Walk
  <2> QED
    BY <2>9 DEF m
<1> QED
  BY <1>4, <1>5, ServiceFacts DEF DownstreamReady

(* The ports conntrack is enabled on.                                       *)
LEMMA TrafficSeen ==
  ASSUME ServeInv
  PROVE  NewTrafficSeen
<1> SUFFICES ASSUME NEW p \in enabled, NEW x \in Protocols
             PROVE  /\ pipes[RssPipe(p)] # NULL /\ pipes[ConnPipe(x, p)] # NULL
                    /\ open => Walk(ConnPipe(x, p), Unknown(x)) = RSS_TO_QUEUE
  BY DEF NewTrafficSeen
<1> DEFINE i == ConnPipe(x, p)
<1>1. app \in Apps /\ p \in Ports /\ app # "firewall"
  BY DEF ServeInv, MainTypeOK
<1>2. Progress
  BY <1>1 DEF ServeInv
<1>3. pipes[i] = PipeOf(i)
  BY <1>2 DEF Progress, Opened
<1>4. PICK k \in 1 .. Len(Steps) : /\ k < at /\ (app = "lb" => k > 5)
                                   /\ Steps[k] = Entry(RssPipe(p), NULL, NULL, "ignore")
  BY <1>2 DEF Progress, Opened
<1>5. Steps[k].op = "entry" /\ Steps[k].pipe = RssPipe(p) /\ Steps[k].fail = "ignore"
  BY <1>4 DEF Entry
<1>6. PutStep(Steps, k, pc, noted, open, pipes, hw, pending)
  BY <1>2, <1>4, <1>5 DEF Progress
<1>7. pipes[RssPipe(p)] = PipeOf(RssPipe(p))
  BY <1>5, <1>6 DEF PutStep
<1>8. RssPipe(p) \in AllPipes /\ i \in AllPipes
  BY <1>1, PipesKnown
<1>9. pipes[RssPipe(p)] # NULL /\ pipes[i] # NULL
  BY <1>3, <1>7, <1>8, MainsAssumption
<1>10. ASSUME open PROVE Walk(i, Unknown(x)) = RSS_TO_QUEUE
  <2>1. ~noted
    <3> SUFFICES ASSUME noted PROVE FALSE
      OBVIOUS
    <3>1. at \in 1 .. Len(Steps) + 1 /\ Len(Steps) \in Nat
      BY <1>1, KnownSteps DEF ServeInv, MainTypeOK
    <3>2. app = "lb" /\ at <= 5
      BY DEF ServeInv
    <3> QED
      BY <1>4, <3>1, <3>2
  <2>2. \A j : ~Late(Steps, j, noted, open)
    BY <1>10, <2>1 DEF Late
  <2>3. Clear(Steps, k, noted, open)
    BY <2>2 DEF Clear
  <2>4. PICK h \in Handles : hw[h] = EntryOf(Steps[k]) /\ Reported(hw, pending, h)
    BY <1>5, <1>6, <2>3 DEF PutStep
  <2>5. Effective(h)
    BY <2>4, ReportedEffective DEF ServeInv
  <2>6. hw[h] # NULL /\ hw[h].pipe = RssPipe(p)
    BY <1>5, <2>4 DEF Reported, EntryOf
  <2>7. h \in EntriesOf(RssPipe(p))
    BY <2>6 DEF EntriesOf
  <2>8. pipes[RssPipe(p)].match = {} /\ pipes[RssPipe(p)].matched = RSS_TO_QUEUE
    BY <1>7, RssForm
  <2>9. Fate(RssPipe(p), Unknown(x)) = RSS_TO_QUEUE
    BY <2>5, <2>7, <2>8, TakesAll
  <2>10. Hits(i, Unknown(x)) = {}
    <3> SUFFICES ASSUME NEW g \in EntriesOf(i) PROVE FALSE
      BY DEF Hits
    <3>1. PICK l \in 1 .. Len(Steps) : Steps[l].op = "entry" /\ Steps[l].pipe = i
      BY <1>2, Installed
    <3>2. Steps[l].pipe \notin LaterIds
      BY <1>1, <3>1, KnownSteps
    <3>3. i \in LaterIds
      BY <1>1 DEF LaterIds
    <3> QED
      BY <3>1, <3>2, <3>3
  <2>11. pipes[i].unmatched = PIPE /\ pipes[i].next = RssPipe(p)
    BY <1>3, ConnForm
  <2> HIDE DEF i
  <2>12. Fate(i, Unknown(x)) = PIPE
    BY <2>10, <2>11 DEF Fate
  <2> QED
    BY <2>9, <2>11, <2>12 DEF Walk
<1> QED
  BY <1>9, <1>10

(* The steps that install entries: adaptive routing                         *)
LEMMA ArEntries ==
  ASSUME NEW k \in 1 .. 11, AdaptiveMain[k].op = "entry"
  PROVE  \/ k = 3 /\ AdaptiveMain[k].pipe = RssPipe(0)
         \/ k = 8 /\ AdaptiveMain[k].pipe = FwdPipe /\ AdaptiveMain[k].fail = "exit"
         \/ k = 10 /\ AdaptiveMain[k].pipe = ProbePipe /\ AdaptiveMain[k].fail = "exit"
<1>1. /\ \A i, f : Build(i, f).op = "build"
      /\ \A i, e, a, f : Entry(i, e, a, f).pipe = i /\ Entry(i, e, a, f).fail = f
      /\ Acquire.op = "acquire" /\ \A p : Enable(p).op = "enable"
  BY DEF Build, Entry, Acquire, Enable
<1>2. \A j \in {1, 2, 4, 5, 6, 7, 9, 11} : AdaptiveMain[j].op # "entry"
  BY ArSteps, <1>1
<1>3. CASE k = 3
  BY ArSteps, <1>1, <1>3
<1>4. CASE k = 8
  BY ArSteps, <1>1, <1>4
<1>5. CASE k = 10
  BY ArSteps, <1>1, <1>5
<1>6. k \in {1, 2, 4, 5, 6, 7, 9, 11} \/ k = 3 \/ k = 8 \/ k = 10
  OBVIOUS
<1> QED
  BY <1>2, <1>3, <1>4, <1>5, <1>6

LEMMA ProbesBack ==
  ASSUME ServeInv
  PROVE  ProbesReturn
<1> SUFFICES ASSUME app = "ar", pc = "running" PROVE ProbesReturn
  BY DEF ProbesReturn
<1>1. Progress /\ Live(pc) /\ ~noted
  BY DEF ServeInv, Live
<1>2. Steps = AdaptiveMain /\ Len(Steps) = 11
  BY ArSteps DEF Steps
<1>3. at \in Nat /\ at > 11
  BY <1>2 DEF ServeInv, MainTypeOK
<1>4. PortOf(FwdPipe) = 1 /\ PortOf(ProbePipe) = 1 /\ PortOf(RssPipe(0)) = 0
  BY PipePorts
<1>5. ASSUME NEW k \in 1 .. 11, Late(Steps, k, noted, open) PROVE PortOf(Steps[k].pipe) = 0
  <2>1. AdaptiveMain[k].op = "entry" /\ AdaptiveMain[k].fail = "ignore"
    BY <1>1, <1>2, <1>5 DEF Late
  <2>2. AdaptiveMain[k].pipe = RssPipe(0)
    BY <2>1, ArEntries
  <2> QED
    BY <1>2, <1>4, <2>2
<1>6. ASSUME NEW k \in 1 .. 11, AdaptiveMain[k].op = "entry", PortOf(AdaptiveMain[k].pipe) = 1
      PROVE  /\ pipes[AdaptiveMain[k].pipe] = PipeOf(AdaptiveMain[k].pipe)
             /\ \E h \in Handles : /\ hw[h] = EntryOf(AdaptiveMain[k]) /\ Effective(h)
                                   /\ h \in EntriesOf(AdaptiveMain[k].pipe)
  <2>1. \A j \in 1 .. k : j \in 1 .. 11
    OBVIOUS
  <2>2. \A j \in 1 .. k : Late(Steps, j, noted, open) => PortOf(Steps[j].pipe) # PortOf(Steps[k].pipe)
    BY <1>2, <1>5, <1>6, <2>1
  <2>3. k \in 1 .. Len(Steps) /\ k < at /\ Steps[k].op = "entry"
    BY <1>2, <1>3, <1>6
  <2> QED
    BY <1>1, <1>2, <2>2, <2>3, Serves
<1>7. /\ AdaptiveMain[8].op = "entry" /\ AdaptiveMain[8].pipe = FwdPipe
      /\ AdaptiveMain[10].op = "entry" /\ AdaptiveMain[10].pipe = ProbePipe
      /\ EntryOf(AdaptiveMain[10]).match = [dst_ip |-> "host", dst_port |-> 4788]
  BY ArSteps DEF Entry, EntryOf
<1>8. /\ pipes[FwdPipe] = PipeOf(FwdPipe)
      /\ \E h \in Handles : Effective(h) /\ h \in EntriesOf(FwdPipe)
  <2>1. 8 \in 1 .. 11
    OBVIOUS
  <2> QED
    BY <1>4, <1>6, <1>7, <2>1
<1>9. /\ pipes[ProbePipe] = PipeOf(ProbePipe)
      /\ \E h \in Handles : /\ hw[h].match = [dst_ip |-> "host", dst_port |-> 4788]
                            /\ Effective(h) /\ h \in EntriesOf(ProbePipe)
  <2>1. 10 \in 1 .. 11
    OBVIOUS
  <2> QED
    BY <1>4, <1>6, <1>7, <2>1
<1> DEFINE F == {"DIP", "UDP", "DPORT"}
<1>10. /\ pipes[ProbePipe].match = F /\ pipes[ProbePipe].matched = RSS_TO_QUEUE
       /\ pipes[ProbePipe].unmatched = PIPE /\ pipes[ProbePipe].next = FwdPipe
       /\ pipes[FwdPipe].match = {} /\ pipes[FwdPipe].matched = PORT
  BY <1>8, <1>9, ProbeForms
<1>11. Walk(ProbePipe, [proto |-> "UDP", dst_ip |-> "host", dst_port |-> 4788]) = RSS_TO_QUEUE
  <2> DEFINE m == [proto |-> "UDP", dst_ip |-> "host", dst_port |-> 4788]
  <2>1. PICK h \in Handles : /\ hw[h].match = [dst_ip |-> "host", dst_port |-> 4788]
                             /\ Effective(h) /\ h \in EntriesOf(ProbePipe)
    BY <1>9
  <2>2. MatchAdapter(F, hw[h].match, m)
    BY <2>1 DEF MatchAdapter
  <2> HIDE DEF m, F
  <2>3. h \in Hits(ProbePipe, m)
    BY <1>10, <2>1, <2>2 DEF Hits
  <2>4. Fate(ProbePipe, m) = RSS_TO_QUEUE
    BY <1>10, <2>3 DEF Fate
  <2>5. Walk(ProbePipe, m) = RSS_TO_QUEUE
    BY <2>4 DEF Walk, RSS_TO_QUEUE, PIPE
  <2> QED
    BY <2>5 DEF m
<1>12. ASSUME NEW x \in Protocols
       PROVE  Walk(ProbePipe, [proto |-> x, dst_ip |-> "host", dst_port |-> 80]) = PORT
  <2> DEFINE m == [proto |-> x, dst_ip |-> "host", dst_port |-> 80]
  <2>1. m.dst_port = 80
    OBVIOUS
  <2> HIDE DEF m
  <2>2. ASSUME NEW g \in Hits(ProbePipe, m) PROVE FALSE
    <3>1. g \in EntriesOf(ProbePipe) /\ MatchAdapter(F, hw[g].match, m)
      BY <1>10 DEF Hits
    <3>2. PICK k \in 1 .. 11 : AdaptiveMain[k].op = "entry" /\ AdaptiveMain[k].pipe = ProbePipe
                               /\ hw[g] = EntryOf(AdaptiveMain[k])
      BY <1>1, <1>2, <3>1, Installed
    <3>3. ProbePipe # RssPipe(0) /\ ProbePipe # FwdPipe
      BY DEF ProbePipe, RssPipe, FwdPipe
    <3>4. k = 10
      BY <3>2, <3>3, ArEntries
    <3>5. hw[g].match.dst_port = 4788
      BY <1>7, <3>2, <3>4
    <3>6. hw[g].match.dst_port = m.dst_port
      BY <3>1 DEF MatchAdapter
    <3> QED
      BY <2>1, <3>5, <3>6
  <2>3. Fate(ProbePipe, m) = PIPE
    BY <1>10, <2>2 DEF Fate
  <2>4. Fate(FwdPipe, m) = PORT
    BY <1>8, <1>10, TakesAll
  <2>5. Walk(ProbePipe, m) = PORT
    BY <1>10, <2>3, <2>4 DEF Walk
  <2> QED
    BY <2>5 DEF m
<1> QED
  BY <1>11, <1>12 DEF ProbesReturn

(* Whatever pipe could not be built and whatever entry was refused or came  *)
(* late while main ran, with any number of entries outstanding in the       *)
(* hardware: a load balancer that runs has the entries of all its real      *)
(* servers and sends everything else to the cores, adaptive routing gets    *)
(* its probes back, and a port with conntrack enabled has its pipes and     *)
(* sees new connections, unless its RSS entry, whose result                 *)
(* flowQoS_conntrack_init_port ignores, was late.                           *)
THEOREM ServeSafety == Spec => []ReadyToServe
<1>1. ServeInv => ReadyToServe
  BY LbReady, TrafficSeen, ProbesBack DEF ReadyToServe, ServeInv
<1>2. Init => FwInv /\ ServeInv
  BY FwInit, ServeInit
<1>3. FwInv /\ ServeInv /\ [Next]_vars => (FwInv /\ ServeInv)'
  BY FwStep, ServeStep
<1> QED
  BY <1>1, <1>2, <1>3, PTL DEF Spec
=============================================================================
