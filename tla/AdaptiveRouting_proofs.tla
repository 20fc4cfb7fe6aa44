----------------------- MODULE AdaptiveRouting_proofs -----------------------
(***************************************************************************)
(* Proofs about the worker and adaptive routing: mbufs are conserved,      *)
(* packets stay in order and a flow only gets a path probed for it, for    *)
(* every burst size, ring, pool, number of paths and applications.         *)
(***************************************************************************)
EXTENDS AdaptiveRouting, FiniteSetTheorems, SequenceTheorems,
        WellFoundedInduction, TLAPS

-----------------------------------------------------------------------------
(* The inductive invariant.                                                 *)

Item == Packet \cup Reply
IsPacket(m) == m.kind # "reply"

Shape ==
  /\ app \in Apps /\ force_quit \in BOOLEAN
  /\ pc \in {"loop", "rx", "packet", "probe", "ended"}
  /\ port_id \in Ports
  /\ rx_burst \in Seq(Item) /\ Len(rx_burst) <= Burst
  /\ tx_burst \in [Ports -> Seq(Packet)]
  /\ rxq \in [Ports -> Seq(Item)]
  /\ \A q \in Ports : Len(tx_burst[q]) <= Burst /\ Len(rxq[q]) <= RxRing
  /\ counter \in 0 .. 3
  /\ free \in Nat /\ wire \in Nat /\ stranded \in Nat
  /\ arrived \in 0 .. MaxPackets[app]
  /\ last \in [Ports -> [Ports -> Nat]]
  /\ flowID \in Nat
  /\ net \in SUBSET [flow : Nat, sport : Nat]

(* The burst is there while its packets are processed; only adaptive        *)
(* routing sends probes and gets replies.                                   *)
Place ==
  /\ \A p \in Ports : \A i \in 1 .. Len(rxq[p]) : rxq[p][i].port = p
  /\ pc \notin {"packet", "probe"} => rx_burst = <<>>
  /\ pc = "probe" => rx_burst # <<>> /\ NeedsProbe(rx_burst[1])
  /\ app # "AR" =>
       /\ net = {}
       /\ \A p \in Ports : \A i \in 1 .. Len(rxq[p]) : IsPacket(rxq[p][i])
       /\ \A i \in 1 .. Len(rx_burst) : IsPacket(rx_burst[i])

(* Len, kept folded in sums.                                                *)
Size(s) == Len(s)

Total == free + wire + stranded + Size(rx_burst) + Size(rxq[0]) + Size(rxq[1])
           + Size(tx_burst[0]) + Size(tx_burst[1])

(* Two packets of one port, the first ahead of the second.                  *)
Ahead(m, o) ==
  IsPacket(m) /\ IsPacket(o) /\ m.port = o.port => m.n < o.n

Sorted(s) == \A i, j \in 1 .. Len(s) : i < j => Ahead(s[i], s[j])

Precedes(s, t) ==
  \A i \in 1 .. Len(s), j \in 1 .. Len(t) : Ahead(s[i], t[j])

(* With l for last and a for arrived: what the ports have taken is ahead of *)
(* m, and m has arrived.                                                    *)
Later(m, l, a) ==
  IsPacket(m) => m.n <= a /\ \A q \in Ports : l[q][m.port] < m.n

(* A packet passes rxq, rx_burst and tx_burst in this order, and none       *)
(* overtakes another.                                                       *)
Order ==
  /\ Sorted(rx_burst)
  /\ \A p \in Ports :
       /\ Sorted(rxq[p]) /\ Sorted(tx_burst[p])
       /\ Precedes(rx_burst, rxq[p])
       /\ Precedes(tx_burst[p], rx_burst)
       /\ \A q \in Ports : Precedes(tx_burst[q], rxq[p])
  /\ \A i \in 1 .. Len(rx_burst) : Later(rx_burst[i], last, arrived)
  /\ \A p \in Ports : \A i \in 1 .. Len(rxq[p]) : Later(rxq[p][i], last, arrived)
  /\ \A q \in Ports : \A i \in 1 .. Len(tx_burst[q]) :
       LET m == tx_burst[q][i] IN last[q][m.port] < m.n /\ m.n <= arrived
  /\ \A q, p \in Ports : last[q][p] <= arrived

(* The number of the flow is that of a packet already probed.               *)
Fresh(m, f) == m.kind = "new" /\ m.port = 0 => f < m.n

Flows ==
  /\ flowID <= arrived
  /\ \A p \in Ports : \A i \in 1 .. Len(rxq[p]) : Fresh(rxq[p][i], flowID)
  /\ \A i \in 1 .. Len(rx_burst) : i > 1 \/ pc # "probe" => Fresh(rx_burst[i], flowID)

Probed(m) ==
  IsPacket(m) /\ m.path # 0 => \E p \in 0 .. Paths - 1 : m.path = Path(m.sport, p)

(* A probe or a reply of the flow that is being probed has one of its paths. *)
OfFlow(r, f, c, b) ==
  /\ r.flow <= f
  /\ c = "probe" /\ r.flow = f =>
       \E p \in 0 .. Paths - 1 : r.sport = Path(b[1].sport, p)

OnPath ==
  app = "AR" =>
    /\ \A p \in Ports : \A i \in 1 .. Len(rxq[p]) :
         /\ Probed(rxq[p][i])
         /\ ~IsPacket(rxq[p][i]) => OfFlow(rxq[p][i], flowID, pc, rx_burst)
    /\ \A i \in 1 .. Len(rx_burst) : Probed(rx_burst[i])
    /\ \A q \in Ports : \A i \in 1 .. Len(tx_burst[q]) : Probed(tx_burst[q][i])
    /\ \A r \in net : OfFlow(r, flowID, pc, rx_burst)

Inv == Shape /\ Place /\ Total = Mbufs /\ Order /\ Flows /\ OnPath

-----------------------------------------------------------------------------
(* Lemmas on numbers and sequences.                                         *)

(* A non-empty set of naturals has a least element.                         *)
LEMMA LeastNumber ==
  ASSUME NEW T \in SUBSET Nat, T # {}
  PROVE  \E m \in T : \A k \in T : m <= k
<1>1. PICK x \in T : \A y \in T : ~ (<<y, x>> \in OpToRel(<, Nat))
  BY WFMin, NatLessThanWellFounded
<1>2. \A y \in T : ~ (y < x)
  BY <1>1 DEF OpToRel
<1> QED
  BY <1>2

(* Max is the largest element of a bounded set: its least upper bound is    *)
(* an element.                                                              *)
LEMMA MaxOf ==
  ASSUME NEW n \in Nat, NEW S \in SUBSET (1 .. n), S # {}
  PROVE  Max(S) \in S /\ \A k \in S : k <= Max(S)
<1> DEFINE B == {b \in Nat : \A k \in S : k <= b}
<1>1. B \in SUBSET Nat /\ n \in B
  OBVIOUS
<1>2. PICK b \in B : \A k \in B : b <= k
  BY <1>1, LeastNumber
<1>3. b \in S
  <2> SUFFICES ASSUME b \notin S PROVE FALSE
    OBVIOUS
  <2>1. \A k \in S : k <= b - 1
    BY <1>2
  <2>2. PICK k \in S : TRUE
    OBVIOUS
  <2>3. b - 1 \in Nat
    BY <1>2, <2>1, <2>2
  <2> QED
    BY <1>2, <2>1, <2>3
<1>4. \E x \in S : \A y \in S : x >= y
  BY <1>2, <1>3
<1> QED
  BY <1>4 DEF Max

LEMMA TailFacts ==
  ASSUME NEW S, NEW s \in Seq(S), s # <<>>
  PROVE  /\ Len(s) >= 1 /\ Len(s) \in Nat
         /\ Head(s) = s[1] /\ s[1] \in S
         /\ Tail(s) \in Seq(S) /\ Len(Tail(s)) = Len(s) - 1
         /\ \A i \in 1 .. Len(s) - 1 : Tail(s)[i] = s[i + 1]
  OBVIOUS

LEMMA AppendFacts ==
  ASSUME NEW S, NEW s \in Seq(S), NEW m \in S
  PROVE  /\ Append(s, m) \in Seq(S)
         /\ Len(s) \in Nat /\ Len(Append(s, m)) = Len(s) + 1
         /\ \A i \in 1 .. Len(s) : Append(s, m)[i] = s[i]
         /\ Append(s, m)[Len(s) + 1] = m
  OBVIOUS

(* What a burst takes and what it leaves.                                   *)
LEMMA SplitFacts ==
  ASSUME NEW S, NEW s \in Seq(S), NEW n \in 0 .. Len(s)
  PROVE  /\ SubSeq(s, 1, n) \in Seq(S) /\ Len(SubSeq(s, 1, n)) = n
         /\ \A i \in 1 .. n : SubSeq(s, 1, n)[i] = s[i]
         /\ SubSeq(s, n + 1, Len(s)) \in Seq(S)
         /\ Len(SubSeq(s, n + 1, Len(s))) = Len(s) - n
         /\ \A i \in 1 .. Len(s) - n : SubSeq(s, n + 1, Len(s))[i] = s[i + n]
<1>1. /\ Len(s) \in Nat
      /\ \A i \in 1 .. n : s[i] \in S
      /\ \A i \in n + 1 .. Len(s) : s[i] \in S
  OBVIOUS
<1>2. /\ SubSeq(s, 1, n) \in Seq(S) /\ Len(SubSeq(s, 1, n)) = n
      /\ \A i \in 1 .. n : SubSeq(s, 1, n)[i] = s[i]
  BY <1>1, SubSeqProperties
<1>3. /\ SubSeq(s, n + 1, Len(s)) \in Seq(S)
      /\ Len(SubSeq(s, n + 1, Len(s))) = Len(s) - n
      /\ \A i \in 1 .. Len(s) - n : SubSeq(s, n + 1, Len(s))[i] = s[n + 1 + i - 1]
  BY <1>1, SubSeqProperties
<1> QED
  BY <1>1, <1>2, <1>3

(* How Sorted and Precedes go with these operations.                        *)
LEMMA AppendOrder ==
  ASSUME NEW S, NEW s \in Seq(S), NEW m \in S
  PROVE  /\ Sorted(s) /\ (\A i \in 1 .. Len(s) : Ahead(s[i], m)) => Sorted(Append(s, m))
         /\ \A t : Precedes(s, t) /\ (\A j \in 1 .. Len(t) : Ahead(m, t[j]))
                     => Precedes(Append(s, m), t)
         /\ \A t : Precedes(t, s) /\ (\A j \in 1 .. Len(t) : Ahead(t[j], m))
                     => Precedes(t, Append(s, m))
<1> DEFINE r == Append(s, m)
<1>1. /\ Len(s) \in Nat /\ Len(r) = Len(s) + 1
      /\ \A i \in 1 .. Len(s) : r[i] = s[i]
      /\ r[Len(s) + 1] = m
  BY AppendFacts
<1> HIDE DEF r
<1>2. \A i \in 1 .. Len(r) : i \in 1 .. Len(s) \/ i = Len(s) + 1
  BY <1>1
<1>3. ASSUME Sorted(s), \A i \in 1 .. Len(s) : Ahead(s[i], m)
      PROVE  Sorted(r)
  BY <1>1, <1>2, <1>3 DEF Sorted
<1>4. ASSUME NEW t, Precedes(s, t), \A j \in 1 .. Len(t) : Ahead(m, t[j])
      PROVE  Precedes(r, t)
  BY <1>1, <1>2, <1>4 DEF Precedes
<1>5. ASSUME NEW t, Precedes(t, s), \A j \in 1 .. Len(t) : Ahead(t[j], m)
      PROVE  Precedes(t, r)
  BY <1>1, <1>2, <1>5 DEF Precedes
<1> QED
  BY <1>3, <1>4, <1>5 DEF r

LEMMA TailOrder ==
  ASSUME NEW S, NEW s \in Seq(S), s # <<>>
  PROVE  /\ Sorted(s) => Sorted(Tail(s)) /\ \A j \in 1 .. Len(Tail(s)) : Ahead(s[1], Tail(s)[j])
         /\ \A t : Precedes(s, t) => Precedes(Tail(s), t)
         /\ \A t : Precedes(t, s) => Precedes(t, Tail(s))
<1> DEFINE r == Tail(s)
<1>1. /\ Len(s) \in Nat /\ Len(s) >= 1 /\ Len(r) = Len(s) - 1
      /\ \A i \in 1 .. Len(s) - 1 : r[i] = s[i + 1]
  BY TailFacts
<1> HIDE DEF r
<1>2. \A i \in 1 .. Len(r) : i + 1 \in 1 .. Len(s) /\ r[i] = s[i + 1]
  BY <1>1
<1>3. ASSUME Sorted(s)
      PROVE  Sorted(r) /\ \A j \in 1 .. Len(r) : Ahead(s[1], r[j])
  <2>1. Sorted(r)
    BY SMTT(30), <1>1, <1>2, <1>3 DEF Sorted
  <2>2. ASSUME NEW j \in 1 .. Len(r) PROVE Ahead(s[1], r[j])
    BY <1>1, <1>2, <1>3 DEF Sorted
  <2> QED
    BY <2>1, <2>2
<1>4. ASSUME NEW t, Precedes(s, t) PROVE Precedes(r, t)
  BY <1>2, <1>4 DEF Precedes
<1>5. ASSUME NEW t, Precedes(t, s) PROVE Precedes(t, r)
  BY <1>2, <1>5 DEF Precedes
<1> QED
  BY <1>3, <1>4, <1>5 DEF r

(* a is the first n elements of s and b the others.                         *)
Split(s, n, a, b) ==
  /\ Len(s) \in Nat /\ n \in Nat
  /\ \A i \in 1 .. Len(a) : i \in 1 .. Len(s) /\ i <= n /\ a[i] = s[i]
  /\ \A i \in 1 .. Len(b) : i + n \in 1 .. Len(s) /\ i + n > n /\ b[i] = s[i + n]

LEMMA SplitOrder ==
  ASSUME NEW s, NEW n, NEW a, NEW b, Split(s, n, a, b)
  PROVE  /\ Sorted(s) => Sorted(a) /\ Sorted(b) /\ Precedes(a, b)
         /\ \A t : Precedes(s, t) => Precedes(a, t) /\ Precedes(b, t)
         /\ \A t : Precedes(t, s) => Precedes(t, a) /\ Precedes(t, b)
<1>1. /\ Len(s) \in Nat /\ n \in Nat
      /\ \A i \in 1 .. Len(a) : i \in 1 .. Len(s) /\ i <= n /\ a[i] = s[i]
      /\ \A i \in 1 .. Len(b) : i + n \in 1 .. Len(s) /\ i + n > n /\ b[i] = s[i + n]
  BY DEF Split
<1>2. ASSUME Sorted(s) PROVE Sorted(a) /\ Sorted(b) /\ Precedes(a, b)
  BY <1>1, <1>2 DEF Sorted, Precedes
<1>3. ASSUME NEW t, Precedes(s, t) PROVE Precedes(a, t) /\ Precedes(b, t)
  BY <1>1, <1>3 DEF Precedes
<1>4. ASSUME NEW t, Precedes(t, s) PROVE Precedes(t, a) /\ Precedes(t, b)
  BY <1>1, <1>4 DEF Precedes
<1> QED
  BY <1>2, <1>3, <1>4

LEMMA PortsFacts == 0 \in Ports /\ 1 \in Ports /\ \A p \in Ports : p = 0 \/ p = 1
  BY DEF Ports

LEMMA Typed ==
  ASSUME Shape
  PROVE  /\ \A q \in Ports : /\ tx_burst[q] \in Seq(Packet) /\ rxq[q] \in Seq(Item)
                             /\ tx_burst[q] \in Seq(Item)
                             /\ Size(tx_burst[q]) \in Nat /\ Size(rxq[q]) \in Nat
         /\ rx_burst \in Seq(Item) /\ Size(rx_burst) \in Nat
<1>1. \A q \in Ports : tx_burst[q] \in Seq(Packet) /\ rxq[q] \in Seq(Item)
  BY DEF Shape
<1>2. rx_burst \in Seq(Item)
  BY DEF Shape
<1>3. \A q \in Ports : tx_burst[q] \in Seq(Item)
  BY <1>1, SeqMonotonic DEF Item
<1> QED
  BY <1>1, <1>2, <1>3, LenProperties DEF Size

LEMMA Numbers ==
  ASSUME Shape
  PROVE  /\ free \in Nat /\ wire \in Nat /\ stranded \in Nat /\ flowID \in Nat
         /\ arrived \in Nat /\ Mbufs \in Nat /\ MaxPackets[app] \in Nat
         /\ \A q, p \in Ports : last[q][p] \in Nat
<1>1. app \in Apps /\ MaxPackets[app] \in Nat /\ Mbufs \in Nat
  BY WorkerAssumption DEF Shape
<1>2. \A q, p \in Ports : last[q][p] \in Nat
  BY DEF Shape
<1> QED
  BY <1>1, <1>2 DEF Shape

LEMMA Elements ==
  ASSUME Shape
  PROVE  /\ \A i \in 1 .. Len(rx_burst) : rx_burst[i] \in Item
         /\ \A q \in Ports : /\ \A i \in 1 .. Len(rxq[q]) : rxq[q][i] \in Item
                             /\ \A i \in 1 .. Len(tx_burst[q]) : tx_burst[q][i] \in Item
  BY Typed, ElementOfSeq

(* A transmit buffer holds packets only.                                    *)
LEMMA Buffered ==
  ASSUME Shape, NEW q \in Ports, NEW i \in 1 .. Len(tx_burst[q])
  PROVE  tx_burst[q][i] \in Packet /\ IsPacket(tx_burst[q][i])
<1>1. tx_burst[q][i] \in Packet
  BY Typed, ElementOfSeq
<1> QED
  BY <1>1 DEF IsPacket, Packet, Kinds

(* The lengths of two queues of which only one changes.                     *)
LEMMA SumOfPorts ==
  ASSUME NEW f, NEW g, NEW p \in Ports,
         \A q \in Ports : Size(f[q]) \in Nat, Size(g[p]) \in Nat,
         \A q \in Ports : q # p => g[q] = f[q]
  PROVE  /\ Size(g[0]) \in Nat /\ Size(g[1]) \in Nat
         /\ Size(g[0]) + Size(g[1]) + Size(f[p]) = Size(f[0]) + Size(f[1]) + Size(g[p])
  BY DEF Ports

LEMMA TotalOf ==
  ASSUME Shape
  PROVE  /\ free \in Nat /\ wire \in Nat /\ stranded \in Nat /\ Size(rx_burst) \in Nat
         /\ Size(rxq[0]) \in Nat /\ Size(rxq[1]) \in Nat
         /\ Size(tx_burst[0]) \in Nat /\ Size(tx_burst[1]) \in Nat
  BY Numbers, Typed, PortsFacts

-----------------------------------------------------------------------------
(* The steps.                                                               *)

LEMMA InitInv == Init => Inv
<1> SUFFICES ASSUME Init PROVE Inv
  OBVIOUS
<1> USE DEF Init, WorkerInit
<1>1. Shape
  <2>1. /\ rx_burst \in Seq(Item) /\ Len(rx_burst) = 0
        /\ tx_burst \in [Ports -> Seq(Packet)]
        /\ rxq \in [Ports -> Seq(Item)]
        /\ \A q \in Ports : Len(tx_burst[q]) = 0 /\ Len(rxq[q]) = 0
    OBVIOUS
  <2>2. MaxPackets[app] \in Nat /\ Burst \in Nat /\ RxRing \in Nat /\ Mbufs \in Nat
    BY WorkerAssumption
  <2>3. last \in [Ports -> [Ports -> Nat]] /\ net \in SUBSET [flow : Nat, sport : Nat]
    OBVIOUS
  <2>7. force_quit \in BOOLEAN
    OBVIOUS
  <2>4. /\ app \in Apps /\ port_id \in Ports
        /\ counter \in 0 .. 3 /\ arrived \in 0 .. MaxPackets[app]
        /\ free \in Nat /\ wire \in Nat /\ stranded \in Nat /\ flowID \in Nat
    BY <2>2, WorkerAssumption DEF Ports
  <2>5. \A q \in Ports : Len(tx_burst[q]) <= Burst /\ Len(rxq[q]) <= RxRing
    BY <2>1, <2>2
  <2>6. pc \in {"loop", "rx", "packet", "probe", "ended"} /\ Len(rx_burst) <= Burst
    BY <2>1, <2>2
  <2> QED
    BY <2>1, <2>3, <2>4, <2>5, <2>6, <2>7 DEF Shape
<1>2. /\ rx_burst = <<>> /\ Len(rx_burst) = 0
      /\ \A p \in Ports : Len(rxq[p]) = 0 /\ Len(tx_burst[p]) = 0
  BY DEF Ports
<1>3. Place
  BY <1>2 DEF Place
<1>4. Total = Mbufs
  BY <1>2, PortsFacts, WorkerAssumption DEF Total, Size
<1>5. Order
  BY <1>2 DEF Order, Sorted, Precedes
<1>6. Flows
  BY <1>2 DEF Flows
<1>7. OnPath
  BY <1>2 DEF OnPath
<1> QED
  BY <1>1, <1>3, <1>4, <1>5, <1>6, <1>7 DEF Inv

(* The packets of the network card are new.                                 *)
LEMMA ArriveStep ==
  ASSUME Inv, NEW p \in Ports, NEW kind \in Kinds, NEW s \in Sports \cup {0},
         Arrive(p, kind, s), UNCHANGED probeVars
  PROVE  Inv'
<1> DEFINE m == [port |-> p, n |-> arrived + 1, kind |-> kind, sport |-> s, path |-> 0]
<1>a. Shape /\ Place /\ Total = Mbufs /\ Order /\ Flows /\ OnPath
  BY DEF Inv
<1>b. /\ free > 0 /\ Len(rxq[p]) < RxRing /\ arrived < MaxPackets[app]
      /\ free' = free - 1 /\ arrived' = arrived + 1
      /\ rxq' = [rxq EXCEPT ![p] = Append(rxq[p], m)]
      /\ UNCHANGED <<app, force_quit, pc, port_id, rx_burst, tx_burst, counter,
                     wire, last, stranded, flowID, net>>
  BY DEF Arrive, probeVars
<1>d. /\ free' = free - 1 /\ arrived' = arrived + 1
      /\ UNCHANGED <<app, pc, rx_burst, tx_burst, wire, last, stranded, flowID, net>>
  BY <1>b
<1>c. MaxPackets[app] \in Nat /\ arrived \in Nat /\ p \in {0, 1} /\ s \in Nat
  BY <1>a, WorkerAssumption DEF Shape, Ports
<1>1. m \in Packet
  BY <1>b, <1>c DEF Packet
<1>2. /\ m.port = p /\ m.n = arrived + 1 /\ m.kind = kind /\ m.path = 0
      /\ kind # "reply"
  BY DEF Kinds
<1> HIDE DEF m
<1>3. /\ rxq[p] \in Seq(Item) /\ m \in Item
      /\ Len(rxq[p]) \in Nat
      /\ rxq'[p] = Append(rxq[p], m)
      /\ \A o \in Ports : o # p => rxq'[o] = rxq[o]
  BY <1>a, <1>b, <1>1 DEF Shape, Item
<1>4. /\ rxq'[p] \in Seq(Item)
      /\ Len(rxq'[p]) = Len(rxq[p]) + 1
      /\ \A i \in 1 .. Len(rxq[p]) : rxq'[p][i] = rxq[p][i]
      /\ rxq'[p][Len(rxq[p]) + 1] = m
  BY <1>3, AppendFacts
<1>5. /\ \A i \in 1 .. Len(rxq'[p]) :
           \/ i \in 1 .. Len(rxq[p]) /\ rxq'[p][i] = rxq[p][i]
           \/ rxq'[p][i] = m
  BY <1>3, <1>4
<1>6. Shape'
  <2>1. rxq' \in [Ports -> Seq(Item)]
    BY <1>a, <1>b, <1>3, <1>4 DEF Shape
  <2>2. Item' = Item /\ Packet' = Packet
    BY <1>b DEF Item, Packet, Reply
  <2>3. \A q \in Ports : Len(rxq'[q]) <= RxRing
    BY WorkerAssumption, <1>a, <1>b, <1>3, <1>4 DEF Shape
  <2>4. arrived' \in 0 .. MaxPackets[app]' /\ free' \in Nat
    BY SMTT(30), <1>a, <1>b, <1>c DEF Shape
  <2> QED
    BY <1>a, <1>b, <2>1, <2>2, <2>3, <2>4 DEF Shape
<1>7. Place'
  BY <1>a, <1>b, <1>2, <1>3, <1>5 DEF Place, IsPacket, NeedsProbe
<1>8. Total' = Mbufs
  <2>1. /\ Size(rxq'[p]) = Size(rxq[p]) + 1 /\ Size(rxq'[p]) \in Nat
        /\ Size(rxq[p]) \in Nat
    BY <1>3, <1>4 DEF Size
  <2>2. \A q \in Ports : Size(rxq[q]) \in Nat
    BY <1>a, Typed
  <2>3. /\ Size(rxq'[0]) \in Nat /\ Size(rxq'[1]) \in Nat
        /\ Size(rxq'[0]) + Size(rxq'[1]) + Size(rxq[p])
             = Size(rxq[0]) + Size(rxq[1]) + Size(rxq'[p])
    BY <1>3, <2>1, <2>2, SumOfPorts
  <2>4. Shape /\ Total = Mbufs
    BY <1>a
  <2> QED
    BY <1>d, <2>1, <2>3, <2>4, TotalOf DEF Total
<1>9. Order'
  <2>1. \A x \in Item : Later(x, last, arrived) => Ahead(x, m)
    BY <1>c, <1>2 DEF Later, Ahead, Item, Packet, Reply, IsPacket
  <2>2. Sorted(rxq'[p]) /\ Precedes(rx_burst, rxq'[p])
    BY <1>a, <1>3, <2>1, Elements, AppendOrder DEF Order
  <2>3. \A q \in Ports : Precedes(tx_burst[q], rxq'[p])
    <3> TAKE q \in Ports
    <3>1. \A i \in 1 .. Len(tx_burst[q]) : Ahead(tx_burst[q][i], m)
      BY <1>a, <1>c, <1>2, Elements DEF Order, Ahead, Item, Packet, Reply, IsPacket
    <3> QED
      BY <1>a, <1>3, <3>1, AppendOrder DEF Order
  <2>4. \A x \in Item : Later(x, last, arrived) => Later(x, last', arrived')
    BY <1>b, <1>c DEF Later, Item, Packet, Reply, IsPacket
  <2>5. Later(m, last', arrived')
    <3>1. \A q \in Ports : last[q][p] \in Nat /\ last[q][p] <= arrived
      BY <1>a, Numbers DEF Order
    <3>2. \A q \in Ports : last'[q][m.port] < m.n
      BY <1>c, <1>d, <1>2, <3>1
    <3>3. m.n <= arrived'
      BY <1>c, <1>d, <1>2
    <3> QED
      BY <3>2, <3>3 DEF Later
  <2>6. \A o \in Ports : \A i \in 1 .. Len(rxq'[o]) : Later(rxq'[o][i], last', arrived')
    <3> TAKE o \in Ports
    <3>1. CASE o = p
      BY <1>a, <1>5, <2>4, <2>5, <3>1, Elements DEF Order
    <3>2. CASE o # p
      BY <1>a, <1>3, <2>4, <3>2, Elements DEF Order
    <3> QED
      BY <3>1, <3>2
  <2>7. \A i \in 1 .. Len(rx_burst) : Later(rx_burst[i], last', arrived')
    BY <1>a, <2>4, Elements DEF Order
  <2>8. \A o \in Ports : \A q \in Ports :
          /\ Sorted(rxq'[o]) /\ Precedes(rx_burst, rxq'[o]) 
          /\ Precedes(tx_burst[q], rxq'[o])
    BY <1>a, <1>3, <2>2, <2>3 DEF Order
  <2>9. \A q \in Ports : \A i \in 1 .. Len(tx_burst[q]) : tx_burst[q][i].n <= arrived'
    <3>1. \A q \in Ports : \A i \in 1 .. Len(tx_burst[q]) :
             tx_burst[q][i] \in Packet /\ tx_burst[q][i].n <= arrived
      BY <1>a, Typed, ElementOfSeq DEF Order
    <3>2. \A x \in Packet : x.n \in Nat
      BY <1>c DEF Packet
    <3> QED
      BY <1>b, <1>c, <3>1, <3>2
  <2>10. \A q, o \in Ports : last[q][o] <= arrived'
    <3>1. \A q, o \in Ports : last[q][o] \in Nat /\ last[q][o] <= arrived
      BY <1>a, Numbers DEF Order
    <3> QED
      BY <1>b, <1>c, <3>1
  <2> QED
    BY <1>a, <1>b, <2>6, <2>7, <2>8, <2>9, <2>10 DEF Order
<1>10. Flows'
  <2>1. \A o \in Ports : \A i \in 1 .. Len(rxq'[o]) : Fresh(rxq'[o][i], flowID')
    <3> TAKE o \in Ports
    <3>1. CASE o = p
      <4>1. Fresh(m, flowID)
        BY <1>a, <1>c, <1>2, Numbers DEF Flows, Fresh
      <4> QED
        BY <1>a, <1>b, <1>5, <3>1, <4>1 DEF Flows
    <3>2. CASE o # p
      BY <1>a, <1>b, <1>3, <3>2 DEF Flows, Fresh
    <3> QED
      BY <3>1, <3>2
  <2>2. flowID' <= arrived'
    BY <1>a, <1>b, <1>c, Numbers DEF Flows
  <2> QED
    BY <1>a, <1>b, <2>1, <2>2 DEF Flows, Fresh
<1>11. OnPath'
  <2> SUFFICES ASSUME app = "AR" PROVE OnPath'
    BY <1>b DEF OnPath
  <2>1. \A o \in Ports : \A i \in 1 .. Len(rxq'[o]) :
          /\ Probed(rxq'[o][i])
          /\ ~IsPacket(rxq'[o][i]) => OfFlow(rxq'[o][i], flowID, pc, rx_burst)
    <3> TAKE o \in Ports
    <3>1. Probed(m) /\ IsPacket(m)
      BY <1>2 DEF Probed, IsPacket
    <3>2. CASE o = p
      BY <1>a, <1>5, <3>1, <3>2 DEF OnPath
    <3>3. CASE o # p
      BY <1>a, <1>3, <3>3 DEF OnPath
    <3> QED
      BY <3>2, <3>3
  <2> QED
    BY <1>a, <1>b, <2>1 DEF OnPath, OfFlow
<1> QED
  BY <1>6, <1>7, <1>8, <1>9, <1>10, <1>11 DEF Inv

(* Steps that leave every queue alone.                                      *)
LEMMA QuietStep ==
  ASSUME Inv, UNCHANGED <<app, rx_burst, tx_burst, rxq, arrived, last, flowID>>,
         Shape', Place', free' + wire' + stranded' = free + wire + stranded,
         net' \subseteq net, pc' = "probe" <=> pc = "probe"
  PROVE  Inv'
<1>a. Shape /\ Place /\ Total = Mbufs /\ Order /\ Flows /\ OnPath
  BY DEF Inv
<1>1. Total' = Mbufs
  <2>1. Shape /\ Total = Mbufs
    BY <1>a
  <2>2. free' \in Nat /\ wire' \in Nat /\ stranded' \in Nat
    BY DEF Shape
  <2> QED
    BY <2>1, <2>2, TotalOf DEF Total
<1>2. Order'
  BY <1>a DEF Order
<1>3. Flows'
  BY <1>a DEF Flows
<1>4. OnPath'
  <2>1. \A r : OfFlow(r, flowID, pc, rx_burst) => OfFlow(r, flowID, pc', rx_burst)
    BY DEF OfFlow
  <2> QED
    BY <1>a, <2>1 DEF OnPath
<1> QED
  BY <1>1, <1>2, <1>3, <1>4 DEF Inv

LEMMA TxDoneStep ==
  ASSUME Inv, TxDone, UNCHANGED probeVars
  PROVE  Inv'
<1>1. Shape /\ Place
  BY DEF Inv
<1>2. /\ wire > 0 /\ wire' = wire - 1 /\ free' = free + 1
      /\ UNCHANGED <<app, force_quit, pc, port_id, rx_burst, tx_burst, counter,
                     rxq, arrived, last, stranded, flowID, net>>
  BY DEF TxDone, probeVars
<1>3. free' \in Nat /\ wire' \in Nat
  BY <1>1, <1>2, Numbers
<1>4. Shape'
  BY <1>1, <1>2, <1>3 DEF Shape, Item, Packet, Reply
<1>5. Place'
  BY <1>1, <1>2 DEF Place, NeedsProbe
<1>6. free' + wire' + stranded' = free + wire + stranded
  BY <1>1, <1>2, Numbers
<1> QED
  BY <1>2, <1>4, <1>5, <1>6, QuietStep

LEMMA LoopStep ==
  ASSUME Inv, Loop, UNCHANGED probeVars
  PROVE  Inv'
<1>1. Shape /\ Place
  BY DEF Inv
<1>2. /\ pc = "loop" /\ pc' \in {"ended", "rx"} /\ port_id' = 0
      /\ UNCHANGED <<app, force_quit, rx_burst, tx_burst, counter, free, rxq, wire,
                     arrived, last, stranded, flowID, net>>
  BY DEF Loop, probeVars
<1>4. Shape'
  BY <1>1, <1>2, PortsFacts DEF Shape, Item, Packet, Reply
<1>5. Place'
  BY <1>1, <1>2 DEF Place, NeedsProbe
<1> QED
  BY <1>2, <1>4, <1>5, QuietStep

LEMMA StopStep ==
  ASSUME Inv, Stop, UNCHANGED probeVars
  PROVE  Inv'
<1>1. Shape /\ Place
  BY DEF Inv
<1>2. UNCHANGED <<app, pc, port_id, rx_burst, tx_burst, counter, free, rxq, wire,
                  arrived, last, stranded, flowID, net>>
  BY DEF Stop, probeVars
<1>3. force_quit' \in BOOLEAN
  BY DEF Stop
<1>4. Shape'
  BY <1>1, <1>2, <1>3 DEF Shape, Item, Packet, Reply
<1>5. Place'
  BY <1>1, <1>2 DEF Place, NeedsProbe
<1> QED
  BY <1>2, <1>4, <1>5, QuietStep

LEMMA LoseStep ==
  ASSUME Inv, NEW r \in net, Lose(r)
  PROVE  Inv'
<1>1. Shape /\ Place
  BY DEF Inv
<1>2. /\ net' = net \ {r}
      /\ UNCHANGED <<app, force_quit, pc, port_id, rx_burst, tx_burst, counter, free,
                     rxq, wire, arrived, last, stranded, flowID>>
  BY DEF Lose, workerVars
<1>4. Shape'
  BY <1>1, <1>2 DEF Shape, Item, Packet, Reply
<1>5. Place'
  BY <1>1, <1>2 DEF Place, NeedsProbe
<1> QED
  BY <1>2, <1>4, <1>5, QuietStep

LEMMA StutterStep ==
  ASSUME Inv, UNCHANGED vars
  PROVE  Inv'
<1>1. Shape /\ Place
  BY DEF Inv
<1>2. UNCHANGED <<app, force_quit, pc, port_id, rx_burst, tx_burst, counter, free,
                  rxq, wire, arrived, last, stranded, flowID, net>>
  BY DEF vars, workerVars, probeVars
<1>4. Shape'
  BY <1>1, <1>2 DEF Shape, Item, Packet, Reply
<1>5. Place'
  BY <1>1, <1>2 DEF Place, NeedsProbe
<1> QED
  BY <1>2, <1>4, <1>5, QuietStep

(* A burst moves from the head of a receive queue to rx_burst.              *)
LEMMA ReceiveStep ==
  ASSUME Inv, Receive, UNCHANGED probeVars
  PROVE  Inv'
<1> DEFINE p == port_id
           n == Available(rxq[p], Burst)
           a == SubSeq(rxq[p], 1, n)
           b == SubSeq(rxq[p], n + 1, Len(rxq[p]))
<1>a. Shape /\ Place /\ Total = Mbufs /\ Order /\ Flows /\ OnPath
  BY DEF Inv
<1>b. /\ pc = "rx" /\ pc' = "packet" /\ rx_burst' = a
      /\ rxq' = [rxq EXCEPT ![p] = b]
  BY DEF Receive
<1>c. UNCHANGED <<app, force_quit, port_id, tx_burst, counter, free, wire,
                  arrived, last, stranded, flowID, net>>
  BY DEF Receive, probeVars
<1>d. rxq[p] \in Seq(Item) /\ p \in Ports
  BY <1>a, Typed DEF Shape
<1>e. n \in 0 .. Len(rxq[p]) /\ n <= Burst
  BY <1>d, WorkerAssumption DEF Available
<1> HIDE DEF n
<1>f. rx_burst = <<>> /\ Len(rx_burst) = 0
  BY <1>a, <1>b DEF Place
<1>1. /\ a \in Seq(Item) /\ Len(a) = n
      /\ b \in Seq(Item) /\ Len(b) = Len(rxq[p]) - n
      /\ \A i \in 1 .. Len(a) : i \in 1 .. Len(rxq[p]) /\ a[i] = rxq[p][i]
      /\ \A i \in 1 .. Len(b) : i + n \in 1 .. Len(rxq[p]) /\ b[i] = rxq[p][i + n]
  BY <1>d, <1>e, SplitFacts
<1>2. /\ Sorted(rxq[p]) => Sorted(a) /\ Sorted(b) /\ Precedes(a, b)
      /\ \A t : Precedes(t, rxq[p]) => Precedes(t, a) /\ Precedes(t, b)
      /\ \A t : Precedes(rxq[p], t) => Precedes(a, t) /\ Precedes(b, t)
  <2>1. Split(rxq[p], n, a, b)
    BY SMTT(30), <1>d, <1>e, <1>1 DEF Split
  <2> HIDE DEF a, b, p
  <2> QED
    BY <2>1, SplitOrder
<1>3. rxq'[p] = b /\ \A o \in Ports : o # p => rxq'[o] = rxq[o]
  BY <1>a, <1>b, <1>d DEF Shape
<1>4. rxq' \in [Ports -> Seq(Item)]
  BY <1>a, <1>b, <1>1 DEF Shape
<1>g. rx_burst' = a /\ pc' = "packet" /\ pc = "rx"
  BY <1>b
<1> HIDE DEF a, b, p
<1>5. Shape'
  <2>1. \A o \in Ports : Len(rxq'[o]) <= RxRing
    <3>1. Len(b) <= Len(rxq[p]) /\ Len(rxq[p]) \in Nat /\ Len(b) \in Nat
      BY <1>d, <1>e, <1>1
    <3>2. \A o \in Ports : Len(rxq[o]) <= RxRing
      BY <1>a DEF Shape
    <3>3. Len(b) <= RxRing
      BY <1>d, <3>1, <3>2, WorkerAssumption
    <3> QED
      BY <1>3, <3>2, <3>3
  <2>2. Item' = Item /\ Packet' = Packet
    BY <1>c DEF Item, Packet, Reply
  <2>3. a \in Seq(Item) /\ Len(a) <= Burst
    BY <1>e, <1>1
  <2> QED
    BY <1>a, <1>c, <1>g, <1>4, <2>1, <2>2, <2>3 DEF Shape
<1>h. \A o \in Ports : \A i \in 1 .. Len(rxq'[o]) :
         \E j \in 1 .. Len(rxq[o]) : rxq'[o][i] = rxq[o][j]
  <2> TAKE o \in Ports
  <2>1. CASE o = p
    BY <1>1, <1>3, <2>1
  <2>2. CASE o # p
    BY <1>3, <2>2
  <2> QED
    BY <2>1, <2>2
<1>6. Place'
  <2>1. \A o \in Ports : \A i \in 1 .. Len(rxq'[o]) : rxq'[o][i].port = o
    BY <1>a, <1>h DEF Place
  <2>2. ASSUME app # "AR"
        PROVE  /\ \A o \in Ports : \A i \in 1 .. Len(rxq'[o]) : IsPacket(rxq'[o][i])
               /\ \A i \in 1 .. Len(a) : IsPacket(a[i])
    <3>1. \A o \in Ports : \A i \in 1 .. Len(rxq[o]) : IsPacket(rxq[o][i])
      BY <1>a, <2>2 DEF Place
    <3>2. \A o \in Ports : \A i \in 1 .. Len(rxq'[o]) : IsPacket(rxq'[o][i])
      BY <1>h, <3>1
    <3>3. \A i \in 1 .. Len(a) : IsPacket(a[i])
      BY <1>d, <1>1, <3>1
    <3> QED
      BY <3>2, <3>3
  <2> QED
    BY <1>a, <1>c, <1>g, <2>1, <2>2 DEF Place
<1>7. Total' = Mbufs
  <2>1. Size(a) = n /\ Size(b) = Size(rxq[p]) - n /\ Size(rx_burst) = 0 /\ n \in Nat
    BY <1>e, <1>f, <1>1 DEF Size
  <2>2. \A q \in Ports : Size(rxq[q]) \in Nat
    BY <1>a, Typed
  <2>3. Size(rxq'[p]) \in Nat /\ Size(rxq[p]) \in Nat
    BY <1>d, <1>1, <1>3, <2>2, LenProperties DEF Size
  <2>4. /\ Size(rxq'[0]) \in Nat /\ Size(rxq'[1]) \in Nat
        /\ Size(rxq'[0]) + Size(rxq'[1]) + Size(rxq[p])
             = Size(rxq[0]) + Size(rxq[1]) + Size(rxq'[p])
    BY <1>d, <1>3, <2>2, <2>3, SumOfPorts
  <2>5. Shape /\ Total = Mbufs /\ rx_burst' = a /\ rxq'[p] = b
    BY <1>a, <1>g, <1>3
  <2> QED
    BY <1>c, <2>1, <2>3, <2>4, <2>5, TotalOf DEF Total
<1>8. Order'
  <2>1. Sorted(a) /\ Sorted(b) /\ Precedes(a, b)
    BY <1>a, <1>d, <1>2 DEF Order
  <2>2. \A q \in Ports : Precedes(tx_burst[q], a) /\ Precedes(tx_burst[q], b)
    BY <1>a, <1>d, <1>2 DEF Order
  <2>3. \A o \in Ports : Sorted(rxq'[o]) /\ Precedes(a, rxq'[o])
                           /\ \A q \in Ports : Precedes(tx_burst[q], rxq'[o])
    <3> TAKE o \in Ports
    <3>1. CASE o = p
      BY <1>3, <2>1, <2>2, <3>1
    <3>2. CASE o # p
      <4>1. /\ \A i \in 1 .. Len(a) : a[i].port = p
            /\ \A i \in 1 .. Len(rxq[o]) : rxq[o][i].port = o
        BY <1>a, <1>d, <1>1 DEF Place
      <4>2. Precedes(a, rxq[o])
        BY <3>2, <4>1 DEF Precedes, Ahead
      <4> QED
        BY <1>a, <1>3, <3>2, <4>2 DEF Order
    <3> QED
      BY <3>1, <3>2
  <2>4. \A o \in Ports : \A i \in 1 .. Len(rxq'[o]) : Later(rxq'[o][i], last, arrived)
    BY <1>a, <1>h DEF Order
  <2>5. \A i \in 1 .. Len(a) : Later(a[i], last, arrived)
    BY <1>a, <1>d, <1>1 DEF Order
  <2> QED
    BY <1>a, <1>c, <1>g, <2>1, <2>2, <2>3, <2>4, <2>5 DEF Order
<1>9. Flows'
  <2>1. \A o \in Ports : \A i \in 1 .. Len(rxq[o]) : Fresh(rxq[o][i], flowID)
    BY <1>a DEF Flows
  <2>2. \A o \in Ports : \A i \in 1 .. Len(rxq'[o]) : Fresh(rxq'[o][i], flowID)
    BY <1>h, <2>1
  <2>3. \A i \in 1 .. Len(a) : Fresh(a[i], flowID)
    BY <1>d, <1>1, <2>1
  <2> QED
    BY <1>a, <1>c, <1>g, <2>2, <2>3 DEF Flows
<1>10. OnPath'
  <2>1. \A r : OfFlow(r, flowID, pc, rx_burst) => OfFlow(r, flowID, "packet", a)
    BY DEF OfFlow
  <2> SUFFICES ASSUME app = "AR" PROVE OnPath'
    BY <1>c DEF OnPath
  <2>2. \A o \in Ports : \A i \in 1 .. Len(rxq[o]) :
          /\ Probed(rxq[o][i])
          /\ ~IsPacket(rxq[o][i]) => OfFlow(rxq[o][i], flowID, "packet", a)
    BY <1>a, <2>1 DEF OnPath
  <2>3. \A o \in Ports : \A i \in 1 .. Len(rxq'[o]) :
          /\ Probed(rxq'[o][i])
          /\ ~IsPacket(rxq'[o][i]) => OfFlow(rxq'[o][i], flowID, "packet", a)
    BY <1>h, <2>2
  <2>4. \A i \in 1 .. Len(a) : Probed(a[i])
    BY <1>d, <1>1, <2>2
  <2>5. \A r \in net : OfFlow(r, flowID, "packet", a)
    BY <1>a, <2>1 DEF OnPath
  <2>6. \A q \in Ports : \A i \in 1 .. Len(tx_burst[q]) : Probed(tx_burst[q][i])
    BY <1>a DEF OnPath
  <2> QED
    BY <1>c, <1>g, <2>3, <2>4, <2>5, <2>6 DEF OnPath
<1> QED
  BY <1>5, <1>6, <1>7, <1>8, <1>9, <1>10 DEF Inv

(* A packet that is not dropped goes to a port, and no reply is sent on.    *)
LEMMA ActionFacts ==
  ASSUME Shape, NEW m \in Item, app # "AR" => IsPacket(m), Action(m) # DROP
  PROVE  Action(m) \in Ports /\ m \in Packet /\ IsPacket(m)
<1> DEFINE P == Processors(m)
           decided == {i \in DOMAIN P : P[i] # IGNORE}
<1>1. m.port \in Ports /\ app \in {"NAT", "SPRAY", "AR"}
  BY WorkerAssumption DEF Item, Packet, Reply, Ports, Shape
<1>2. /\ Conntrack(m) \in {-2, -1, 0, 1}
      /\ ARP_ICMP(m) \in {-2, -1, 0, 1}
      /\ Spray(m) \in {-2, -1, 0, 1}
  BY <1>1 DEF Conntrack, ARP_ICMP, Spray, IGNORE, DROP, Ports
<1>3. /\ \E k \in Nat : DOMAIN P = 1 .. k
      /\ \A i \in DOMAIN P : P[i] \in {-2, -1, 0, 1}
  <2>1. CASE app = "NAT"
    <3>1. P = <<Conntrack(m), ARP_ICMP(m)>>
      BY <2>1 DEF Processors
    <3>2. DOMAIN P = 1 .. 2 /\ P[1] = Conntrack(m) /\ P[2] = ARP_ICMP(m)
      BY <3>1
    <3> QED
      BY <1>2, <3>2
  <2>2. CASE app = "AR"
    <3>1. P = <<Conntrack(m)>>
      BY <2>2 DEF Processors
    <3>2. DOMAIN P = 1 .. 1 /\ P[1] = Conntrack(m)
      BY <3>1
    <3> QED
      BY <1>2, <3>2
  <2>3. CASE app = "SPRAY"
    <3>1. P = <<Spray(m)>>
      BY <2>3 DEF Processors
    <3>2. DOMAIN P = 1 .. 1 /\ P[1] = Spray(m)
      BY <3>1
    <3> QED
      BY <1>2, <3>2
  <2> QED
    BY <1>1, <2>1, <2>2, <2>3
<1>4. decided # {} /\ Action(m) = P[Max(decided)]
  BY DEF Action
<1>5. Max(decided) \in decided
  BY <1>3, <1>4, MaxOf
<1>6. Action(m) \in Ports
  BY <1>3, <1>4, <1>5 DEF IGNORE, DROP, Ports
<1>7. IsPacket(m)
  <2> SUFFICES ASSUME ~IsPacket(m) PROVE FALSE
    OBVIOUS
  <2>1. app = "AR" /\ m.port = 1
    BY DEF IsPacket, Item, Packet, Kinds, Reply
  <2>2. P = <<IGNORE>>
    BY <2>1 DEF Processors, Conntrack
  <2>3. decided = {}
    BY <2>2
  <2> QED
    BY <1>4, <2>3
<1> QED
  BY <1>6, <1>7 DEF IsPacket, Item, Reply

(* What a port has taken last was in the buffer, or is what it was.         *)
LEMMA TakeFacts ==
  ASSUME Shape, NEW q \in Ports, NEW n \in 0 .. Len(tx_burst[q]), Take(q, n)
  PROVE  /\ n \in Nat /\ wire' = wire + n
         /\ last' \in [Ports -> [Ports -> Nat]]
         /\ \A o \in Ports : o # q => last'[o] = last[o]
         /\ \A p \in Ports :
              \/ last'[q][p] = last[q][p]
              \/ \E i \in 1 .. Len(tx_burst[q]) :
                   tx_burst[q][i].port = p /\ last'[q][p] = tx_burst[q][i].n
<1> DEFINE from(p) == {i \in 1 .. n : tx_burst[q][i].port = p}
           new(p) == IF from(p) = {} THEN last[q][p] ELSE tx_burst[q][Max(from(p))].n
<1>1. /\ wire' = wire + n
      /\ last' = [last EXCEPT ![q] = [p \in Ports |-> new(p)]]
  BY DEF Take
<1>2. tx_burst[q] \in Seq(Packet) /\ Len(tx_burst[q]) \in Nat /\ n \in Nat
  BY Typed DEF Size
<1>3. \A x \in Packet : x.n \in Nat
  BY Numbers DEF Packet
<1>4. \A p \in Ports :
        /\ new(p) \in Nat
        /\ \/ new(p) = last[q][p]
           \/ \E i \in 1 .. Len(tx_burst[q]) :
                tx_burst[q][i].port = p /\ new(p) = tx_burst[q][i].n
  <2> TAKE p \in Ports
  <2>1. CASE from(p) = {}
    BY <2>1, Numbers
  <2>2. CASE from(p) # {}
    <3>1. Max(from(p)) \in from(p)
      <4>1. from(p) \in SUBSET (1 .. n)
        OBVIOUS
      <4> HIDE DEF from
      <4> QED
        BY <1>2, <2>2, <4>1, MaxOf
    <3>2. /\ Max(from(p)) \in 1 .. Len(tx_burst[q])
          /\ tx_burst[q][Max(from(p))].port = p
      BY <1>2, <3>1
    <3>3. new(p) = tx_burst[q][Max(from(p))].n
      BY <2>2
    <3>4. tx_burst[q][Max(from(p))] \in Packet
      BY <1>2, <3>2, ElementOfSeq
    <3> HIDE DEF new, from
    <3> QED
      BY <1>3, <3>2, <3>3, <3>4
  <2> QED
    BY <2>1, <2>2
<1> HIDE DEF new
<1>5. last \in [Ports -> [Ports -> Nat]]
  BY DEF Shape
<1>6. \A p \in Ports : last'[q][p] = new(p)
  BY <1>1, <1>5
<1>7. \A o \in Ports : o # q => last'[o] = last[o]
  BY <1>1, <1>5
<1>8. last' \in [Ports -> [Ports -> Nat]]
  BY <1>1, <1>4, <1>5
<1> QED
  BY <1>1, <1>2, <1>4, <1>6, <1>7, <1>8

(* A packet behind everything in the buffer stays later than what the port  *)
(* has taken.                                                               *)
LEMMA LaterAfterTake ==
  ASSUME Shape, NEW q \in Ports, NEW n \in 0 .. Len(tx_burst[q]), Take(q, n),
         NEW x \in Item, Later(x, last, arrived),
         \A i \in 1 .. Len(tx_burst[q]) : Ahead(tx_burst[q][i], x)
  PROVE  Later(x, last', arrived)
<1> SUFFICES ASSUME IsPacket(x), NEW o \in Ports
             PROVE  last'[o][x.port] < x.n
  BY DEF Later
<1>1. x.port \in Ports /\ last[o][x.port] < x.n
  BY DEF Item, Packet, Reply, Later, Ports
<1>2. CASE o # q
  BY <1>1, <1>2, TakeFacts
<1>3. CASE o = q
  <2>1. \A i \in 1 .. Len(tx_burst[q]) : IsPacket(tx_burst[q][i])
    BY Buffered
  <2>2. \A i \in 1 .. Len(tx_burst[q]) : tx_burst[q][i].port = x.port => tx_burst[q][i].n < x.n
    BY <2>1 DEF Ahead
  <2> QED
    BY <1>1, <1>3, <2>2, TakeFacts
<1> QED
  BY <1>2, <1>3

(* Flush empties a buffer: what the port took is on the wire, the rest is   *)
(* stranded.                                                                *)
LEMMA FlushStep ==
  ASSUME Inv, Flush, UNCHANGED probeVars
  PROVE  Inv'
<1> DEFINE q == port_id
<1>a. Shape /\ Place /\ Total = Mbufs /\ Order /\ Flows /\ OnPath
  BY DEF Inv
<1>b. PICK n : /\ n \in 0 .. Len(tx_burst[q]) /\ Take(q, n)
               /\ stranded' = stranded + (Len(tx_burst[q]) - n)
  BY DEF Flush
<1>c. /\ pc = "packet" /\ rx_burst = <<>> /\ pc' \in {"loop", "rx"}
      /\ tx_burst' = [tx_burst EXCEPT ![q] = <<>>]
  BY DEF Flush
<1>d. UNCHANGED <<app, force_quit, rx_burst, counter, free, rxq, arrived, flowID, net>>
  BY DEF Flush, probeVars
<1>e. q \in Ports /\ port_id' \in Ports
  BY <1>a DEF Flush, LastPort, Ports, Shape
<1> HIDE DEF q
<1>1. /\ n \in Nat /\ wire' = wire + n
      /\ last' \in [Ports -> [Ports -> Nat]]
      /\ \A o \in Ports : o # q => last'[o] = last[o]
      /\ \A p \in Ports :
           \/ last'[q][p] = last[q][p]
           \/ \E i \in 1 .. Len(tx_burst[q]) :
                tx_burst[q][i].port = p /\ last'[q][p] = tx_burst[q][i].n
  BY <1>a, <1>b, <1>e, TakeFacts
<1>2. /\ tx_burst'[q] = <<>> /\ \A o \in Ports : o # q => tx_burst'[o] = tx_burst[o]
      /\ tx_burst' \in [Ports -> Seq(Packet)]
  BY <1>a, <1>c, <1>e DEF Shape
<1>3. Len(tx_burst'[q]) = 0 /\ Len(rx_burst) = 0
  BY <1>c, <1>2
<1>4. Size(tx_burst[q]) \in Nat /\ n <= Size(tx_burst[q])
  BY <1>a, <1>b, <1>e, Typed DEF Size
<1>5. stranded' = stranded + (Size(tx_burst[q]) - n)
  BY <1>b DEF Size
<1>6. Shape'
  <2>1. \A o \in Ports : Len(tx_burst'[o]) <= Burst
    BY <1>a, <1>2, <1>3, WorkerAssumption DEF Shape
  <2>2. stranded' \in Nat /\ wire' \in Nat
    BY <1>a, <1>1, <1>4, <1>5, Numbers
  <2>3. Item' = Item /\ Packet' = Packet
    BY <1>d DEF Item, Packet, Reply
  <2> QED
    BY <1>a, <1>c, <1>d, <1>e, <1>1, <1>2, <2>1, <2>2, <2>3 DEF Shape
<1>7. Place'
  BY <1>a, <1>c, <1>d DEF Place
<1>8. Total' = Mbufs
  <2>1. Size(tx_burst'[q]) = 0 /\ Size(tx_burst'[q]) \in Nat
    BY <1>3 DEF Size
  <2>2. \A o \in Ports : Size(tx_burst[o]) \in Nat
    BY <1>a, Typed
  <2>3. /\ Size(tx_burst'[0]) \in Nat /\ Size(tx_burst'[1]) \in Nat
        /\ Size(tx_burst'[0]) + Size(tx_burst'[1]) + Size(tx_burst[q])
             = Size(tx_burst[0]) + Size(tx_burst[1]) + Size(tx_burst'[q])
    BY <1>e, <1>2, <2>1, <2>2, SumOfPorts
  <2>4. Shape /\ Total = Mbufs /\ wire' = wire + n /\ n \in Nat
    BY <1>a, <1>1
  <2>5. free' = free /\ rx_burst' = rx_burst /\ rxq' = rxq
    BY <1>d
  <2> QED
    BY <1>4, <1>5, <2>1, <2>3, <2>4, <2>5, TotalOf DEF Total
<1>9. Order'
  <2>1. \A o \in Ports : /\ Sorted(tx_burst'[o]) /\ Precedes(tx_burst'[o], rx_burst)
                         /\ \A p \in Ports : Precedes(tx_burst'[o], rxq[p])
    <3> TAKE o \in Ports
    <3>1. CASE o = q
      BY <1>3, <3>1 DEF Sorted, Precedes
    <3>2. CASE o # q
      BY <1>a, <1>2, <3>2 DEF Order
    <3> QED
      BY <3>1, <3>2
  <2>2. \A p \in Ports : \A i \in 1 .. Len(rxq[p]) : Later(rxq[p][i], last', arrived)
    <3> TAKE p \in Ports
    <3> TAKE i \in 1 .. Len(rxq[p])
    <3>1. rxq[p][i] \in Item /\ Later(rxq[p][i], last, arrived)
      BY <1>a, Elements DEF Order
    <3>2. \A j \in 1 .. Len(tx_burst[q]) : Ahead(tx_burst[q][j], rxq[p][i])
      BY <1>a, <1>e DEF Order, Precedes
    <3> QED
      BY <1>a, <1>b, <1>e, <3>1, <3>2, LaterAfterTake
  <2>3. \A o \in Ports : \A i \in 1 .. Len(tx_burst'[o]) :
          LET m == tx_burst'[o][i] IN last'[o][m.port] < m.n /\ m.n <= arrived
    <3> TAKE o \in Ports
    <3>1. CASE o = q
      BY <1>3, <3>1
    <3>2. CASE o # q
      BY <1>a, <1>1, <1>2, <3>2 DEF Order
    <3> QED
      BY <3>1, <3>2
  <2>4. \A o, p \in Ports : last'[o][p] <= arrived
    <3>1. \A o \in Ports : \A i \in 1 .. Len(tx_burst[o]) : tx_burst[o][i].n <= arrived
      BY <1>a DEF Order
    <3>2. \A o, p \in Ports : last[o][p] <= arrived
      BY <1>a DEF Order
    <3> TAKE o, p \in Ports
    <3>3. CASE o = q
      BY <1>e, <1>1, <3>1, <3>2, <3>3
    <3>4. CASE o # q
      BY <1>1, <3>2, <3>4
    <3> QED
      BY <3>3, <3>4
  <2> QED
    BY <1>a, <1>d, <1>3, <2>1, <2>2, <2>3, <2>4 DEF Order
<1>10. Flows'
  BY <1>a, <1>c, <1>d, <1>3 DEF Flows
<1>11. OnPath'
  <2>1. \A r : OfFlow(r, flowID, pc, rx_burst) => OfFlow(r, flowID, pc', rx_burst)
    BY <1>c DEF OfFlow
  <2>2. \A o \in Ports : \A i \in 1 .. Len(tx_burst'[o]) :
          /\ i \in 1 .. Len(tx_burst[o]) /\ tx_burst'[o][i] = tx_burst[o][i]
    BY <1>2, <1>3
  <2> QED
    BY <1>a, <1>d, <2>1, <2>2 DEF OnPath
<1> QED
  BY <1>6, <1>7, <1>8, <1>9, <1>10, <1>11 DEF Inv

(* The burst without its first packet.                                      *)
IsTail(t, s) == s # <<>> /\ t = Tail(s)

LEMMA TailStep ==
  ASSUME Inv, NEW t, IsTail(t, rx_burst)
  PROVE  /\ t \in Seq(Item) /\ Size(t) + 1 = Size(rx_burst) /\ Size(t) \in Nat
         /\ Len(t) <= Burst
         /\ rx_burst[1] \in Item /\ 1 \in 1 .. Len(rx_burst) /\ Head(rx_burst) = rx_burst[1]
         /\ \A i \in 1 .. Len(t) :
              i + 1 \in 1 .. Len(rx_burst) /\ i + 1 > 1 /\ t[i] = rx_burst[i + 1]
         /\ Sorted(t) /\ \A j \in 1 .. Len(t) : Ahead(rx_burst[1], t[j])
         /\ \A p \in Ports : Precedes(t, rxq[p]) /\ Precedes(tx_burst[p], t)
<1>1. /\ rx_burst \in Seq(Item) /\ Order /\ Len(rx_burst) <= Burst
      /\ rx_burst # <<>> /\ t = Tail(rx_burst)
  BY Typed DEF Inv, Shape, IsTail
<1>2. /\ Len(rx_burst) >= 1 /\ Len(rx_burst) \in Nat
      /\ Head(rx_burst) = rx_burst[1] /\ rx_burst[1] \in Item
      /\ t \in Seq(Item) /\ Len(t) = Len(rx_burst) - 1
      /\ \A i \in 1 .. Len(rx_burst) - 1 : t[i] = rx_burst[i + 1]
  BY <1>1, TailFacts
<1>3. \A i \in 1 .. Len(t) :
         i + 1 \in 1 .. Len(rx_burst) /\ i + 1 > 1 /\ t[i] = rx_burst[i + 1]
  BY <1>2
<1>4. Sorted(t) /\ \A j \in 1 .. Len(t) : Ahead(rx_burst[1], t[j])
  BY <1>1, TailOrder DEF Order
<1>5. \A p \in Ports : Precedes(t, rxq[p]) /\ Precedes(tx_burst[p], t)
  BY <1>1, TailOrder DEF Order
<1>6. Size(t) + 1 = Size(rx_burst) /\ Size(t) \in Nat
  BY <1>2 DEF Size
<1>7. Len(t) <= Burst /\ 1 \in 1 .. Len(rx_burst)
  BY <1>1, <1>2, WorkerAssumption
<1> QED
  BY <1>2, <1>3, <1>4, <1>5, <1>6, <1>7

(* The processors drop the packet.                                          *)
LEMMA DropStep ==
  ASSUME Inv, pc = "packet", IsTail(rx_burst', rx_burst),
         free' = free + 1, counter' \in 0 .. 3,
         UNCHANGED <<tx_burst, wire, last, app, force_quit, pc, port_id, rxq, arrived,
                     stranded, flowID, net>>
  PROVE  Inv'
<1> DEFINE t == rx_burst'
<1>a. Shape /\ Place /\ Total = Mbufs /\ Order /\ Flows /\ OnPath
  BY DEF Inv
<1>b. /\ t \in Seq(Item) /\ Size(t) + 1 = Size(rx_burst) /\ Size(t) \in Nat
      /\ Len(t) <= Burst
      /\ \A i \in 1 .. Len(t) :
           i + 1 \in 1 .. Len(rx_burst) /\ i + 1 > 1 /\ t[i] = rx_burst[i + 1]
      /\ Sorted(t) /\ \A j \in 1 .. Len(t) : Ahead(rx_burst[1], t[j])
      /\ \A p \in Ports : Precedes(t, rxq[p]) /\ Precedes(tx_burst[p], t)
  BY TailStep
<1>c. rx_burst' = t
  OBVIOUS
<1> HIDE DEF t
<1>1. Shape'
  <2>1. Item' = Item /\ Packet' = Packet
    BY DEF Item, Packet, Reply
  <2>2. free' \in Nat
    BY <1>a, Numbers
  <2> QED
    BY <1>a, <1>b, <1>c, <2>1, <2>2 DEF Shape
<1>2. Place'
  BY <1>a, <1>b, <1>c DEF Place
<1>3. Total' = Mbufs
  <2>1. Shape /\ Total = Mbufs
    BY <1>a
  <2>2. Size(t) + 1 = Size(rx_burst) /\ Size(t) \in Nat
    BY <1>b
  <2> QED
    BY <1>c, <2>1, <2>2, TotalOf DEF Total
<1>4. Order'
  BY <1>a, <1>b, <1>c DEF Order
<1>5. Flows'
  BY <1>a, <1>b, <1>c DEF Flows
<1>6. OnPath'
  <2>1. \A r : OfFlow(r, flowID, pc, rx_burst) => OfFlow(r, flowID, pc, t)
    BY DEF OfFlow
  <2> QED
    BY <1>a, <1>b, <1>c, <2>1 DEF OnPath
<1> QED
  BY <1>1, <1>2, <1>3, <1>4, <1>5, <1>6 DEF Inv

(* The rewritten packet keeps its place in the order, and in adaptive       *)
(* routing its path.                                                        *)
LEMMA RewriteFacts ==
  ASSUME Shape, NEW m \in Packet, NEW x, x = Rewrite(m)
  PROVE  /\ x \in Packet /\ x.port = m.port /\ x.n = m.n /\ x.kind = m.kind
         /\ app = "AR" => x = m
<1>1. CASE app # "SPRAY"
  BY <1>1 DEF Rewrite
<1>2. CASE app = "SPRAY"
  <2>1. ((counter + 1) % 4) + 7788 \in Nat
    BY DEF Shape
  <2>2. x = [m EXCEPT !.path = ((counter + 1) % 4) + 7788]
    BY <1>2 DEF Rewrite
  <2> DEFINE k == ((counter + 1) % 4) + 7788
  <2> HIDE DEF k
  <2> QED
    BY <1>2, <2>1, <2>2 DEF Packet, k
<1> QED
  BY <1>1, <1>2

(* What sending x through port q, which leaves the buffer v, does to the    *)
(* counters, the order and the history.                                     *)
Replaced(q, v) == tx_burst' = [tx_burst EXCEPT ![q] = v]

Counted(q, v) ==
  /\ free' \in Nat /\ wire' \in Nat /\ Size(v) \in Nat
  /\ free' + wire' + Size(v) = free + wire + Size(tx_burst[q]) + 1

Queued(q, x, v) ==
  /\ v \in Seq(Packet) /\ Len(v) <= Burst
  /\ \A i \in 1 .. Len(v) : v[i] = x \/ \E j \in 1 .. Len(tx_burst[q]) : v[i] = tx_burst[q][j]
  /\ Sorted(v) /\ Precedes(v, rx_burst')
  /\ \A p \in Ports : Precedes(v, rxq[p])

Taken(q, v) ==
  /\ last' \in [Ports -> [Ports -> Nat]]
  /\ \A o \in Ports : o # q => last'[o] = last[o]
  /\ \A p \in Ports : last'[q][p] <= arrived
  /\ \A i \in 1 .. Len(v) : last'[q][v[i].port] < v[i].n
  /\ \A y \in Item : /\ Later(y, last, arrived)
                     /\ \A i \in 1 .. Len(tx_burst[q]) : Ahead(tx_burst[q][i], y)
                     => Later(y, last', arrived)

LEMMA SendStep ==
  ASSUME Inv, pc = "packet", IsTail(rx_burst', rx_burst),
         NEW q \in Ports, NEW x \in Packet,
         x.n = rx_burst[1].n, IsPacket(rx_burst[1]), app = "AR" => x = rx_burst[1],
         NEW v, Replaced(q, v), Counted(q, v), Queued(q, x, v), Taken(q, v),
         counter' \in 0 .. 3,
         UNCHANGED <<app, force_quit, pc, port_id, rxq, arrived, stranded, flowID, net>>
  PROVE  Inv'
<1> DEFINE t == rx_burst'
<1>a. Shape /\ Place /\ Total = Mbufs /\ Order /\ Flows /\ OnPath
  BY DEF Inv
<1>b. /\ t \in Seq(Item) /\ Size(t) + 1 = Size(rx_burst) /\ Size(t) \in Nat
      /\ Len(t) <= Burst
      /\ rx_burst[1] \in Item /\ 1 \in 1 .. Len(rx_burst)
      /\ \A i \in 1 .. Len(t) :
           i + 1 \in 1 .. Len(rx_burst) /\ i + 1 > 1 /\ t[i] = rx_burst[i + 1]
      /\ Sorted(t) /\ \A j \in 1 .. Len(t) : Ahead(rx_burst[1], t[j])
      /\ \A p \in Ports : Precedes(t, rxq[p]) /\ Precedes(tx_burst[p], t)
  BY TailStep
<1>c. /\ tx_burst'[q] = v /\ \A o \in Ports : o # q => tx_burst'[o] = tx_burst[o]
  BY <1>a DEF Shape, Replaced
<1>1. Shape'
  <2>1. Item' = Item /\ Packet' = Packet
    BY DEF Item, Packet, Reply
  <2>2. tx_burst' \in [Ports -> Seq(Packet)]
    BY <1>a DEF Shape, Queued, Replaced
  <2>3. \A o \in Ports : Len(tx_burst'[o]) <= Burst
    BY <1>a, <1>c DEF Shape, Queued
  <2>4. free' \in Nat /\ wire' \in Nat /\ last' \in [Ports -> [Ports -> Nat]]
    BY DEF Counted, Taken
  <2> QED
    BY <1>a, <1>b, <2>1, <2>2, <2>3, <2>4 DEF Shape
<1>2. Place'
  BY <1>a, <1>b DEF Place
<1>3. Total' = Mbufs
  <2>1. Shape /\ Total = Mbufs
    BY <1>a
  <2>2. \A o \in Ports : Size(tx_burst[o]) \in Nat
    BY <1>a, Typed
  <2>3. /\ free' \in Nat /\ wire' \in Nat /\ Size(tx_burst'[q]) \in Nat
        /\ free' + wire' + Size(tx_burst'[q]) = free + wire + Size(tx_burst[q]) + 1
    BY <1>c DEF Counted
  <2>4. /\ Size(tx_burst'[0]) \in Nat /\ Size(tx_burst'[1]) \in Nat
        /\ Size(tx_burst'[0]) + Size(tx_burst'[1]) + Size(tx_burst[q])
             = Size(tx_burst[0]) + Size(tx_burst[1]) + Size(tx_burst'[q])
    BY <1>c, <2>2, <2>3, SumOfPorts
  <2>5. Size(rx_burst') + 1 = Size(rx_burst) /\ Size(rx_burst') \in Nat
    BY <1>b
  <2>6. Size(tx_burst[q]) \in Nat
    BY <2>2
  <2> QED
    BY <2>1, <2>3, <2>4, <2>5, <2>6, TotalOf DEF Total
<1>4. Order'
  <2>1. \A o \in Ports : /\ Sorted(tx_burst'[o]) /\ Precedes(tx_burst'[o], t)
                         /\ \A p \in Ports : Precedes(tx_burst'[o], rxq[p])
    <3> TAKE o \in Ports
    <3>1. CASE o = q
      BY <1>c, <3>1 DEF Queued
    <3>2. CASE o # q
      BY <1>a, <1>b, <1>c, <3>2 DEF Order
    <3> QED
      BY <3>1, <3>2
  <2>2. \A p \in Ports : \A i \in 1 .. Len(rxq[p]) : Later(rxq[p][i], last', arrived)
    <3> TAKE p \in Ports
    <3> TAKE i \in 1 .. Len(rxq[p])
    <3>1. rxq[p][i] \in Item /\ Later(rxq[p][i], last, arrived)
      BY <1>a, Elements DEF Order
    <3>2. \A j \in 1 .. Len(tx_burst[q]) : Ahead(tx_burst[q][j], rxq[p][i])
      BY <1>a DEF Order, Precedes
    <3> QED
      BY <3>1, <3>2 DEF Taken
  <2>3. \A i \in 1 .. Len(t) : Later(t[i], last', arrived)
    <3> TAKE i \in 1 .. Len(t)
    <3>1. t[i] \in Item /\ Later(t[i], last, arrived)
      BY <1>a, <1>b, Elements DEF Order
    <3>2. \A j \in 1 .. Len(tx_burst[q]) : Ahead(tx_burst[q][j], t[i])
      BY <1>b DEF Precedes
    <3> QED
      BY <3>1, <3>2 DEF Taken
  <2>4. \A o \in Ports : \A i \in 1 .. Len(tx_burst'[o]) :
          LET m == tx_burst'[o][i] IN last'[o][m.port] < m.n /\ m.n <= arrived
    <3> TAKE o \in Ports
    <3>1. CASE o = q
      <4>1. x.n <= arrived
        BY <1>a, <1>b DEF Order, Later
      <4>2. \A i \in 1 .. Len(tx_burst[q]) : tx_burst[q][i].n <= arrived
        BY <1>a DEF Order
      <4>3. \A i \in 1 .. Len(v) : v[i].n <= arrived
        BY <4>1, <4>2 DEF Queued
      <4>4. \A i \in 1 .. Len(v) : last'[q][v[i].port] < v[i].n
        BY DEF Taken
      <4> QED
        BY <1>c, <3>1, <4>3, <4>4
    <3>2. CASE o # q
      <4>1. last'[o] = last[o]
        BY <3>2 DEF Taken
      <4> QED
        BY <1>a, <1>c, <3>2, <4>1 DEF Order
    <3> QED
      BY <3>1, <3>2
  <2>5. \A o, p \in Ports : last'[o][p] <= arrived
    <3> TAKE o, p \in Ports
    <3>1. CASE o = q
      BY <3>1 DEF Taken
    <3>2. CASE o # q
      BY <1>a, <3>2 DEF Taken, Order
    <3> QED
      BY <3>1, <3>2
  <2> QED
    BY <1>a, <1>b, <2>1, <2>2, <2>3, <2>4, <2>5 DEF Order
<1>5. Flows'
  BY <1>a, <1>b DEF Flows
<1>6. OnPath'
  <2> SUFFICES ASSUME app = "AR" PROVE OnPath'
    BY DEF OnPath
  <2>1. \A r : OfFlow(r, flowID, pc, rx_burst) => OfFlow(r, flowID, pc, t)
    BY DEF OfFlow
  <2>2. Probed(x)
    BY <1>a, <1>b DEF OnPath
  <2>3. \A o \in Ports : \A i \in 1 .. Len(tx_burst'[o]) : Probed(tx_burst'[o][i])
    <3> TAKE o \in Ports
    <3>0. \A i \in 1 .. Len(tx_burst[o]) : Probed(tx_burst[o][i])
      BY <1>a DEF OnPath
    <3>1. CASE o = q
      BY <1>c, <2>2, <3>0, <3>1 DEF Queued
    <3>2. CASE o # q
      BY <1>c, <3>0, <3>2
    <3> QED
      BY <3>1, <3>2
  <2>4. \A i \in 1 .. Len(t) : Probed(t[i])
    BY <1>a, <1>b DEF OnPath
  <2> QED
    BY <1>a, <2>1, <2>3, <2>4 DEF OnPath
<1> QED
  BY <1>1, <1>2, <1>3, <1>4, <1>5, <1>6 DEF Inv

(* A packet goes through the processors and is dropped, queued, or queued   *)
(* after a full buffer was flushed.                                         *)
LEMMA ProcessStep ==
  ASSUME Inv, Process, UNCHANGED probeVars
  PROVE  Inv'
<1> DEFINE m == rx_burst[1]
           q == Action(m)
           x == Rewrite(m)
<1>a. Shape /\ Place /\ Total = Mbufs /\ Order /\ Flows /\ OnPath
  BY DEF Inv
<1>b. /\ pc = "packet" /\ IsTail(rx_burst', rx_burst)
      /\ UNCHANGED <<app, force_quit, pc, port_id, rxq, arrived, stranded, flowID, net>>
  BY DEF Process, IsTail, probeVars
<1>c. counter' \in 0 .. 3
  BY <1>a DEF Process, Shape
<1>d. /\ m \in Item /\ 1 \in 1 .. Len(rx_burst) /\ Head(rx_burst) = m
      /\ \A j \in 1 .. Len(rx_burst') : Ahead(m, rx_burst'[j])
      /\ \A p \in Ports : Precedes(tx_burst[p], rx_burst')
  BY <1>b, TailStep
<1>e. app # "AR" => IsPacket(m)
  BY <1>a, <1>d DEF Place
<1>1. CASE Action(m) = DROP
  <2>1. free' = free + 1 /\ UNCHANGED <<tx_burst, wire, last>>
    BY <1>d, <1>1 DEF Process
  <2> QED
    BY <1>b, <1>c, <2>1, DropStep
<1>2. CASE Action(m) # DROP
  <2>1. Send(q, x)
    BY <1>d, <1>2 DEF Process
  <2>2. q \in Ports /\ m \in Packet /\ IsPacket(m)
    BY <1>a, <1>d, <1>e, <1>2, ActionFacts
  <2>3. x \in Packet /\ x.port = m.port /\ x.n = m.n /\ x.kind = m.kind /\ (app = "AR" => x = m)
    BY <1>a, <2>2, RewriteFacts
  <2> HIDE DEF x, q
  <2>4. \A y : (Ahead(m, y) <=> Ahead(x, y)) /\ (Ahead(y, m) <=> Ahead(y, x))
    BY <2>3 DEF Ahead, IsPacket
  <2>5. /\ \A j \in 1 .. Len(rx_burst') : Ahead(x, rx_burst'[j])
        /\ \A p \in Ports : \A j \in 1 .. Len(rxq[p]) : Ahead(x, rxq[p][j])
    BY <1>a, <1>d, <2>4 DEF Order, Precedes
  <2>6. tx_burst[q] \in Seq(Packet) /\ Size(tx_burst[q]) \in Nat
    BY <1>a, <2>2, Typed
  <2>7. Later(x, last, arrived)
    BY <1>a, <1>d, <2>3 DEF Order, Later, IsPacket
  <2>8. \A j \in 1 .. Len(tx_burst[q]) : Ahead(tx_burst[q][j], x)
    BY <1>a, <1>d, <2>2, <2>4 DEF Order, Precedes
  <2>9. IsPacket(x) /\ x \in Item
    BY <2>2, <2>3 DEF IsPacket, Item
  <2>10. x.port \in Ports
    BY <2>3 DEF Packet
  <2>11. CASE ~Full(q)
    <3> DEFINE v == Append(tx_burst[q], x)
    <3>1. Replaced(q, v) /\ UNCHANGED <<free, wire, last>>
      BY <2>1, <2>11 DEF Send, Put, Replaced
    <3>2. /\ v \in Seq(Packet) /\ Len(tx_burst[q]) \in Nat
          /\ Len(v) = Len(tx_burst[q]) + 1
          /\ \A i \in 1 .. Len(tx_burst[q]) : v[i] = tx_burst[q][i]
          /\ v[Len(tx_burst[q]) + 1] = x
      BY <2>3, <2>6, AppendFacts
    <3>3. Sorted(v) /\ Precedes(v, rx_burst') /\ \A p \in Ports : Precedes(v, rxq[p])
      <4>1. Sorted(tx_burst[q]) /\ \A p \in Ports : Precedes(tx_burst[q], rxq[p])
        BY <1>a, <2>2 DEF Order
      <4>2. Precedes(tx_burst[q], rx_burst')
        BY <1>d, <2>2
      <4> QED
        BY <2>3, <2>5, <2>6, <2>8, <4>1, <4>2, AppendOrder
    <3> HIDE DEF v
    <3>4. \A i \in 1 .. Len(v) :
            v[i] = x \/ (i \in 1 .. Len(tx_burst[q]) /\ v[i] = tx_burst[q][i])
      BY <3>2
    <3>5. Len(v) <= Burst
      BY <1>a, <2>2, <2>11, <3>2, WorkerAssumption DEF Full, Shape
    <3>6. Queued(q, x, v)
      BY <3>2, <3>3, <3>4, <3>5 DEF Queued
    <3>7. Counted(q, v)
      <4>1. Size(v) = Size(tx_burst[q]) + 1
        BY <3>2 DEF Size
      <4>2. free' = free /\ wire' = wire /\ Size(tx_burst[q]) \in Nat
        BY <2>6, <3>1
      <4>3. free \in Nat /\ wire \in Nat
        BY <1>a, Numbers
      <4> QED
        BY <4>1, <4>2, <4>3 DEF Counted
    <3>8. Taken(q, v)
      <4>1. \A i \in 1 .. Len(tx_burst[q]) : last[q][tx_burst[q][i].port] < tx_burst[q][i].n
        BY <1>a, <2>2 DEF Order
      <4>2. last[q][x.port] < x.n
        BY <2>2, <2>7, <2>9 DEF Later
      <4>3. \A i \in 1 .. Len(v) : last[q][v[i].port] < v[i].n
        BY <3>4, <4>1, <4>2
      <4>4. last \in [Ports -> [Ports -> Nat]] /\ \A p \in Ports : last[q][p] <= arrived
        BY <1>a, <2>2 DEF Order, Shape
      <4> QED
        BY <3>1, <4>3, <4>4 DEF Taken
    <3> QED
      BY <1>b, <1>c, <2>2, <2>3, <3>1, <3>6, <3>7, <3>8, SendStep
  <2>12. CASE Full(q)
    <3> DEFINE v == <<x>>
    <3>1. PICK n : /\ n \in 0 .. Len(tx_burst[q]) /\ Take(q, n)
                   /\ free' = free + FreeRest(q, n)
      BY <2>1, <2>12 DEF Send
    <3>2. Replaced(q, v)
      BY <2>1, <2>12 DEF Send, Replaced
    <3>3. v \in Seq(Packet) /\ Len(v) = 1 /\ v[1] = x
      BY <2>3
    <3> HIDE DEF v
    <3>4. \A i \in 1 .. Len(v) : v[i] = x /\ i = 1
      BY <3>3
    <3>5. Queued(q, x, v)
      <4>1. Sorted(v)
        BY <3>4 DEF Sorted
      <4>2. Precedes(v, rx_burst') /\ \A p \in Ports : Precedes(v, rxq[p])
        BY <2>5, <3>4 DEF Precedes
      <4>3. Len(v) <= Burst
        BY <3>3, WorkerAssumption
      <4> QED
        BY <3>3, <3>4, <4>1, <4>2, <4>3 DEF Queued
    <3>6. /\ n \in Nat /\ wire' = wire + n
          /\ last' \in [Ports -> [Ports -> Nat]]
          /\ \A o \in Ports : o # q => last'[o] = last[o]
          /\ \A p \in Ports :
               \/ last'[q][p] = last[q][p]
               \/ \E i \in 1 .. Len(tx_burst[q]) :
                    tx_burst[q][i].port = p /\ last'[q][p] = tx_burst[q][i].n
      BY <1>a, <2>2, <3>1, TakeFacts
    <3>7. Counted(q, v)
      <4>1. Size(v) = 1 /\ n <= Size(tx_burst[q]) /\ free' = free + (Size(tx_burst[q]) - n)
        BY <2>6, <3>1, <3>3 DEF Size, FreeRest
      <4>2. n \in Nat /\ wire' = wire + n /\ free \in Nat /\ wire \in Nat
        BY <1>a, <3>6, Numbers
      <4>3. /\ free' \in Nat /\ wire' \in Nat /\ Size(v) \in Nat
            /\ free' + wire' + Size(v) = free + wire + Size(tx_burst[q]) + 1
        BY <2>6, <4>1, <4>2
      <4> QED
        BY <4>3 DEF Counted
    <3>8. Taken(q, v)
      <4>1. ASSUME NEW y \in Item, Later(y, last, arrived),
                   \A i \in 1 .. Len(tx_burst[q]) : Ahead(tx_burst[q][i], y)
            PROVE  Later(y, last', arrived)
        BY <1>a, <2>2, <3>1, <4>1, LaterAfterTake
      <4>2. Later(x, last', arrived)
        BY <2>7, <2>8, <2>9, <4>1
      <4>3. \A i \in 1 .. Len(v) : last'[q][v[i].port] < v[i].n
        BY <2>2, <2>9, <3>4, <4>2 DEF Later
      <4>4. \A p \in Ports : last'[q][p] <= arrived
        <5>1. \A i \in 1 .. Len(tx_burst[q]) : tx_burst[q][i].n <= arrived
          BY <1>a, <2>2 DEF Order
        <5>2. \A p \in Ports : last[q][p] <= arrived
          BY <1>a, <2>2 DEF Order
        <5> QED
          BY <3>6, <5>1, <5>2
      <4> QED
        BY <3>6, <4>1, <4>3, <4>4 DEF Taken
    <3> QED
      BY <1>b, <1>c, <2>2, <2>3, <3>2, <3>5, <3>7, <3>8, SendStep
  <2> QED
    BY <2>11, <2>12
<1> QED
  BY <1>1, <1>2

(* The probes of a flow carry its number, which no earlier probe has.       *)
LEMMA StartProbeStep ==
  ASSUME Inv, StartProbe
  PROVE  Inv'
<1> DEFINE m == rx_burst[1]
<1>a. Shape /\ Place /\ Total = Mbufs /\ Order /\ Flows /\ OnPath
  BY DEF Inv
<1>b. /\ pc = "packet" /\ rx_burst # <<>> /\ pc' = "probe" /\ flowID' = flowID + 1
      /\ UNCHANGED <<app, force_quit, port_id, rx_burst, tx_burst, counter, rxq,
                     arrived, last, stranded>>
  BY DEF StartProbe
<1>c. /\ Head(rx_burst) = m /\ m \in Item /\ 1 \in 1 .. Len(rx_burst)
  BY <1>a, <1>b, Typed, TailFacts
<1>d. NeedsProbe(m)
  BY <1>c DEF StartProbe
<1>e. PICK n : /\ n \in Nat /\ n <= Paths /\ n <= free
               /\ free' = free - n /\ wire' = wire + n
               /\ net' = net \cup {[flow |-> flowID + 1, sport |-> Path(m.sport, p)] : p \in 0 .. n - 1}
  <2>1. PICK n : /\ n \in 0 .. (IF free >= Paths THEN Paths ELSE 0)
                 /\ free' = free - n /\ wire' = wire + n
                 /\ net' = net \cup {[flow |-> flowID + 1, sport |-> Path(Head(rx_burst).sport, p)] : p \in 0 .. n - 1}
    BY DEF StartProbe
  <2>2. n \in Nat /\ n <= Paths /\ n <= free
    BY <1>a, <2>1, Numbers, AdaptiveAssumption
  <2> QED
    BY <1>c, <2>1, <2>2
<1>f. /\ app = "AR" /\ m.port = 0 /\ m.kind = "new" /\ IsPacket(m) /\ m \in Packet
      /\ m.n \in Nat /\ m.sport \in Nat
  BY <1>a, <1>c, <1>d, Numbers DEF NeedsProbe, IsPacket, Item, Packet, Reply
<1> HIDE DEF m
<1>g. \A r \in net' : r \in net \/ \E p \in 0 .. Paths - 1 :
                                     r = [flow |-> flowID + 1, sport |-> Path(m.sport, p)]
  BY <1>e, AdaptiveAssumption
<1>1. Shape'
  <2>1. Item' = Item /\ Packet' = Packet
    BY <1>b DEF Item, Packet, Reply
  <2>2. free' \in Nat /\ wire' \in Nat /\ flowID' \in Nat
    BY SMTT(30), <1>a, <1>b, <1>e, Numbers
  <2>3. \A p \in 0 .. Paths - 1 : Path(m.sport, p) \in Nat
    BY <1>f, AdaptiveAssumption DEF Path
  <2>4. net' \in SUBSET [flow : Nat, sport : Nat]
    BY <1>a, <1>b, <1>g, <2>2, <2>3 DEF Shape
  <2> QED
    BY <1>a, <1>b, <2>1, <2>2, <2>4 DEF Shape
<1>2. Place'
  <2>1. NeedsProbe(rx_burst[1])'
    BY <1>b, <1>f DEF NeedsProbe, m
  <2> QED
    BY <1>a, <1>b, <1>f, <2>1 DEF Place
<1>3. Total' = Mbufs
  <2>1. Shape /\ Total = Mbufs
    BY <1>a
  <2>2. n \in Nat /\ n <= free /\ free' = free - n /\ wire' = wire + n
    BY <1>e
  <2>3. UNCHANGED <<stranded, rx_burst, rxq, tx_burst>>
    BY <1>b
  <2> QED
    BY <2>1, <2>2, <2>3, TotalOf DEF Total
<1>4. Order'
  BY <1>a, <1>b DEF Order
<1>5. Flows'
  <2>1. flowID < m.n /\ m.n <= arrived
    BY <1>a, <1>b, <1>c, <1>f DEF Flows, Fresh, Order, Later, m
  <2>2. \A y \in Item : Ahead(m, y) => Fresh(y, flowID')
    <3> SUFFICES ASSUME NEW y \in Item, Ahead(m, y), y.kind = "new", y.port = 0
                 PROVE  flowID' < y.n
      BY DEF Fresh
    <3>1. y.n \in Nat
      BY <1>a, Numbers DEF Item, Packet, Reply
    <3>2. m.n < y.n
      BY <1>f DEF Ahead, IsPacket
    <3> QED
      BY <1>a, <1>b, <1>f, <2>1, <3>1, <3>2, Numbers
  <2>3. \A p \in Ports : \A i \in 1 .. Len(rxq[p]) : Fresh(rxq[p][i], flowID')
    BY <1>a, <1>c, <2>2, Elements DEF Order, Precedes, m
  <2>4. \A i \in 1 .. Len(rx_burst) : i > 1 => Fresh(rx_burst[i], flowID')
    BY <1>a, <1>c, <2>2, Elements DEF Order, Sorted, m
  <2>5. flowID' <= arrived
    BY <1>a, <1>b, <1>f, <2>1, Numbers
  <2> QED
    BY <1>b, <2>3, <2>4, <2>5 DEF Flows
<1>6. OnPath'
  <2>1. \A r : r.flow \in Nat /\ OfFlow(r, flowID, pc, rx_burst) => OfFlow(r, flowID', pc', rx_burst)
    <3> SUFFICES ASSUME NEW r, r.flow \in Nat, r.flow <= flowID
                 PROVE  r.flow <= flowID' /\ r.flow # flowID'
      BY DEF OfFlow
    <3> QED
      BY <1>a, <1>b, Numbers
  <2>2. \A p \in Ports : \A i \in 1 .. Len(rxq[p]) :
          ~IsPacket(rxq[p][i]) => OfFlow(rxq[p][i], flowID', pc', rx_burst)
    <3> TAKE p \in Ports
    <3> TAKE i \in 1 .. Len(rxq[p])
    <3>1. rxq[p][i] \in Item
      BY <1>a, Elements
    <3>2. ~IsPacket(rxq[p][i]) => rxq[p][i].flow \in Nat
      BY <3>1 DEF Item, IsPacket, Packet, Kinds, Reply
    <3> QED
      BY <1>a, <1>f, <2>1, <3>2 DEF OnPath
  <2>3. ASSUME NEW r \in net' PROVE OfFlow(r, flowID', pc', rx_burst)
    <3>1. CASE r \in net
      BY <1>a, <1>f, <2>1, <3>1 DEF OnPath, Shape
    <3>2. ASSUME NEW p \in 0 .. Paths - 1, r = [flow |-> flowID + 1, sport |-> Path(m.sport, p)]
          PROVE  OfFlow(r, flowID', pc', rx_burst)
      <4>1. r.flow = flowID' /\ r.sport = Path(rx_burst[1].sport, p) /\ flowID' \in Nat
        BY <1>a, <1>b, <3>2, Numbers DEF m
      <4> QED
        BY <4>1 DEF OfFlow
    <3> QED
      BY <1>g, <3>1, <3>2
  <2> QED
    BY <1>a, <1>b, <1>f, <2>2, <2>3 DEF OnPath
<1> QED
  BY <1>1, <1>2, <1>3, <1>4, <1>5, <1>6 DEF Inv

(* A probe that comes back is a reply of its flow.                          *)
LEMMA ReflectStep ==
  ASSUME Inv, NEW r \in net, Reflect(r)
  PROVE  Inv'
<1> DEFINE m == [port |-> 1, kind |-> "reply", flow |-> r.flow, sport |-> r.sport]
<1>a. Shape /\ Place /\ Total = Mbufs /\ Order /\ Flows /\ OnPath
  BY DEF Inv
<1>b. /\ free > 0 /\ Len(rxq[1]) < RxRing /\ free' = free - 1 /\ net' = net \ {r}
      /\ rxq' = [rxq EXCEPT ![1] = Append(rxq[1], m)]
  BY DEF Reflect
<1>c. UNCHANGED <<app, force_quit, pc, port_id, rx_burst, tx_burst, counter,
                  wire, arrived, last, stranded, flowID>>
  BY DEF Reflect
<1>d. m \in Reply /\ m \in Item
  BY <1>a DEF Reply, Item, Shape
<1>e. /\ m.port = 1 /\ m.kind = "reply" /\ m.flow = r.flow /\ m.sport = r.sport
      /\ ~IsPacket(m)
  BY DEF IsPacket
<1>f. app = "AR"
  BY <1>a DEF Place
<1> HIDE DEF m
<1>1. rxq[1] \in Seq(Item) /\ 1 \in Ports
  BY <1>a, Typed, PortsFacts
<1>2. /\ rxq'[1] = Append(rxq[1], m)
      /\ \A o \in Ports : o # 1 => rxq'[o] = rxq[o]
  BY <1>a, <1>b, <1>1 DEF Shape
<1>3. /\ rxq'[1] \in Seq(Item) /\ Len(rxq[1]) \in Nat
      /\ Len(rxq'[1]) = Len(rxq[1]) + 1
      /\ \A i \in 1 .. Len(rxq[1]) : rxq'[1][i] = rxq[1][i]
      /\ rxq'[1][Len(rxq[1]) + 1] = m
  BY <1>d, <1>1, <1>2, AppendFacts
<1>4. rxq' \in [Ports -> Seq(Item)]
  BY <1>a, <1>b, <1>2, <1>3 DEF Shape
<1>5. \A o \in Ports : \A i \in 1 .. Len(rxq'[o]) :
         (i \in 1 .. Len(rxq[o]) /\ rxq'[o][i] = rxq[o][i]) \/ (o = 1 /\ rxq'[o][i] = m)
  <2> TAKE o \in Ports
  <2>1. CASE o = 1
    BY <1>3, <2>1
  <2>2. CASE o # 1
    BY <1>2, <2>2
  <2> QED
    BY <2>1, <2>2
<1>6. Shape'
  <2>1. Item' = Item /\ Packet' = Packet
    BY <1>c DEF Item, Packet, Reply
  <2>2. \A q \in Ports : Len(rxq'[q]) <= RxRing
    BY <1>a, <1>b, <1>2, <1>3, WorkerAssumption DEF Shape
  <2>3. free' \in Nat
    BY <1>a, <1>b, Numbers
  <2> QED
    BY <1>a, <1>b, <1>c, <1>4, <2>1, <2>2, <2>3 DEF Shape
<1>7. Place'
  BY <1>a, <1>c, <1>e, <1>f, <1>5 DEF Place, NeedsProbe
<1>8. Total' = Mbufs
  <2>1. /\ Size(rxq'[1]) = Size(rxq[1]) + 1 /\ Size(rxq'[1]) \in Nat
        /\ Size(rxq[1]) \in Nat
    BY <1>3 DEF Size
  <2>2. \A q \in Ports : Size(rxq[q]) \in Nat
    BY <1>a, Typed
  <2>3. /\ Size(rxq'[0]) \in Nat /\ Size(rxq'[1]) \in Nat
        /\ Size(rxq'[0]) + Size(rxq'[1]) + Size(rxq[1])
             = Size(rxq[0]) + Size(rxq[1]) + Size(rxq'[1])
    BY <1>1, <1>2, <2>1, <2>2, SumOfPorts
  <2>4. Shape /\ Total = Mbufs /\ free > 0 /\ free' = free - 1
    BY <1>a, <1>b
  <2> QED
    BY <1>c, <2>1, <2>3, <2>4, TotalOf DEF Total
<1>9. Order'
  <2>1. \A y, l, a : Ahead(m, y) /\ Ahead(y, m) /\ Later(m, l, a)
    BY <1>e DEF Ahead, Later
  <2>2. Sorted(rxq'[1]) /\ Precedes(rx_burst, rxq'[1])
          /\ \A q \in Ports : Precedes(tx_burst[q], rxq'[1])
    <3>1. Sorted(rxq[1]) /\ Precedes(rx_burst, rxq[1])
      BY <1>a, <1>1 DEF Order
    <3>2. \A q \in Ports : Precedes(tx_burst[q], rxq[1])
      BY <1>a, <1>1 DEF Order
    <3> DEFINE s == rxq[1]
    <3>a. s \in Seq(Item) /\ \A i \in 1 .. Len(s) : Ahead(s[i], m)
      BY <1>1, <2>1
    <3>b. \A t : \A j \in 1 .. Len(t) : Ahead(t[j], m)
      BY <2>1
    <3>c. rxq'[1] = Append(s, m) /\ Sorted(s)
      BY <1>2, <3>1
    <3> HIDE DEF s
    <3>3. Sorted(Append(s, m))
      BY <1>d, <3>a, <3>c, AppendOrder
    <3>4. \A t : Precedes(t, s) => Precedes(t, Append(s, m))
      BY <1>d, <3>a, <3>b, AppendOrder
    <3>5. Precedes(rx_burst, s) /\ \A q \in Ports : Precedes(tx_burst[q], s)
      BY <3>1, <3>2 DEF s
    <3> QED
      BY <3>c, <3>3, <3>4, <3>5
  <2>3. \A o \in Ports : \A q \in Ports :
          /\ Sorted(rxq'[o]) /\ Precedes(rx_burst, rxq'[o])
          /\ Precedes(tx_burst[q], rxq'[o])
    BY <1>a, <1>2, <2>2 DEF Order
  <2>4. \A o \in Ports : \A i \in 1 .. Len(rxq'[o]) : Later(rxq'[o][i], last, arrived)
    BY <1>a, <1>5, <2>1 DEF Order
  <2> QED
    BY <1>a, <1>c, <2>3, <2>4 DEF Order
<1>10. Flows'
  <2>1. Fresh(m, flowID)
    BY <1>e DEF Fresh
  <2> QED
    BY <1>a, <1>c, <1>5, <2>1 DEF Flows
<1>11. OnPath'
  <2>1. Probed(m) /\ OfFlow(m, flowID, pc, rx_burst)
    BY <1>a, <1>e, <1>f DEF OnPath, OfFlow, Probed
  <2>2. \A o \in Ports : \A i \in 1 .. Len(rxq'[o]) :
          /\ Probed(rxq'[o][i])
          /\ ~IsPacket(rxq'[o][i]) => OfFlow(rxq'[o][i], flowID, pc, rx_burst)
    BY <1>a, <1>f, <1>5, <2>1 DEF OnPath
  <2> QED
    BY <1>a, <1>b, <1>c, <1>f, <2>2 DEF OnPath
<1> QED
  BY <1>6, <1>7, <1>8, <1>9, <1>10, <1>11 DEF Inv

-----------------------------------------------------------------------------
(* The wait for an answer.  The probed port's queue loses its first n       *)
(* elements, and the first packet of the burst may be decided.              *)
Cut(n) ==
  /\ rxq' \in [Ports -> Seq(Item)] /\ n \in Nat
  /\ Size(rxq'[1]) \in Nat /\ Size(rxq'[1]) + n = Size(rxq[1])
  /\ Len(rxq'[1]) <= RxRing
  /\ \A o \in Ports : o # 1 => rxq'[o] = rxq[o]
  /\ \E a : Split(rxq[1], n, a, rxq'[1])

(* Alike in everything the order depends on.                                *)
Like(m, x) == x.port = m.port /\ x.n = m.n /\ IsPacket(m) /\ IsPacket(x)

Decided ==
  /\ rx_burst' \in Seq(Item) /\ Len(rx_burst') = Len(rx_burst)
  /\ \A i \in 1 .. Len(rx_burst) : i > 1 => rx_burst'[i] = rx_burst[i]
  /\ Like(rx_burst[1], rx_burst'[1])
  /\ rx_burst'[1].kind # "new" /\ Probed(rx_burst'[1])
  /\ pc' = "packet"

LEMMA WaitStep ==
  ASSUME Inv, pc = "probe", NEW n, Cut(n),
         free' \in Nat, stranded' \in Nat, free' + stranded' = free + stranded + n,
         \/ Decided
         \/ rx_burst' = rx_burst /\ pc' = "probe",
         UNCHANGED <<app, force_quit, port_id, tx_burst, counter, wire, arrived,
                     last, flowID, net>>
  PROVE  Inv'
<1>a. Shape /\ Place /\ Total = Mbufs /\ Order /\ Flows /\ OnPath
  BY DEF Inv
<1>b. /\ rxq' \in [Ports -> Seq(Item)] /\ n \in Nat
      /\ Size(rxq'[1]) \in Nat /\ Size(rxq'[1]) + n = Size(rxq[1])
      /\ Len(rxq'[1]) <= RxRing
      /\ \A o \in Ports : o # 1 => rxq'[o] = rxq[o]
  BY DEF Cut
<1>c. PICK a : Split(rxq[1], n, a, rxq'[1])
  BY DEF Cut
<1>d. /\ rx_burst \in Seq(Item) /\ Len(rx_burst) <= Burst
      /\ 1 \in 1 .. Len(rx_burst) /\ NeedsProbe(rx_burst[1]) /\ app = "AR"
  BY <1>a, Typed, TailFacts DEF Place, NeedsProbe, Shape
<1>1. \A o \in Ports : \A i \in 1 .. Len(rxq'[o]) :
         \E j \in 1 .. Len(rxq[o]) : rxq'[o][i] = rxq[o][j]
  <2> TAKE o \in Ports
  <2>1. CASE o = 1
    <3>1. \A i \in 1 .. Len(rxq'[1]) : i + n \in 1 .. Len(rxq[1]) /\ rxq'[1][i] = rxq[1][i + n]
      BY <1>c DEF Split
    <3> QED
      BY <2>1, <3>1
  <2>2. CASE o # 1
    BY <1>b, <2>2
  <2> QED
    BY <2>1, <2>2
<1>2. \A o \in Ports : /\ Sorted(rxq'[o])
                       /\ \A t : Precedes(t, rxq[o]) => Precedes(t, rxq'[o])
  <2>1. Sorted(rxq'[1]) /\ \A t : Precedes(t, rxq[1]) => Precedes(t, rxq'[1])
    BY <1>a, <1>c, SplitOrder, PortsFacts DEF Order
  <2> QED
    BY <1>a, <1>b, <2>1 DEF Order
<1>3. /\ rx_burst' \in Seq(Item) /\ Len(rx_burst') = Len(rx_burst)
      /\ \A i \in 1 .. Len(rx_burst) : i > 1 => rx_burst'[i] = rx_burst[i]
      /\ Like(rx_burst[1], rx_burst'[1]) \/ rx_burst' = rx_burst
      /\ Probed(rx_burst'[1])
      /\ pc' = "packet" => rx_burst'[1].kind # "new"
      /\ pc' = "probe" => rx_burst' = rx_burst
      /\ pc' \in {"packet", "probe"}
  <2>1. CASE Decided
    BY <2>1 DEF Decided
  <2>2. CASE rx_burst' = rx_burst /\ pc' = "probe"
    BY <1>a, <1>d, <2>2 DEF OnPath
  <2> QED
    BY <2>1, <2>2
<1>4. \A i \in 1 .. Len(rx_burst) : \/ rx_burst'[i] = rx_burst[i]
                                    \/ i = 1 /\ Like(rx_burst[1], rx_burst'[1])
  BY <1>d, <1>3
<1>5. \A m, x, y : Like(m, x) => /\ Ahead(m, y) <=> Ahead(x, y)
                                 /\ Ahead(y, m) <=> Ahead(y, x)
                                 /\ \A l, b : Later(m, l, b) <=> Later(x, l, b)
  BY DEF Like, Ahead, Later
<1>6. \A i \in 1 .. Len(rx_burst) :
        /\ \A y : /\ Ahead(rx_burst[i], y) <=> Ahead(rx_burst'[i], y)
                  /\ Ahead(y, rx_burst[i]) <=> Ahead(y, rx_burst'[i])
        /\ Later(rx_burst[i], last, arrived) <=> Later(rx_burst'[i], last, arrived)
  BY <1>4, <1>5
<1>7. Shape'
  <2>1. Item' = Item /\ Packet' = Packet
    BY DEF Item, Packet, Reply
  <2>2. \A q \in Ports : Len(rxq'[q]) <= RxRing
    BY <1>a, <1>b DEF Shape
  <2>3. rx_burst' \in Seq(Item) /\ Len(rx_burst') <= Burst
    BY <1>d, <1>3
  <2> QED
    BY <1>a, <1>b, <1>3, <2>1, <2>2, <2>3 DEF Shape
<1>8. Place'
  <2>1. \A o \in Ports : \A i \in 1 .. Len(rxq'[o]) : rxq'[o][i].port = o
    BY SMTT(30), <1>a, <1>1 DEF Place
  <2>2. pc' = "probe" => rx_burst' = rx_burst /\ rx_burst # <<>> /\ NeedsProbe(rx_burst'[1])
    BY <1>a, <1>3, <1>d DEF Place
  <2> QED
    BY <1>d, <1>3, <2>1, <2>2 DEF Place, NeedsProbe
<1>9. Total' = Mbufs
  <2>1. \A q \in Ports : Size(rxq[q]) \in Nat
    BY <1>a, Typed
  <2>2. /\ Size(rxq'[0]) \in Nat /\ Size(rxq'[1]) \in Nat
        /\ Size(rxq'[0]) + Size(rxq'[1]) + Size(rxq[1])
             = Size(rxq[0]) + Size(rxq[1]) + Size(rxq'[1])
    <3>1. 1 \in Ports /\ Size(rxq'[1]) \in Nat /\ \A q \in Ports : q # 1 => rxq'[q] = rxq[q]
      BY <1>b, PortsFacts DEF Cut
    <3> QED
      BY <2>1, <3>1, SumOfPorts
  <2>3. Size(rx_burst') = Size(rx_burst)
    BY <1>3 DEF Size
  <2>4. /\ Shape /\ Total = Mbufs /\ n \in Nat
        /\ Size(rxq'[1]) + n = Size(rxq[1])
    BY <1>a, <1>b
  <2> QED
    BY <2>2, <2>3, <2>4, TotalOf DEF Total
<1>10. Order'
  <2>1. Sorted(rx_burst')
    BY <1>a, <1>3, <1>6 DEF Order, Sorted
  <2>2. \A o \in Ports : Precedes(rx_burst', rxq'[o])
    <3> TAKE o \in Ports
    <3>1. Precedes(rx_burst, rxq'[o])
      BY <1>a, <1>2 DEF Order
    <3> QED
      BY <1>3, <1>6, <3>1 DEF Precedes
  <2>3. \A o \in Ports : /\ Precedes(tx_burst[o], rx_burst')
                         /\ \A q \in Ports : Precedes(tx_burst[q], rxq'[o])
    <3> TAKE o \in Ports
    <3>1. Precedes(tx_burst[o], rx_burst) /\ \A q \in Ports : Precedes(tx_burst[q], rxq'[o])
      BY <1>a, <1>2 DEF Order
    <3>2. Precedes(tx_burst[o], rx_burst')
      BY <1>3, <1>6, <3>1 DEF Precedes
    <3> QED
      BY <3>1, <3>2
  <2>4. \A i \in 1 .. Len(rx_burst') : Later(rx_burst'[i], last, arrived)
    BY <1>a, <1>3, <1>6 DEF Order
  <2>5. \A o \in Ports : \A i \in 1 .. Len(rxq'[o]) : Later(rxq'[o][i], last, arrived)
    BY <1>a, <1>1 DEF Order
  <2> QED
    BY <1>a, <1>2, <2>1, <2>2, <2>3, <2>4, <2>5 DEF Order
<1>11. Flows'
  <2>1. \A o \in Ports : \A i \in 1 .. Len(rxq'[o]) : Fresh(rxq'[o][i], flowID)
    BY <1>a, <1>1 DEF Flows
  <2>2. \A i \in 1 .. Len(rx_burst) : i > 1 => Fresh(rx_burst'[i], flowID)
    BY <1>a, <1>3 DEF Flows
  <2>3. pc' # "probe" => Fresh(rx_burst'[1], flowID)
    BY <1>3 DEF Fresh
  <2>4. \A i \in 1 .. Len(rx_burst) : i > 1 \/ i = 1
    BY <1>d
  <2> QED
    BY <1>a, <1>3, <2>1, <2>2, <2>3, <2>4 DEF Flows
<1>12. OnPath'
  <2>1. \A r : OfFlow(r, flowID, pc, rx_burst) => OfFlow(r, flowID, pc', rx_burst')
    BY <1>3 DEF OfFlow
  <2>2. \A i \in 1 .. Len(rx_burst') : Probed(rx_burst'[i])
    BY <1>a, <1>d, <1>3, <1>4 DEF OnPath
  <2>3. \A o \in Ports : \A i \in 1 .. Len(rxq'[o]) :
          /\ Probed(rxq'[o][i])
          /\ ~IsPacket(rxq'[o][i]) => OfFlow(rxq'[o][i], flowID, pc', rx_burst')
    BY <1>a, <1>d, <1>1, <2>1 DEF OnPath
  <2> QED
    BY <1>a, <1>d, <2>1, <2>2, <2>3 DEF OnPath
<1> QED
  BY <1>7, <1>8, <1>9, <1>10, <1>11, <1>12 DEF Inv

LEMMA DecideFacts ==
  ASSUME Inv, pc = "probe", NEW path \in Nat, Decide(path), pc' = "packet",
         path # 0 => \E p \in 0 .. Paths - 1 : path = Path(rx_burst[1].sport, p)
  PROVE  Decided
<1> DEFINE m == rx_burst[1]
           x == [m EXCEPT !.kind = IF path # 0 THEN "conn" ELSE "refused", !.path = path]
<1>1. /\ rx_burst \in Seq(Item) /\ Len(rx_burst) \in Nat
      /\ 1 \in 1 .. Len(rx_burst) /\ NeedsProbe(m) /\ m \in Item
  BY Typed, TailFacts DEF Inv, Place
<1>2. m \in Packet /\ m.kind = "new"
  BY <1>1 DEF NeedsProbe, Item, Reply
<1>3. /\ x \in Packet /\ x.port = m.port /\ x.n = m.n /\ x.sport = m.sport
      /\ x.path = path /\ x.kind \in {"conn", "refused"}
  BY <1>2 DEF Packet, Kinds
<1>4. rx_burst' = [rx_burst EXCEPT ![1] = x]
  BY DEF Decide
<1> HIDE DEF x
<1>5. x \in Item
  BY <1>3 DEF Item
<1>6. /\ rx_burst' \in Seq(Item) /\ Len(rx_burst') = Len(rx_burst)
      /\ \A i \in 1 .. Len(rx_burst) : rx_burst'[i] = IF i = 1 THEN x ELSE rx_burst[i]
  BY <1>1, <1>4, <1>5, ExceptSeq
<1>7. rx_burst'[1] = x
  BY <1>1, <1>6
<1>8. Like(m, x) /\ x.kind # "new"
  BY <1>2, <1>3 DEF Like, IsPacket
<1>9. Probed(x)
  BY <1>3 DEF Probed
<1>10. \A i \in 1 .. Len(rx_burst) : i > 1 => rx_burst'[i] = rx_burst[i]
  BY <1>6
<1> QED
  BY <1>6, <1>7, <1>8, <1>9, <1>10 DEF Decided

LEMMA TimeoutStep ==
  ASSUME Inv, Timeout
  PROVE  Inv'
<1>1. /\ pc = "probe" /\ Decide(0) /\ pc' = "packet"
      /\ UNCHANGED <<app, force_quit, port_id, tx_burst, counter, free, rxq, wire,
                     arrived, last, stranded, flowID, net>>
  BY DEF Timeout, probeVars
<1>2. Decided
  BY <1>1, DecideFacts
<1>3. Shape
  BY DEF Inv
<1>4. Cut(0)
  <2>1. rxq' = rxq
    BY <1>1
  <2>2. /\ rxq \in [Ports -> Seq(Item)] /\ Len(rxq[1]) <= RxRing /\ 1 \in Ports
    BY <1>3, PortsFacts DEF Shape
  <2>3. rxq[1] \in Seq(Item) /\ Len(rxq[1]) \in Nat /\ Size(rxq[1]) \in Nat
    BY <2>2 DEF Size
  <2>4. Len(<<>>) = 0
    OBVIOUS
  <2>5. Split(rxq[1], 0, <<>>, rxq[1])
    BY <2>3, <2>4 DEF Split
  <2>6. Size(rxq[1]) + 0 = Size(rxq[1])
    BY <2>3
  <2> QED
    BY <2>1, <2>2, <2>3, <2>5, <2>6 DEF Cut
<1>5. free' \in Nat /\ stranded' \in Nat /\ free' + stranded' = free + stranded + 0
  BY <1>1, <1>3, Numbers
<1> QED
  BY <1>1, <1>2, <1>4, <1>5, WaitStep

LEMMA PollStep ==
  ASSUME Inv, Poll
  PROVE  Inv'
<1> DEFINE n == Available(rxq[1], Paths)
           burst == SubSeq(rxq[1], 1, n)
           hits == {i \in 1 .. n : Answers(burst[i])}
           b == SubSeq(rxq[1], n + 1, Len(rxq[1]))
<1>a. Shape /\ OnPath
  BY DEF Inv
<1>b. /\ pc = "probe"
      /\ rxq' = [rxq EXCEPT ![1] = b]
      /\ UNCHANGED <<app, force_quit, port_id, tx_burst, counter, wire, arrived,
                     last, flowID, net>>
  BY DEF Poll, probeVars
<1>c. rxq[1] \in Seq(Item) /\ 1 \in Ports /\ Len(rxq[1]) \in Nat /\ Len(rxq[1]) <= RxRing
  BY <1>a, Typed, PortsFacts DEF Shape
<1>d. n \in 0 .. Len(rxq[1]) /\ n \in Nat
  BY <1>c, AdaptiveAssumption DEF Available
<1>e. \/ /\ hits = {} /\ free' = free + n /\ UNCHANGED <<pc, rx_burst, stranded>>
      \/ \E i \in hits : /\ free' = free + i /\ stranded' = stranded + (n - i)
                         /\ Decide(burst[i].sport) /\ pc' = "packet"
  BY DEF Poll
<1> HIDE DEF n
<1>1. /\ Len(burst) = n /\ b \in Seq(Item) /\ Len(b) = Len(rxq[1]) - n
      /\ \A i \in 1 .. n : burst[i] = rxq[1][i]
      /\ \A i \in 1 .. Len(rxq[1]) - n : b[i] = rxq[1][i + n]
  BY <1>c, <1>d, SplitFacts
<1>2. Cut(n)
  <2>1. Split(rxq[1], n, burst, b)
    BY <1>c, <1>d, <1>1 DEF Split
  <2>2. rxq' \in [Ports -> Seq(Item)] /\ rxq'[1] = b /\ \A o \in Ports : o # 1 => rxq'[o] = rxq[o]
    BY <1>a, <1>b, <1>c, <1>1 DEF Shape
  <2>3. Size(b) \in Nat /\ Size(b) + n = Size(rxq[1]) /\ Len(b) <= RxRing
    BY <1>c, <1>d, <1>1, WorkerAssumption DEF Size
  <2> QED
    BY <1>d, <2>1, <2>2, <2>3 DEF Cut
<1>3. CASE hits = {} /\ free' = free + n /\ UNCHANGED <<pc, rx_burst, stranded>>
  <2>1. free' \in Nat /\ stranded' \in Nat /\ free' + stranded' = free + stranded + n
    BY <1>a, <1>d, <1>3, Numbers
  <2> QED
    BY <1>b, <1>2, <1>3, <2>1, WaitStep
<1>4. ASSUME NEW i, i \in hits, free' = free + i, stranded' = stranded + (n - i),
             Decide(burst[i].sport), pc' = "packet"
      PROVE  Inv'
  <2> DEFINE r == rxq[1][i]
  <2>1. i \in 1 .. n /\ i \in 1 .. Len(rxq[1]) /\ burst[i] = r /\ Answers(r)
    BY <1>c, <1>d, <1>1, <1>4
  <2>2. r \in Item /\ r.kind = "reply" /\ r.flow = flowID
    BY <1>c, <2>1 DEF Answers
  <2>3. r.sport \in Nat /\ ~IsPacket(r)
    BY <2>2 DEF Item, Packet, Kinds, Reply, IsPacket
  <2>4. app = "AR"
    BY <1>c, <2>1, <2>3 DEF Inv, Place
  <2>5. OfFlow(r, flowID, pc, rx_burst)
    BY <1>a, <1>c, <2>1, <2>3, <2>4 DEF OnPath
  <2>6. \E p \in 0 .. Paths - 1 : r.sport = Path(rx_burst[1].sport, p)
    BY <1>b, <2>2, <2>5 DEF OfFlow
  <2>7. Decided
    BY <1>b, <1>4, <2>1, <2>3, <2>6, DecideFacts
  <2>a. i \in Nat /\ i <= n /\ n \in Nat /\ free \in Nat /\ stranded \in Nat
    BY <1>a, <1>d, <2>1, Numbers
  <2>8. free' \in Nat /\ stranded' \in Nat /\ free' + stranded' = free + stranded + n
    BY <1>4, <2>a
  <2> QED
    BY <1>b, <1>2, <2>7, <2>8, WaitStep
<1> QED
  BY <1>e, <1>3, <1>4

-----------------------------------------------------------------------------
LEMMA NextInv ==
  ASSUME Inv, [Next]_vars
  PROVE  Inv'
<1>1. ASSUME WorkerNext, UNCHANGED probeVars PROVE Inv'
  BY <1>1, LoopStep, ReceiveStep, ProcessStep, FlushStep, StopStep, TxDoneStep,
     ArriveStep DEF WorkerNext, WorkerStep
<1>2. ASSUME NEW r \in net, Reflect(r) \/ Lose(r) PROVE Inv'
  BY <1>2, ReflectStep, LoseStep
<1> QED
  BY <1>1, <1>2, StartProbeStep, PollStep, TimeoutStep, StutterStep DEF Next

LEMMA Invariance == Spec => []Inv
<1>1. Inv /\ [Next]_vars => Inv'
  BY NextInv
<1> QED
  BY <1>1, InitInv, PTL DEF Spec

(* No mbuf is lost or freed twice but for the two leaks stranded counts,    *)
(* and no buffer overflows, whatever the sizes of pool, rings and bursts.   *)
THEOREM MbufSafety == Spec => []MbufsConserved
<1>1. ASSUME Inv PROVE MbufsConserved
  <2>a. Shape /\ Total = Mbufs /\ Flows
    BY <1>1 DEF Inv
  <2>1. /\ free <= Mbufs /\ wire <= Mbufs /\ stranded <= Mbufs
    BY <2>a, TotalOf DEF Total
  <2>2. /\ free \in 0 .. Mbufs /\ wire \in 0 .. Mbufs /\ stranded \in 0 .. Mbufs
    BY <2>a, <2>1, Numbers
  <2>3. flowID \in 0 .. MaxPackets[app]
    BY <2>a, Numbers DEF Flows, Shape
  <2>4. \A q \in Ports : tx_burst[q] \in Seq(Packet \cup Reply) /\ rxq[q] \in Seq(Packet \cup Reply)
    BY <2>a, Typed DEF Item
  <2>5. TypeOK
    BY <2>a, <2>2, <2>3, <2>4 DEF TypeOK, Shape, Item
  <2>6. free + wire + stranded + Len(rx_burst) + Len(rxq[0]) + Len(rxq[1])
          + Len(tx_burst[0]) + Len(tx_burst[1]) = Mbufs
    BY <2>a DEF Total, Size
  <2> QED
    BY <2>5, <2>6 DEF MbufsConserved
<1> QED
  BY <1>1, Invariance, PTL

(* No packet overtakes another of its port on the way out.                  *)
THEOREM OrderSafety == Spec => []InOrder
<1>1. ASSUME Inv PROVE InOrder
  <2> SUFFICES ASSUME NEW q \in Ports, NEW i \in DOMAIN tx_burst[q]
               PROVE  /\ tx_burst[q][i].n > last[q][tx_burst[q][i].port]
                      /\ \A j \in 1 .. i - 1 :
                           tx_burst[q][j].port = tx_burst[q][i].port
                             => tx_burst[q][j].n < tx_burst[q][i].n
    BY DEF InOrder
  <2>1. Shape /\ Order
    BY <1>1 DEF Inv
  <2>2. i \in 1 .. Len(tx_burst[q]) /\ Len(tx_burst[q]) \in Nat
    BY <2>1, Typed, LenProperties
  <2>3. tx_burst[q][i] \in Packet /\ IsPacket(tx_burst[q][i])
    BY <2>1, <2>2, Buffered
  <2>4. /\ last[q][tx_burst[q][i].port] < tx_burst[q][i].n
        /\ tx_burst[q][i].n \in Nat /\ last[q][tx_burst[q][i].port] \in Nat
    BY SMTT(30), <2>1, <2>2, <2>3, Numbers DEF Order, Packet
  <2>5. \A j \in 1 .. i - 1 : j \in 1 .. Len(tx_burst[q]) /\ j < i
    BY <2>2
  <2>6. \A j \in 1 .. i - 1 : Ahead(tx_burst[q][j], tx_burst[q][i]) /\ IsPacket(tx_burst[q][j])
    BY <2>1, <2>2, <2>5, Buffered DEF Order, Sorted
  <2> QED
    BY <2>3, <2>4, <2>6 DEF Ahead
<1> QED
  BY <1>1, Invariance, PTL

(* A flow only gets a path that was probed for it, however late the replies *)
(* to earlier flows come.                                                   *)
THEOREM PathSafety == Spec => []OwnPath
<1>1. ASSUME Inv PROVE OwnPath
  <2> SUFFICES ASSUME app = "AR", NEW i \in DOMAIN tx_burst[1], tx_burst[1][i].path # 0
               PROVE  \E p \in 0 .. Paths - 1 :
                        tx_burst[1][i].path = Path(tx_burst[1][i].sport, p)
    BY DEF OwnPath
  <2>1. Shape /\ OnPath
    BY <1>1 DEF Inv
  <2>2. i \in 1 .. Len(tx_burst[1]) /\ 1 \in Ports
    BY <2>1, Typed, LenProperties, PortsFacts
  <2>3. Probed(tx_burst[1][i]) /\ IsPacket(tx_burst[1][i])
    BY <2>1, <2>2, Buffered DEF OnPath
  <2> QED
    BY <2>3 DEF Probed
<1> QED
  BY <1>1, Invariance, PTL
=============================================================================
