---------------------------- MODULE Report_proofs ----------------------------
(***************************************************************************)
(* Proofs about the messages and the commands that report on the workers,  *)
(* for every number of workers and calls, every ring size and any amount   *)
(* of work: messages are conserved, a call that never timed out has run    *)
(* its task everywhere, and the numbers reported are right.                *)
(***************************************************************************)
EXTENDS Report, FiniteSetTheorems, TLAPS

-----------------------------------------------------------------------------
(* The inductive invariant of the messages.                                 *)

Rings == [Slaves -> Seq(0 .. MaxCalls)]

Shape ==
  /\ call \in 0 .. MaxCalls
  /\ master \in {"idle", "make", "enqueue", "recv", "free", "return"}
  /\ at \in Slaves /\ got \in 0 .. SlaveNum /\ ret \in {0, 1}
  /\ slave \in [Slaves -> {"poll", "free", "run", "make", "enqueue"}]
  /\ task \in [Slaves -> 0 .. MaxCalls] /\ last \in [Slaves -> 0 .. MaxCalls]
  /\ tx \in Rings /\ rx \in Rings
  /\ \A s \in Slaves : Len(tx[s]) < MAX_RING_COUNT /\ Len(rx[s]) < MAX_RING_COUNT
  /\ pool \in Nat /\ timely \in BOOLEAN
  /\ master \in {"recv", "free"} => got < at
  /\ master # "idle" => call > 0

Conserved == pool + InHand + InRings = PoolSize

(* What the master, at m with slave a, has done for slave s in this call.   *)
Phase(m, a, s) ==
  CASE m \in {"make", "enqueue"} -> IF s < a THEN "sent" ELSE "unsent"
    [] m = "recv"                -> IF s < a THEN "back" ELSE "sent"
    [] m = "free"                -> IF s <= a THEN "back" ELSE "sent"
    [] OTHER                     -> "back"

(* Where a slave can be in each phase, with its state w, its rings t and r, *)
(* its task k, the task l it finished last, and the call c.  A message that *)
(* could not be made or queued leaves both rings empty: the master will     *)
(* give up on this slave.                                                   *)
Tracked(p, w, t, r, k, l, c) ==
  /\ p = "unsent" => w = "poll" /\ t = <<>> /\ r = <<>> /\ l < c
  /\ p = "back"   => w = "poll" /\ t = <<>> /\ r = <<>> /\ l = c
  /\ p = "sent"   =>
       \/ w = "poll" /\ t \in {<<>>, <<c>>} /\ r = <<>> /\ l < c
       \/ w \in {"free", "run"} /\ t = <<>> /\ r = <<>> /\ k = c /\ l < c
       \/ w \in {"make", "enqueue"} /\ t = <<>> /\ r = <<>> /\ k = c /\ l = c
       \/ w = "poll" /\ t = <<>> /\ r \in {<<>>, <<c>>} /\ l = c

Progress ==
  timely => \A s \in Slaves :
    Tracked(Phase(master, at, s), slave[s], tx[s], rx[s], task[s], last[s], call)

Inv == Shape /\ Conserved /\ Progress

-----------------------------------------------------------------------------
(* The inductive invariant of the reports.                                  *)

ReportShape ==
  /\ kind \in [1 .. MaxCalls -> Reports]
  /\ finished \in [Slaves -> 0 .. MaxWork] /\ cpu \in [Slaves -> Nat]
  /\ \A s \in Slaves : cpu[s] <= finished[s]
  /\ cells \in [Reports -> [Slaves -> Nat]]
  /\ zeroed \subseteq Slaves /\ \A s \in zeroed : cells["offload"][s] = 0
  /\ adding \in 0 .. SlaveNum
  /\ adding # 0 => master = "idle" /\ call > 0
  /\ total \in Nat /\ floor \in Nat /\ reported \in Nat

(* The slaves whose cells the main core has added.                          *)
Added ==
  {s \in Slaves : master = "idle" /\ (adding = 0 \/ s < adding)}

(* With c for the cells of the command, k for the counts, l for last and n  *)
(* for the call: g are the counts when the command started, b their sum.    *)
Counts(g, b, c, k, l, n) ==
  /\ g \in [Slaves -> 0 .. MaxWork] /\ Sum(g) = b
  /\ \A s \in Slaves : g[s] <= k[s]
  /\ \A s \in Slaves : l[s] = n => g[s] <= c[s] /\ c[s] <= k[s]

Counting ==
  timely /\ call > 0 /\ kind[call] # "cycles" =>
    /\ total = SumOver(cells[kind[call]], Added)
    /\ \E g : Counts(g, floor, cells[kind[call]], finished, last, call)

ReportInv == Inv /\ ReportShape /\ Counting /\ CyclesExact

-----------------------------------------------------------------------------
(* Sums.                                                                    *)

LEMMA UpTo ==
  ASSUME NEW n \in Nat
  PROVE  IsFiniteSet(1 .. n) /\ Cardinality(1 .. n) = n
<1>1. 1 \in Int /\ n \in Int
  OBVIOUS
<1>2. IsFiniteSet(1 .. n) /\ Cardinality(1 .. n) = IF 1 > n THEN 0 ELSE n - 1 + 1
  BY <1>1, FS_Interval
<1> QED
  BY <1>2

LEMMA ColumnSize ==
  ASSUME NEW s, NEW T, IsFiniteSet(T)
  PROVE  IsFiniteSet({s} \X T) /\ Cardinality({s} \X T) = 1 * Cardinality(T)
<1>1. IsFiniteSet({s}) /\ Cardinality({s}) = 1
  BY FS_Singleton
<1> DEFINE S == {s}
<1> HIDE DEF S
<1>2. IsFiniteSet(S \X T) /\ Cardinality(S \X T) = Cardinality(S) * Cardinality(T)
  BY <1>1, FS_Product DEF S
<1> QED
  BY <1>1, <1>2 DEF S

LEMMA UnitsFinite ==
  ASSUME NEW S, IsFiniteSet(S), NEW f, \A s \in S : f[s] \in Nat
  PROVE  IsFiniteSet(Units(f, S))
<1> DEFINE g == [s \in S |-> {s} \X (1 .. f[s])]
           T == {{s} \X (1 .. f[s]) : s \in S}
<1>1. g \in Surjection(S, T)
  BY DEF Surjection
<1>2. IsFiniteSet(T)
  BY <1>1, FS_Surjection
<1>3. ASSUME NEW s \in S PROVE IsFiniteSet({s} \X (1 .. f[s]))
  <2>1. IsFiniteSet({s}) /\ IsFiniteSet(1 .. f[s])
    BY FS_Singleton, UpTo
  <2> QED
    BY <2>1, FS_Product
<1>4. \A U \in T : IsFiniteSet(U)
  BY <1>3
<1> HIDE DEF T
<1>5. IsFiniteSet(UNION T)
  BY <1>2, <1>4, FS_UNION
<1> QED
  BY <1>5 DEF Units, T

LEMMA SumType ==
  ASSUME NEW S, IsFiniteSet(S), NEW f, \A s \in S : f[s] \in Nat
  PROVE  SumOver(f, S) \in Nat
  BY UnitsFinite, FS_CardinalityType DEF SumOver

LEMMA SumEmpty == \A f : SumOver(f, {}) = 0
  BY FS_EmptySet DEF SumOver, Units

LEMMA SumSame ==
  ASSUME NEW S, NEW f, NEW g, \A s \in S : f[s] = g[s]
  PROVE  SumOver(f, S) = SumOver(g, S)
<1>1. {{s} \X (1 .. f[s]) : s \in S} = {{s} \X (1 .. g[s]) : s \in S}
  OBVIOUS
<1> QED
  BY <1>1 DEF SumOver, Units

(* One summand is taken out.                                                *)
LEMMA SumSplit ==
  ASSUME NEW S, IsFiniteSet(S), NEW f, \A s \in S : f[s] \in Nat, NEW s \in S
  PROVE  /\ SumOver(f, S) = SumOver(f, S \ {s}) + f[s]
         /\ SumOver(f, S \ {s}) \in Nat /\ f[s] \in Nat
<1> DEFINE A == Units(f, S \ {s})
           B == {s} \X (1 .. f[s])
<1>1. IsFiniteSet(S \ {s})
  BY FS_RemoveElement
<1>2. IsFiniteSet(A) /\ SumOver(f, S \ {s}) \in Nat
  BY <1>1, UnitsFinite, SumType
<1>3. IsFiniteSet(B) /\ Cardinality(B) = f[s]
  <2>1. IsFiniteSet({s}) /\ Cardinality({s}) = 1
    BY FS_Singleton
  <2>2. IsFiniteSet(1 .. f[s]) /\ Cardinality(1 .. f[s]) = f[s] /\ f[s] \in Nat
    BY UpTo
  <2>3. IsFiniteSet(B) /\ Cardinality(B) = 1 * f[s]
    BY <2>1, <2>2, ColumnSize
  <2> QED
    BY <2>2, <2>3
<1>4. Units(f, S) = A \cup B
  BY DEF Units
<1>5. A \cap B = {}
  BY DEF Units
<1> HIDE DEF A, B
<1>6. Cardinality(A \cup B) = Cardinality(A) + Cardinality(B) - Cardinality({})
  BY <1>2, <1>3, <1>5, FS_Union
<1>7. Cardinality(A) \in Nat /\ Cardinality(A) = SumOver(f, S \ {s})
  BY <1>2, FS_CardinalityType DEF SumOver, A
<1>8. SumOver(f, S) = Cardinality(A \cup B)
  BY <1>4 DEF SumOver
<1> QED
  BY <1>3, <1>6, <1>7, <1>8, FS_EmptySet

(* One summand changes.                                                     *)
LEMMA SumChange ==
  ASSUME NEW S, IsFiniteSet(S), NEW s \in S, NEW f, NEW g,
         \A t \in S : f[t] \in Nat, g[s] \in Nat, \A t \in S \ {s} : g[t] = f[t]
  PROVE  /\ SumOver(g, S) + f[s] = SumOver(f, S) + g[s]
         /\ SumOver(g, S) \in Nat /\ SumOver(f, S) \in Nat
<1>1. \A t \in S : g[t] \in Nat
  OBVIOUS
<1>2. SumOver(g, S \ {s}) = SumOver(f, S \ {s})
  BY SumSame
<1>3. /\ SumOver(f, S) = SumOver(f, S \ {s}) + f[s]
      /\ SumOver(f, S \ {s}) \in Nat /\ f[s] \in Nat
  BY SumSplit
<1>4. SumOver(g, S) = SumOver(g, S \ {s}) + g[s]
  BY <1>1, SumSplit
<1> QED
  BY <1>2, <1>3, <1>4

LEMMA SumGrows ==
  ASSUME NEW S, IsFiniteSet(S), NEW f, NEW g,
         \A s \in S : f[s] \in Nat /\ g[s] \in Nat /\ f[s] <= g[s]
  PROVE  SumOver(f, S) <= SumOver(g, S)
<1>1. Units(f, S) \in SUBSET Units(g, S)
  <2>1. \A s \in S : {s} \X (1 .. f[s]) \subseteq {s} \X (1 .. g[s])
    OBVIOUS
  <2> QED
    BY <2>1 DEF Units
<1>2. IsFiniteSet(Units(g, S))
  BY UnitsFinite
<1> QED
  BY <1>1, <1>2, FS_Subset DEF SumOver

LEMMA SlavesFinite == IsFiniteSet(Slaves) /\ SlaveNum \in Nat
  BY MessageAssumption, UpTo DEF Slaves

-----------------------------------------------------------------------------
(* The messages.                                                            *)

LEMMA ShapeInit == Init => Shape
<1> SUFFICES ASSUME Init PROVE Shape
  OBVIOUS
<1>1. <<>> \in Seq(0 .. MaxCalls) /\ Len(<<>>) = 0
  OBVIOUS
<1>2. 1 \in Slaves /\ SlaveNum \in Nat /\ MAX_RING_COUNT > 0 /\ PoolSize \in Nat
  BY MessageAssumption DEF Slaves, PoolSize
<1>3. tx \in Rings /\ rx \in Rings
  BY <1>1 DEF Init, Rings
<1>4. \A s \in Slaves : Len(tx[s]) < MAX_RING_COUNT /\ Len(rx[s]) < MAX_RING_COUNT
  BY <1>1, <1>2 DEF Init
<1> QED
  BY <1>2, <1>3, <1>4, MessageAssumption DEF Init, Shape

(* Where the loop of the master goes.                                       *)
LEMMA AdvanceFacts ==
  ASSUME at \in Slaves, NEW loop, NEW done, Advance(loop, done)
  PROVE  /\ at' \in Slaves /\ at \in Nat /\ at' \in Nat
         /\ \/ at < SlaveNum /\ at' = at + 1 /\ master' = loop
            \/ at = SlaveNum /\ at' = 1 /\ master' = done
  BY MessageAssumption DEF Slaves, Advance

(* A ring after a message was put in or taken out.                          *)
LEMMA PutFacts ==
  ASSUME NEW r \in Rings, NEW s \in Slaves, NEW m \in 0 .. MaxCalls, ~Full(r[s]),
         \A t \in Slaves : Len(r[t]) < MAX_RING_COUNT
  PROVE  LET u == [r EXCEPT ![s] = Append(@, m)] IN
         /\ u \in Rings /\ u[s] = Append(r[s], m)
         /\ \A t \in Slaves \ {s} : u[t] = r[t]
         /\ Len(r[s]) \in Nat /\ Len(u[s]) = Len(r[s]) + 1
         /\ \A t \in Slaves : Len(u[t]) < MAX_RING_COUNT
<1> DEFINE u == [r EXCEPT ![s] = Append(@, m)]
<1>1. r[s] \in Seq(0 .. MaxCalls) /\ Len(r[s]) \in Nat
  BY DEF Rings
<1>2. Append(r[s], m) \in Seq(0 .. MaxCalls) /\ Len(Append(r[s], m)) = Len(r[s]) + 1
  BY <1>1
<1>3. u \in Rings /\ u[s] = Append(r[s], m) /\ \A t \in Slaves \ {s} : u[t] = r[t]
  BY <1>2 DEF Rings
<1>4. Len(u[s]) < MAX_RING_COUNT
  BY <1>1, <1>2, <1>3, MessageAssumption DEF Full
<1>5. \A t \in Slaves : Len(u[t]) < MAX_RING_COUNT
  BY <1>3, <1>4
<1> QED
  BY <1>1, <1>2, <1>3, <1>5

LEMMA TailFacts ==
  ASSUME NEW S, NEW s \in Seq(S), s # <<>>
  PROVE  /\ Tail(s) \in Seq(S) /\ Head(s) \in S
         /\ Len(Tail(s)) \in Nat /\ Len(s) = Len(Tail(s)) + 1
  OBVIOUS

LEMMA GetFacts ==
  ASSUME NEW r \in Rings, NEW s \in Slaves, r[s] # <<>>,
         \A t \in Slaves : Len(r[t]) < MAX_RING_COUNT
  PROVE  LET u == [r EXCEPT ![s] = Tail(@)] IN
         /\ u \in Rings /\ u[s] = Tail(r[s]) /\ Head(r[s]) \in 0 .. MaxCalls
         /\ \A t \in Slaves \ {s} : u[t] = r[t]
         /\ Len(u[s]) \in Nat /\ Len(r[s]) = Len(u[s]) + 1
         /\ \A t \in Slaves : Len(u[t]) < MAX_RING_COUNT
<1> DEFINE u == [r EXCEPT ![s] = Tail(@)]
<1>1. r[s] \in Seq(0 .. MaxCalls) /\ Len(r[s]) \in Nat
  BY DEF Rings
<1>2. /\ Tail(r[s]) \in Seq(0 .. MaxCalls) /\ Len(Tail(r[s])) \in Nat
      /\ Len(r[s]) = Len(Tail(r[s])) + 1 /\ Head(r[s]) \in 0 .. MaxCalls
  BY <1>1, TailFacts
<1>3. u \in Rings /\ u[s] = Tail(r[s]) /\ \A t \in Slaves \ {s} : u[t] = r[t]
  BY <1>2 DEF Rings
<1>4. Len(u[s]) < MAX_RING_COUNT
  BY <1>1, <1>2, <1>3, MessageAssumption
<1>5. \A t \in Slaves : Len(u[t]) < MAX_RING_COUNT
  BY <1>3, <1>4
<1> QED
  BY <1>2, <1>3, <1>5

LEMMA ShapeNext ==
  ASSUME Shape, [Next]_vars
  PROVE  Shape'
<1>a. at \in Slaves /\ SlaveNum \in Nat /\ MaxCalls \in Nat
  BY MessageAssumption DEF Shape
<1>1. CASE Call
  BY <1>1, <1>a, MessageAssumption DEF Shape, Call, Slaves
<1>2. CASE MasterMakes
  <2>1. CASE pool > 0
    BY <1>2, <2>1 DEF Shape, MasterMakes
  <2>2. CASE ~(pool > 0)
    <3>1. Advance("make", "recv") /\ got' = 0 /\ UNCHANGED pool
      BY <1>2, <2>2 DEF MasterMakes
    <3> QED
      BY <1>2, <1>a, <3>1, AdvanceFacts DEF Shape, MasterMakes
  <2> QED
    BY <2>1, <2>2
<1>3. CASE MasterEnqueues
  <2>1. tx' \in Rings /\ pool' \in Nat /\ \A s \in Slaves : Len(tx'[s]) < MAX_RING_COUNT
    <3>1. CASE Full(tx[at])
      BY <1>3, <3>1 DEF Shape, MasterEnqueues, Enqueue
    <3>2. CASE ~Full(tx[at])
      <4>1. /\ tx \in Rings /\ call \in 0 .. MaxCalls
            /\ \A t \in Slaves : Len(tx[t]) < MAX_RING_COUNT
            /\ tx' = [tx EXCEPT ![at] = Append(@, call)] /\ pool' = pool /\ pool \in Nat
        BY <1>3, <3>2 DEF Shape, MasterEnqueues, Enqueue
      <4> QED
        BY <1>a, <3>2, <4>1, PutFacts
    <3> QED
      BY <3>1, <3>2
  <2>2. Advance("make", "recv")
    BY <1>3 DEF MasterEnqueues
  <2> QED
    BY <1>3, <1>a, <2>1, <2>2, AdvanceFacts DEF Shape, MasterEnqueues
<1>4. CASE MasterDequeues
  <2>1. rx' \in Rings /\ \A s \in Slaves : Len(rx'[s]) < MAX_RING_COUNT
    BY <1>4, <1>a, GetFacts DEF Shape, MasterDequeues
  <2> QED
    BY <1>4, <2>1 DEF Shape, MasterDequeues
<1>5. CASE MasterFrees
  <2>1. Advance("recv", "return") /\ got < at /\ got \in 0 .. SlaveNum
    BY <1>5 DEF MasterFrees, Shape
  <2>2. /\ got' = got + 1 /\ got' \in 0 .. SlaveNum
        /\ master' \in {"recv", "return"} /\ at' \in Slaves
        /\ master' = "recv" => got' < at'
    BY <1>5, <1>a, <2>1, AdvanceFacts DEF MasterFrees
  <2> QED
    BY <1>5, <2>2 DEF Shape, MasterFrees
<1>6. CASE MasterGivesUp
  <2>1. Advance("recv", "return") /\ got < at /\ got \in 0 .. SlaveNum
    BY <1>6 DEF MasterGivesUp, Shape
  <2>2. /\ master' \in {"recv", "return"} /\ at' \in Slaves
        /\ master' = "recv" => got < at'
    BY <1>6, <1>a, <2>1, AdvanceFacts DEF MasterGivesUp
  <2> QED
    BY <1>6, <2>2 DEF Shape, MasterGivesUp
<1>7. CASE MasterReturns
  BY <1>7 DEF Shape, MasterReturns
<1>8. ASSUME NEW s \in Slaves, SlaveDequeues(s) PROVE Shape'
  <2>1. /\ tx' \in Rings /\ Head(tx[s]) \in 0 .. MaxCalls
        /\ \A t \in Slaves : Len(tx'[t]) < MAX_RING_COUNT
    BY <1>8, GetFacts DEF Shape, SlaveDequeues
  <2> QED
    BY <1>8, <2>1 DEF Shape, SlaveDequeues, masterVars
<1>9. ASSUME NEW s \in Slaves, SlaveFrees(s) PROVE Shape'
  BY <1>9 DEF Shape, SlaveFrees, masterVars
<1>10. ASSUME NEW s \in Slaves, SlaveRuns(s) PROVE Shape'
  BY <1>10 DEF Shape, SlaveRuns, masterVars
<1>11. ASSUME NEW s \in Slaves, SlaveMakes(s) PROVE Shape'
  <2>1. pool' \in Nat
    BY <1>11 DEF Shape, SlaveMakes
  <2>2. slave' \in [Slaves -> {"poll", "free", "run", "make", "enqueue"}]
    BY <1>11 DEF Shape, SlaveMakes
  <2> QED
    BY <1>11, <2>1, <2>2 DEF Shape, SlaveMakes, masterVars
<1>12. ASSUME NEW s \in Slaves, SlaveEnqueues(s) PROVE Shape'
  <2>1. rx' \in Rings /\ pool' \in Nat /\ \A t \in Slaves : Len(rx'[t]) < MAX_RING_COUNT
    <3>1. CASE Full(rx[s])
      BY <1>12, <3>1 DEF Shape, SlaveEnqueues, Enqueue
    <3>2. CASE ~Full(rx[s])
      <4>1. /\ rx \in Rings /\ task[s] \in 0 .. MaxCalls
            /\ \A t \in Slaves : Len(rx[t]) < MAX_RING_COUNT
            /\ rx' = [rx EXCEPT ![s] = Append(@, task[s])] /\ pool' = pool /\ pool \in Nat
        BY <1>12, <3>2 DEF Shape, SlaveEnqueues, Enqueue
      <4> QED
        BY <3>2, <4>1, PutFacts
    <3> QED
      BY <3>1, <3>2
  <2> QED
    BY <1>12, <2>1 DEF Shape, SlaveEnqueues, masterVars
<1>13. CASE UNCHANGED vars
  BY <1>13 DEF Shape, vars
<1> QED
  BY <1>1, <1>2, <1>3, <1>4, <1>5, <1>6, <1>7, <1>8, <1>9, <1>10, <1>11, <1>12,
     <1>13 DEF Next, Master, MasterProceeds, Slave

-----------------------------------------------------------------------------
(* No message is lost.                                                      *)

(* Len, kept folded in sums.                                                *)
Size(s) == Len(s)
Load(t, r) == [s \in Slaves |-> Size(t[s]) + Size(r[s])]
Holding(w) == {s \in Slaves : w[s] \in {"free", "enqueue"}}
Held(w) == Cardinality(Holding(w))
InMasterHand(m) == IF m \in {"enqueue", "free"} THEN 1 ELSE 0
Queued(t, r) == Sum(Load(t, r))

LEMMA HandType == \A m : InMasterHand(m) \in Nat
  BY DEF InMasterHand

LEMMA HeldType == \A w : IsFiniteSet(Holding(w)) /\ Held(w) \in Nat
<1> TAKE w
<1>1. Holding(w) \in SUBSET Slaves
  BY DEF Holding
<1> QED
  BY <1>1, SlavesFinite, FS_Subset, FS_CardinalityType DEF Held

(* A slave takes a message in hand, or lays it down.                        *)
LEMMA HeldUp ==
  ASSUME NEW w, NEW v, NEW s \in Slaves, s \notin Holding(w), s \in Holding(v),
         \A t \in Slaves \ {s} : v[t] = w[t]
  PROVE  Held(v) = Held(w) + 1
<1>1. Holding(v) = Holding(w) \cup {s}
  BY DEF Holding
<1> QED
  BY <1>1, HeldType, FS_AddElement DEF Held

LEMMA HeldSame ==
  ASSUME NEW w, NEW v, NEW s \in Slaves, s \in Holding(w) <=> s \in Holding(v),
         \A t \in Slaves \ {s} : v[t] = w[t]
  PROVE  Held(v) = Held(w)
<1>1. Holding(v) = Holding(w)
  BY DEF Holding
<1> QED
  BY <1>1 DEF Held

LEMMA LoadType ==
  ASSUME NEW t \in Rings, NEW r \in Rings
  PROVE  /\ \A s \in Slaves : /\ Size(t[s]) \in Nat /\ Size(r[s]) \in Nat
                              /\ Load(t, r)[s] = Size(t[s]) + Size(r[s])
                              /\ Load(t, r)[s] \in Nat
         /\ Queued(t, r) \in Nat
<1>1. \A s \in Slaves : Size(t[s]) \in Nat /\ Size(r[s]) \in Nat
  BY DEF Rings, Size
<1>2. \A s \in Slaves : Load(t, r)[s] = Size(t[s]) + Size(r[s])
  BY DEF Load
<1>3. \A s \in Slaves : Load(t, r)[s] \in Nat
  BY <1>1, <1>2
<1> QED
  BY <1>1, <1>2, <1>3, SlavesFinite, SumType DEF Queued, Sum

(* The rings u are the rings t with one message more for s.                 *)
More(t, u, s) ==
  /\ t \in Rings /\ u \in Rings
  /\ \A o \in Slaves \ {s} : u[o] = t[o]
  /\ Size(u[s]) = Size(t[s]) + 1

LEMMA QueuedUp ==
  ASSUME NEW t, NEW u, NEW s \in Slaves, More(t, u, s), NEW r \in Rings
  PROVE  Queued(u, r) = Queued(t, r) + 1 /\ Queued(r, u) = Queued(r, t) + 1
<1>a. /\ t \in Rings /\ u \in Rings /\ Size(u[s]) = Size(t[s]) + 1
      /\ \A o \in Slaves \ {s} : u[o] = t[o]
  BY DEF More
<1>b. /\ \A o \in Slaves : Size(t[o]) \in Nat /\ Size(u[o]) \in Nat /\ Size(r[o]) \in Nat
  BY <1>a, LoadType
<1>1. ASSUME NEW f, NEW g, \A o \in Slaves : f[o] \in Nat, \A o \in Slaves \ {s} : g[o] = f[o],
             g[s] = f[s] + 1
      PROVE  Sum(g) = Sum(f) + 1
  <2>1. f[s] \in Nat /\ g[s] \in Nat
    BY <1>1
  <2>2. /\ SumOver(g, Slaves) + f[s] = SumOver(f, Slaves) + g[s]
        /\ SumOver(g, Slaves) \in Nat /\ SumOver(f, Slaves) \in Nat
    BY <1>1, <2>1, SlavesFinite, SumChange
  <2>3. SumOver(g, Slaves) = SumOver(f, Slaves) + 1
    BY <1>1, <2>1, <2>2
  <2> QED
    BY <2>3 DEF Sum
<1>2. Queued(u, r) = Queued(t, r) + 1
  <2>1. \A o \in Slaves : Load(t, r)[o] = Size(t[o]) + Size(r[o]) /\ Load(t, r)[o] \in Nat
    BY <1>a, LoadType
  <2>2. \A o \in Slaves : Load(u, r)[o] = Size(u[o]) + Size(r[o])
    BY <1>a, LoadType
  <2>3. \A o \in Slaves \ {s} : Load(u, r)[o] = Load(t, r)[o]
    BY <1>a, <2>1, <2>2
  <2>4. Load(u, r)[s] = Load(t, r)[s] + 1
    BY <1>a, <1>b, <2>1, <2>2
  <2> QED
    BY <1>1, <2>1, <2>3, <2>4 DEF Queued
<1>3. Queued(r, u) = Queued(r, t) + 1
  <2>1. \A o \in Slaves : Load(r, t)[o] = Size(r[o]) + Size(t[o]) /\ Load(r, t)[o] \in Nat
    BY <1>a, LoadType
  <2>2. \A o \in Slaves : Load(r, u)[o] = Size(r[o]) + Size(u[o])
    BY <1>a, LoadType
  <2>3. \A o \in Slaves \ {s} : Load(r, u)[o] = Load(r, t)[o]
    BY <1>a, <2>1, <2>2
  <2>4. Load(r, u)[s] = Load(r, t)[s] + 1
    BY <1>a, <1>b, <2>1, <2>2
  <2> QED
    BY <1>1, <2>1, <2>3, <2>4 DEF Queued
<1> QED
  BY <1>2, <1>3

LEMMA ConservedInit == Init => Conserved
<1> SUFFICES ASSUME Init PROVE Conserved
  OBVIOUS
<1>1. Held(slave) = 0
  <2>1. Holding(slave) = {}
    BY DEF Init, Holding
  <2> QED
    BY <2>1, FS_EmptySet DEF Held
<1>2. Queued(tx, rx) = 0
  <2>1. {{s} \X (1 .. Load(tx, rx)[s]) : s \in Slaves} \subseteq {{}}
    <3>1. \A s \in Slaves : Load(tx, rx)[s] = 0
      BY DEF Init, Load, Size
    <3>2. 1 .. 0 = {}
      OBVIOUS
    <3> QED
      BY <3>1, <3>2
  <2>2. Units(Load(tx, rx), Slaves) = {}
    BY <2>1 DEF Units
  <2> QED
    BY <2>2, FS_EmptySet DEF Queued, Sum, SumOver
<1>3. InHand = 0
  BY <1>1 DEF Init, InHand, Held, Holding
<1>4. InRings = 0
  BY <1>2 DEF InRings, Queued, Load, Size
<1>5. pool = PoolSize /\ PoolSize \in Nat
  BY MessageAssumption DEF Init, PoolSize
<1> QED
  BY <1>3, <1>4, <1>5 DEF Conserved

(* Enqueue keeps the message: the core has it no more, and a ring or the    *)
(* pool has one more.                                                       *)
LEMMA EnqueueMoves ==
  ASSUME NEW t, NEW u, NEW p, NEW x, NEW s \in Slaves, NEW m \in 0 .. MaxCalls, t \in Rings,
         \A o \in Slaves : Len(t[o]) < MAX_RING_COUNT,
         IF Full(t[s]) THEN x = p + 1 /\ u = t
                       ELSE u = [t EXCEPT ![s] = Append(@, m)] /\ x = p
  PROVE  (x = p + 1 /\ u = t) \/ (x = p /\ More(t, u, s))
<1>1. CASE Full(t[s])
  BY <1>1
<1>2. CASE ~Full(t[s])
  <2> DEFINE v == [t EXCEPT ![s] = Append(@, m)]
  <2>1. u = v /\ x = p
    BY <1>2
  <2>2. /\ v \in Rings /\ v[s] = Append(t[s], m)
        /\ \A o \in Slaves \ {s} : v[o] = t[o]
        /\ Len(v[s]) = Len(t[s]) + 1
    BY ONLY PutFacts, <1>2, t \in Rings, s \in Slaves, m \in 0 .. MaxCalls,
       \A o \in Slaves : Len(t[o]) < MAX_RING_COUNT
  <2>3. More(t, v, s)
    BY <2>2 DEF More, Size
  <2> HIDE DEF v
  <2> QED
    BY <2>1, <2>3
<1> QED
  BY <1>1, <1>2

LEMMA DequeueMoves ==
  ASSUME NEW t \in Rings, NEW u, NEW s \in Slaves, t[s] # <<>>,
         \A o \in Slaves : Len(t[o]) < MAX_RING_COUNT,
         u = [t EXCEPT ![s] = Tail(@)]
  PROVE  More(u, t, s)
<1> DEFINE v == [t EXCEPT ![s] = Tail(@)]
<1>1. /\ v \in Rings /\ \A o \in Slaves \ {s} : v[o] = t[o]
      /\ Len(t[s]) = Len(v[s]) + 1
  BY GetFacts
<1>2. More(v, t, s)
  BY <1>1 DEF More, Size
<1> HIDE DEF v
<1> QED
  BY <1>2 DEF v

LEMMA ConservedNext ==
  ASSUME Shape, Shape', Conserved, [Next]_vars
  PROVE  Conserved'
<1> DEFINE h == InMasterHand(master)  c == Held(slave)  q == Queued(tx, rx)
           H == InMasterHand(master')  C == Held(slave')  Q == Queued(tx', rx')
<1>a. /\ h \in Nat /\ H \in Nat /\ c \in Nat /\ C \in Nat
      /\ at \in Slaves /\ pool \in Nat /\ pool' \in Nat
      /\ tx \in Rings /\ rx \in Rings /\ tx' \in Rings /\ rx' \in Rings
  BY HandType, HeldType DEF Shape, Rings
<1>b. /\ q \in Nat /\ Q \in Nat /\ h \in Nat /\ H \in Nat /\ c \in Nat /\ C \in Nat
      /\ pool \in Nat /\ pool' \in Nat
  BY <1>a, LoadType
<1>c. pool + (h + c) + q = PoolSize
  BY DEF Conserved, InHand, InRings, InMasterHand, Held, Holding, Queued, Load, Size
<1>d. SUFFICES pool' + (H + C) + Q = pool + (h + c) + q
  <2>1. pool' + (H + C) + Q = PoolSize => Conserved'
    BY DEF Conserved, InHand, InRings, InMasterHand, Held, Holding, Queued, Load, Size
  <2> HIDE DEF h, c, q, H, C, Q
  <2> QED
    BY <1>c, <1>d, <2>1
<1>e. UNCHANGED slave => C = c
  OBVIOUS
<1>f. UNCHANGED <<tx, rx>> => Q = q
  OBVIOUS
<1>g. \A m : InMasterHand(m) = IF m \in {"enqueue", "free"} THEN 1 ELSE 0
  BY DEF InMasterHand
<1>h. UNCHANGED master => H = h
  OBVIOUS
<1>1. CASE Call
  <2>1. H = 0 /\ h = 0
    BY <1>1, <1>g DEF Call
  <2> HIDE DEF h, c, q, H, C, Q
  <2> QED
    BY <1>1, <1>a, <1>b, <1>e, <1>f, <2>1 DEF Call
<1>2. CASE MasterMakes
  <2>1. CASE pool > 0
    <3>1. h = 0 /\ H = 1 /\ pool' = pool - 1
      BY <1>2, <1>g, <2>1 DEF MasterMakes
    <3>2. C = c /\ Q = q
      BY <1>2, <1>e, <1>f DEF MasterMakes
    <3> HIDE DEF h, c, q, H, C, Q
    <3> QED
      BY <1>b, <3>1, <3>2
  <2>2. CASE ~(pool > 0)
    <3>1. Advance("make", "recv") /\ pool' = pool /\ master = "make"
      BY <1>2, <2>2 DEF MasterMakes
    <3>2. h = 0 /\ H = 0
      BY <1>a, <1>g, <3>1, AdvanceFacts
    <3>3. C = c /\ Q = q
      BY <1>2, <1>e, <1>f DEF MasterMakes
    <3> HIDE DEF h, c, q, H, C, Q
    <3> QED
      BY <1>b, <3>1, <3>2, <3>3
  <2> QED
    BY <2>1, <2>2
<1>3. CASE MasterEnqueues
  <2>1. Advance("make", "recv") /\ master = "enqueue" /\ UNCHANGED <<slave, rx>>
    BY <1>3 DEF MasterEnqueues
  <2>2. h = 1 /\ H = 0 /\ C = c
    BY <1>a, <1>e, <1>g, <2>1, AdvanceFacts
  <2>3. (pool' = pool + 1 /\ Q = q) \/ (pool' = pool /\ Q = q + 1)
    <3>1. (pool' = pool + 1 /\ tx' = tx) \/ (pool' = pool /\ More(tx, tx', at))
      <4>1. call \in 0 .. MaxCalls /\ \A o \in Slaves : Len(tx[o]) < MAX_RING_COUNT
        BY DEF Shape
      <4>2. IF Full(tx[at]) THEN pool' = pool + 1 /\ tx' = tx
                            ELSE tx' = [tx EXCEPT ![at] = Append(@, call)] /\ pool' = pool
        BY <1>3 DEF MasterEnqueues, Enqueue
      <4> QED
        BY <1>a, <4>1, <4>2, EnqueueMoves
    <3>2. CASE pool' = pool + 1 /\ tx' = tx
      BY <1>f, <2>1, <3>2
    <3>3. CASE pool' = pool /\ More(tx, tx', at)
      <4>1. Q = q + 1
        BY <1>a, <2>1, <3>3, QueuedUp
      <4> QED
        BY <3>3, <4>1
    <3> QED
      BY <3>1, <3>2, <3>3
  <2> HIDE DEF h, c, q, H, C, Q
  <2>4. CASE pool' = pool + 1 /\ Q = q
    BY <1>b, <2>2, <2>4
  <2>5. CASE pool' = pool /\ Q = q + 1
    BY <1>b, <2>2, <2>5
  <2> QED
    BY <2>3, <2>4, <2>5
<1>4. CASE MasterDequeues
  <2>1. /\ rx' = [rx EXCEPT ![at] = Tail(@)] /\ rx[at] # <<>> /\ master = "recv"
        /\ master' = "free" /\ UNCHANGED <<slave, tx, pool>>
        /\ \A o \in Slaves : Len(rx[o]) < MAX_RING_COUNT
    BY <1>4 DEF MasterDequeues, Shape
  <2>2. h = 0 /\ H = 1 /\ C = c
    BY <1>e, <1>g, <2>1
  <2>3. More(rx', rx, at)
    BY <1>a, <2>1, DequeueMoves
  <2>5. q = Q + 1
    BY <1>a, <2>1, <2>3, QueuedUp
  <2> HIDE DEF h, c, q, H, C, Q
  <2> QED
    BY <1>b, <2>1, <2>2, <2>5
<1>5. CASE MasterFrees
  <2>1. Advance("recv", "return") /\ master = "free" /\ pool' = pool + 1
    BY <1>5 DEF MasterFrees
  <2>2. h = 1 /\ H = 0
    BY <1>a, <1>g, <2>1, AdvanceFacts
  <2>3. C = c /\ Q = q
    BY <1>5, <1>e, <1>f DEF MasterFrees
  <2> HIDE DEF h, c, q, H, C, Q
  <2> QED
    BY <1>b, <2>1, <2>2, <2>3
<1>6. CASE MasterGivesUp
  <2>1. Advance("recv", "return") /\ master = "recv" /\ pool' = pool
    BY <1>6 DEF MasterGivesUp
  <2>2. h = 0 /\ H = 0
    BY <1>a, <1>g, <2>1, AdvanceFacts
  <2>3. C = c /\ Q = q
    BY <1>6, <1>e, <1>f DEF MasterGivesUp
  <2> HIDE DEF h, c, q, H, C, Q
  <2> QED
    BY <1>b, <2>1, <2>2, <2>3
<1>7. CASE MasterReturns
  <2>1. h = 0 /\ H = 0 /\ C = c /\ Q = q /\ pool' = pool
    BY <1>7, <1>e, <1>f, <1>g DEF MasterReturns
  <2> HIDE DEF h, c, q, H, C, Q
  <2> QED
    BY <1>b, <2>1
<1>8. ASSUME NEW s \in Slaves, SlaveDequeues(s) PROVE pool' + (H + C) + Q = pool + (h + c) + q
  <2>1. /\ tx' = [tx EXCEPT ![s] = Tail(@)] /\ tx[s] # <<>> /\ slave[s] = "poll"
        /\ slave' = [slave EXCEPT ![s] = "free"] /\ UNCHANGED <<master, rx, pool>>
        /\ \A o \in Slaves : Len(tx[o]) < MAX_RING_COUNT
    BY <1>8 DEF SlaveDequeues, Shape, masterVars
  <2>2. C = c + 1
    <3>1. s \notin Holding(slave) /\ s \in Holding(slave') /\ \A t \in Slaves \ {s} : slave'[t] = slave[t]
      BY <2>1 DEF Holding, Shape
    <3> QED
      BY <3>1, HeldUp
  <2>3. More(tx', tx, s)
    BY <1>a, <2>1, DequeueMoves
  <2>5. q = Q + 1
    BY <1>a, <2>1, <2>3, QueuedUp
  <2>6. H = h
    BY <1>h, <2>1
  <2> HIDE DEF h, c, q, H, C, Q
  <2> QED
    BY <1>b, <2>1, <2>2, <2>5, <2>6
<1>9. ASSUME NEW s \in Slaves, SlaveFrees(s) PROVE pool' + (H + C) + Q = pool + (h + c) + q
  <2>1. slave' = [slave EXCEPT ![s] = "run"] /\ slave[s] = "free" /\ pool' = pool + 1
        /\ UNCHANGED <<master, tx, rx>>
    BY <1>9 DEF SlaveFrees, masterVars
  <2>2. s \in Holding(slave) /\ s \notin Holding(slave') /\ \A t \in Slaves \ {s} : slave[t] = slave'[t]
    BY <2>1 DEF Holding, Shape
  <2>3. c = C + 1 /\ H = h /\ Q = q
    BY <1>f, <1>h, <2>1, <2>2, HeldUp
  <2> HIDE DEF h, c, q, H, C, Q
  <2> QED
    BY <1>b, <2>1, <2>3
<1>10. ASSUME NEW s \in Slaves, SlaveRuns(s) PROVE pool' + (H + C) + Q = pool + (h + c) + q
  <2>1. slave' = [slave EXCEPT ![s] = "make"] /\ slave[s] = "run"
        /\ UNCHANGED <<master, tx, rx, pool>>
    BY <1>10 DEF SlaveRuns, masterVars
  <2>2. s \notin Holding(slave) /\ s \notin Holding(slave') /\ \A t \in Slaves \ {s} : slave'[t] = slave[t]
    BY <2>1 DEF Holding, Shape
  <2>3. C = c /\ H = h /\ Q = q
    BY <1>f, <1>h, <2>1, <2>2, HeldSame
  <2> HIDE DEF h, c, q, H, C, Q
  <2> QED
    BY <1>b, <2>1, <2>3
<1>11. ASSUME NEW s \in Slaves, SlaveMakes(s) PROVE pool' + (H + C) + Q = pool + (h + c) + q
  <2>1. slave[s] = "make" /\ UNCHANGED <<master, tx, rx>> /\ H = h /\ Q = q
    BY <1>11, <1>f, <1>h DEF SlaveMakes, masterVars
  <2>2. CASE pool > 0
    <3>1. pool' = pool - 1 /\ slave' = [slave EXCEPT ![s] = "enqueue"]
      BY <1>11, <2>2 DEF SlaveMakes
    <3>2. s \notin Holding(slave) /\ s \in Holding(slave') /\ \A t \in Slaves \ {s} : slave'[t] = slave[t]
      BY <2>1, <3>1 DEF Holding, Shape
    <3>3. C = c + 1
      BY <3>2, HeldUp
    <3> HIDE DEF h, c, q, H, C, Q
    <3> QED
      BY <1>b, <2>1, <3>1, <3>3
  <2>3. CASE ~(pool > 0)
    <3>1. pool' = pool /\ slave' = [slave EXCEPT ![s] = "poll"]
      BY <1>11, <2>3 DEF SlaveMakes
    <3>2. s \notin Holding(slave) /\ s \notin Holding(slave') /\ \A t \in Slaves \ {s} : slave'[t] = slave[t]
      BY <2>1, <3>1 DEF Holding, Shape
    <3>3. C = c
      BY <3>2, HeldSame
    <3> HIDE DEF h, c, q, H, C, Q
    <3> QED
      BY <1>b, <2>1, <3>1, <3>3
  <2> QED
    BY <2>2, <2>3
<1>12. ASSUME NEW s \in Slaves, SlaveEnqueues(s) PROVE pool' + (H + C) + Q = pool + (h + c) + q
  <2>1. slave[s] = "enqueue" /\ slave' = [slave EXCEPT ![s] = "poll"]
        /\ UNCHANGED <<master, tx>> /\ H = h
    BY <1>12, <1>h DEF SlaveEnqueues, masterVars
  <2>2. c = C + 1
    <3>1. s \in Holding(slave) /\ s \notin Holding(slave') /\ \A t \in Slaves \ {s} : slave[t] = slave'[t]
      BY <2>1 DEF Holding, Shape
    <3> QED
      BY <3>1, HeldUp
  <2>3. (pool' = pool + 1 /\ Q = q) \/ (pool' = pool /\ Q = q + 1)
    <3>1. (pool' = pool + 1 /\ rx' = rx) \/ (pool' = pool /\ More(rx, rx', s))
      <4>1. task[s] \in 0 .. MaxCalls /\ \A o \in Slaves : Len(rx[o]) < MAX_RING_COUNT
        BY DEF Shape
      <4>2. PICK m \in 0 .. MaxCalls :
              IF Full(rx[s]) THEN pool' = pool + 1 /\ rx' = rx
                             ELSE rx' = [rx EXCEPT ![s] = Append(@, m)] /\ pool' = pool
        BY <1>12, <4>1 DEF SlaveEnqueues, Enqueue
      <4> QED
        BY <1>a, <4>1, <4>2, EnqueueMoves
    <3>2. CASE pool' = pool + 1 /\ rx' = rx
      BY <1>f, <2>1, <3>2
    <3>3. CASE pool' = pool /\ More(rx, rx', s)
      <4>1. Q = q + 1
        BY <1>a, <2>1, <3>3, QueuedUp
      <4> QED
        BY <3>3, <4>1
    <3> QED
      BY <3>1, <3>2, <3>3
  <2> HIDE DEF h, c, q, H, C, Q
  <2>4. CASE pool' = pool + 1 /\ Q = q
    BY <1>b, <2>1, <2>2, <2>4
  <2>5. CASE pool' = pool /\ Q = q + 1
    BY <1>b, <2>1, <2>2, <2>5
  <2> QED
    BY <2>3, <2>4, <2>5
<1>13. CASE UNCHANGED vars
  BY <1>13, <1>e, <1>f, <1>h DEF vars
<1> QED
  BY <1>1, <1>2, <1>3, <1>4, <1>5, <1>6, <1>7, <1>8, <1>9, <1>10, <1>11, <1>12,
     <1>13 DEF Next, Master, MasterProceeds, Slave

-----------------------------------------------------------------------------
(* While no wait has been given up.                                         *)

LEMMA PhaseIs ==
  \A a, s :
    /\ Phase("idle", a, s) = "back" /\ Phase("return", a, s) = "back"
    /\ Phase("make", a, s) = (IF s < a THEN "sent" ELSE "unsent")
    /\ Phase("enqueue", a, s) = (IF s < a THEN "sent" ELSE "unsent")
    /\ Phase("recv", a, s) = (IF s < a THEN "back" ELSE "sent")
    /\ Phase("free", a, s) = (IF s <= a THEN "back" ELSE "sent")
  BY DEF Phase

Follows(s) ==
  Tracked(Phase(master, at, s), slave[s], tx[s], rx[s], task[s], last[s], call)

LEMMA ProgressInit == Init => Progress
<1> SUFFICES ASSUME Init, NEW s \in Slaves PROVE Follows(s)
  BY DEF Progress, Follows
<1>1. Phase(master, at, s) = "back"
  BY PhaseIs DEF Init
<1>2. slave[s] = "poll" /\ tx[s] = <<>> /\ rx[s] = <<>> /\ last[s] = call
  BY DEF Init
<1> QED
  BY <1>1, <1>2 DEF Follows, Tracked

(* The loop of the master moves on: only the slave it leaves gets into      *)
(* another phase.                                                           *)
LEMMA AdvancePhase ==
  ASSUME at \in Slaves, NEW s \in Slaves
  PROVE  /\ Advance("make", "recv") /\ master \in {"make", "enqueue"} =>
              Phase(master', at', s) = IF s <= at THEN "sent" ELSE "unsent"
         /\ Advance("recv", "return") /\ master = "free" =>
              Phase(master', at', s) = Phase(master, at, s)
<1>a. s \in Nat /\ at \in Nat /\ s <= SlaveNum /\ s >= 1 /\ SlaveNum \in Nat
  BY MessageAssumption DEF Slaves
<1>1. ASSUME Advance("make", "recv"), master \in {"make", "enqueue"}
      PROVE  Phase(master', at', s) = IF s <= at THEN "sent" ELSE "unsent"
  <2>1. CASE at < SlaveNum /\ at' = at + 1 /\ master' = "make"
    <3>1. s < at + 1 <=> s <= at
      BY <1>a
    <3> QED
      BY <2>1, <3>1, PhaseIs
  <2>2. CASE at = SlaveNum /\ at' = 1 /\ master' = "recv"
    <3>1. ~(s < 1) /\ s <= at
      BY <1>a, <2>2
    <3> QED
      BY <2>2, <3>1, PhaseIs
  <2> QED
    BY <1>1, <2>1, <2>2, AdvanceFacts
<1>2. ASSUME Advance("recv", "return"), master = "free"
      PROVE  Phase(master', at', s) = Phase(master, at, s)
  <2>1. CASE at < SlaveNum /\ at' = at + 1 /\ master' = "recv"
    <3>1. s < at + 1 <=> s <= at
      BY <1>a
    <3> QED
      BY <1>2, <2>1, <3>1, PhaseIs
  <2>2. CASE at = SlaveNum /\ at' = 1 /\ master' = "return"
    <3>1. s <= at
      BY <1>a, <2>2
    <3> QED
      BY <1>2, <2>2, <3>1, PhaseIs
  <2> QED
    BY <1>2, <2>1, <2>2, AdvanceFacts
<1> QED
  BY <1>1, <1>2

LEMMA ProgressNext ==
  ASSUME Shape, Progress, [Next]_vars
  PROVE  Progress'
<1> SUFFICES ASSUME timely', NEW s \in Slaves PROVE Follows(s)'
  BY DEF Progress, Follows
<1>a. /\ at \in Slaves /\ at \in Nat /\ s \in Nat /\ call \in Nat /\ SlaveNum \in Nat
      /\ last[s] \in Nat /\ \A t \in Slaves : tx[t] \in Seq(0 .. MaxCalls)
  BY MessageAssumption DEF Shape, Slaves, Rings
<1>b. /\ tx \in Rings /\ rx \in Rings
      /\ tx = [t \in Slaves |-> tx[t]] /\ rx = [t \in Slaves |-> rx[t]]
  BY DEF Shape, Rings
<1>c. \A x : /\ Append(<<>>, x) = <<x>> /\ Tail(<<x>>) = <<>> /\ Head(<<x>>) = x
             /\ <<x>> # <<>>
  OBVIOUS
<1>d. timely => Follows(s)
  BY DEF Progress, Follows
<1>e. ASSUME NEW m, timely, m \in {"make", "enqueue"}, master = m
      PROVE  /\ s >= at => slave[s] = "poll" /\ tx[s] = <<>> /\ rx[s] = <<>> /\ last[s] < call
             /\ s < at => Tracked("sent", slave[s], tx[s], rx[s], task[s], last[s], call)
  <2>1. Phase(master, at, s) = IF s < at THEN "sent" ELSE "unsent"
    BY <1>e, PhaseIs
  <2> QED
    BY <1>a, <1>d, <1>e, <2>1 DEF Follows, Tracked
<1>1. CASE Call
  <2>1. timely /\ master = "idle" /\ master' = "make" /\ at' = 1 /\ call' = call + 1
        /\ UNCHANGED <<slave, tx, rx, task, last>>
    BY <1>1 DEF Call
  <2>2. slave[s] = "poll" /\ tx[s] = <<>> /\ rx[s] = <<>> /\ last[s] = call
    BY <1>d, <2>1, PhaseIs DEF Follows, Tracked
  <2>3. Phase(master', at', s) = "unsent"
    BY <2>1, PhaseIs DEF Slaves
  <2> QED
    BY <1>a, <2>1, <2>2, <2>3 DEF Follows, Tracked
<1>2. CASE MasterMakes
  <2>1. timely /\ master = "make" /\ UNCHANGED <<slave, tx, rx, task, last, call>>
    BY <1>2 DEF MasterMakes
  <2>2. CASE pool > 0
    <3>1. Phase(master', at', s) = Phase(master, at, s)
      BY <1>2, <2>1, <2>2, PhaseIs DEF MasterMakes
    <3> QED
      BY <1>d, <2>1, <3>1 DEF Follows
  <2>3. CASE ~(pool > 0)
    <3>1. Advance("make", "recv")
      BY <1>2, <2>3 DEF MasterMakes
    <3>2. Phase(master', at', s) = IF s <= at THEN "sent" ELSE "unsent"
      BY <1>a, <2>1, <3>1, AdvancePhase
    <3>3. Tracked(IF s <= at THEN "sent" ELSE "unsent",
                  slave[s], tx[s], rx[s], task[s], last[s], call)
      BY <1>a, <1>e, <2>1 DEF Tracked
    <3> QED
      BY <2>1, <3>2, <3>3 DEF Follows
  <2> QED
    BY <2>2, <2>3
<1>3. CASE MasterEnqueues
  <2>1. timely /\ master = "enqueue" /\ UNCHANGED <<slave, rx, task, last, call>>
        /\ Advance("make", "recv")
    BY <1>3 DEF MasterEnqueues
  <2>2. Phase(master', at', s) = IF s <= at THEN "sent" ELSE "unsent"
    BY <1>a, <2>1, AdvancePhase
  <2>3. CASE s # at
    <3>1. tx'[s] = tx[s]
      BY <1>3, <1>b, <2>3 DEF MasterEnqueues, Enqueue
    <3>2. Tracked(IF s <= at THEN "sent" ELSE "unsent",
                  slave[s], tx[s], rx[s], task[s], last[s], call)
      BY <1>a, <1>e, <2>1, <2>3 DEF Tracked
    <3> QED
      BY <2>1, <2>2, <3>1, <3>2 DEF Follows
  <2>4. CASE s = at
    <3>1. slave[s] = "poll" /\ tx[s] = <<>> /\ rx[s] = <<>> /\ last[s] < call
      BY <1>a, <1>e, <2>1, <2>4
    <3>2. tx'[s] \in {<<>>, <<call>>}
      BY <1>3, <1>b, <1>c, <2>4, <3>1 DEF MasterEnqueues, Enqueue
    <3>3. Phase(master', at', s) = "sent"
      BY <1>a, <2>2, <2>4
    <3> QED
      BY <2>1, <3>1, <3>2, <3>3 DEF Follows, Tracked
  <2> QED
    BY <2>3, <2>4
<1>4. CASE MasterDequeues
  <2>1. timely /\ master = "recv" /\ rx[at] # <<>> /\ rx' = [rx EXCEPT ![at] = Tail(@)]
        /\ master' = "free" /\ UNCHANGED <<at, slave, tx, task, last, call>>
    BY <1>4 DEF MasterDequeues
  <2>2. CASE s # at
    <3>1. rx'[s] = rx[s]
      BY <1>b, <2>1, <2>2
    <3>2. s < at <=> s <= at
      BY <1>a, <2>2
    <3>3. Phase(master', at', s) = Phase(master, at, s)
      BY <2>1, <3>2, PhaseIs
    <3> QED
      BY <1>d, <2>1, <3>1, <3>3 DEF Follows
  <2>3. CASE s = at
    <3>1. Phase(master, at, s) = "sent" /\ Phase(master', at', s) = "back"
      BY <1>a, <2>1, <2>3, PhaseIs
    <3>2. slave[s] = "poll" /\ tx[s] = <<>> /\ last[s] = call /\ rx[s] = <<call>>
      BY <1>d, <2>1, <2>3, <3>1 DEF Follows, Tracked
    <3>3. rx'[s] = <<>>
      BY <1>b, <1>c, <2>1, <2>3, <3>2
    <3> QED
      BY <2>1, <3>1, <3>2, <3>3 DEF Follows, Tracked
  <2> QED
    BY <2>2, <2>3
<1>5. CASE MasterFrees
  <2>1. timely /\ master = "free" /\ UNCHANGED <<slave, tx, rx, task, last, call>>
        /\ Advance("recv", "return")
    BY <1>5 DEF MasterFrees
  <2>2. Phase(master', at', s) = Phase(master, at, s)
    BY <1>a, <2>1, AdvancePhase
  <2> QED
    BY <1>d, <2>1, <2>2 DEF Follows
<1>6. CASE MasterGivesUp
  BY <1>6 DEF MasterGivesUp
<1>7. CASE MasterReturns
  <2>1. timely /\ UNCHANGED <<slave, tx, rx, task, last, call>>
    BY <1>7 DEF MasterReturns
  <2>2. Phase(master', at', s) = Phase(master, at, s)
    BY <1>7, PhaseIs DEF MasterReturns
  <2> QED
    BY <1>d, <2>1, <2>2 DEF Follows
<1>8. ASSUME NEW t \in Slaves, Slave(t) PROVE Follows(s)'
  <2>1. timely /\ UNCHANGED <<master, at, call>>
    BY <1>8 DEF Slave, SlaveDequeues, SlaveFrees, SlaveRuns, SlaveMakes, SlaveEnqueues, masterVars
  <2>2. CASE s # t
    <3>1. UNCHANGED <<slave[s], tx[s], rx[s], task[s], last[s]>>
      <4>1. CASE SlaveDequeues(t)
        BY <1>b, <2>2, <4>1 DEF SlaveDequeues, Shape
      <4>2. CASE SlaveFrees(t)
        BY <2>2, <4>2 DEF SlaveFrees, Shape
      <4>3. CASE SlaveRuns(t)
        BY <2>2, <4>3 DEF SlaveRuns, Shape
      <4>4. CASE SlaveMakes(t)
        BY <2>2, <4>4 DEF SlaveMakes, Shape
      <4>5. CASE SlaveEnqueues(t)
        BY <1>b, <2>2, <4>5 DEF SlaveEnqueues, Enqueue, Shape
      <4> QED
        BY <1>8, <4>1, <4>2, <4>3, <4>4, <4>5 DEF Slave
    <3> QED
      BY <1>d, <2>1, <3>1 DEF Follows
  <2>3. CASE s = t
    <3> DEFINE p == Phase(master, at, s)
    <3>1. Follows(s) /\ p \in {"sent", "unsent", "back"}
      BY <1>d, <2>1 DEF Phase
    <3>2. /\ Phase(master, at, s)' = p
          /\ Follows(s) <=> Tracked(p, slave[s], tx[s], rx[s], task[s], last[s], call)
      BY <2>1 DEF Follows
    <3>3. Follows(s)' <=> Tracked(p, slave'[s], tx'[s], rx'[s], task'[s], last'[s], call)
      BY <2>1 DEF Follows
    <3> HIDE DEF p
    <3>4. CASE SlaveDequeues(s)
      <4>1. tx[s] # <<>> /\ slave[s] = "poll"
        BY <3>4 DEF SlaveDequeues
      <4>2. p = "sent" /\ tx[s] = <<call>> /\ rx[s] = <<>> /\ last[s] < call
        BY <3>1, <3>2, <4>1 DEF Tracked
      <4>3. tx'[s] = <<>> /\ task'[s] = call /\ slave'[s] = "free" /\ UNCHANGED <<rx, last>>
        BY <1>b, <1>c, <3>4, <4>2 DEF SlaveDequeues, Shape
      <4> QED
        BY <3>3, <4>2, <4>3 DEF Tracked
    <3>5. CASE SlaveFrees(s)
      <4>1. slave[s] = "free" /\ slave'[s] = "run" /\ UNCHANGED <<tx, rx, task, last>>
        BY <3>5 DEF SlaveFrees, Shape
      <4> QED
        BY <3>1, <3>2, <3>3, <4>1 DEF Tracked
    <3>6. CASE SlaveRuns(s)
      <4>1. slave[s] = "run" /\ slave'[s] = "make" /\ last'[s] = task[s] /\ UNCHANGED <<tx, rx, task>>
        BY <3>6 DEF SlaveRuns, Shape
      <4> QED
        BY <3>1, <3>2, <3>3, <4>1 DEF Tracked
    <3>7. CASE SlaveMakes(s)
      <4>1. /\ slave[s] = "make" /\ slave'[s] \in {"enqueue", "poll"}
            /\ UNCHANGED <<tx, rx, task, last>>
        BY <3>7 DEF SlaveMakes, Shape
      <4> QED
        BY <3>1, <3>2, <3>3, <4>1 DEF Tracked
    <3>8. CASE SlaveEnqueues(s)
      <4>1. /\ slave[s] = "enqueue" /\ slave'[s] = "poll" /\ UNCHANGED <<tx, task, last>>
        BY <3>8 DEF SlaveEnqueues, Shape
      <4>2. p = "sent" /\ tx[s] = <<>> /\ rx[s] = <<>> /\ task[s] = call /\ last[s] = call
        BY <3>1, <3>2, <4>1 DEF Tracked
      <4>3. rx'[s] \in {<<>>, <<call>>}
        BY <1>b, <1>c, <3>8, <4>2 DEF SlaveEnqueues, Enqueue
      <4> QED
        BY <3>3, <4>1, <4>2, <4>3 DEF Tracked
    <3> QED
      BY <1>8, <2>3, <3>4, <3>5, <3>6, <3>7, <3>8 DEF Slave
  <2> QED
    BY <2>2, <2>3
<1>9. CASE UNCHANGED vars
  BY <1>9, <1>d DEF Follows, vars
<1> QED
  BY <1>1, <1>2, <1>3, <1>4, <1>5, <1>6, <1>7, <1>8, <1>9 DEF Next, Master, MasterProceeds

LEMMA InvInit == Init => Inv
  BY ShapeInit, ConservedInit, ProgressInit DEF Inv

LEMMA InvNext ==
  ASSUME Inv, [Next]_vars
  PROVE  Inv'
<1>1. Shape /\ Conserved /\ Progress /\ Shape'
  BY ShapeNext DEF Inv
<1> QED
  BY <1>1, ConservedNext, ProgressNext DEF Inv

LEMMA MessagesHold ==
  ASSUME Inv
  PROVE  MessagesExact /\ TimelySuccess
<1>1. MessagesExact
  <2>1. pool + InHand + InRings = PoolSize /\ pool \in Nat
    BY DEF Inv, Conserved, Shape
  <2>2. InHand \in Nat /\ InRings \in Nat
    <3>1. tx \in Rings /\ rx \in Rings
      BY DEF Inv, Shape
    <3>2. Held(slave) \in Nat /\ InMasterHand(master) \in Nat /\ Queued(tx, rx) \in Nat
      BY <3>1, HeldType, HandType, LoadType
    <3>3. InHand = InMasterHand(master) + Held(slave) /\ InRings = Queued(tx, rx)
      BY DEF InHand, InMasterHand, Held, Holding, InRings, Queued, Load, Size
    <3> QED
      BY <3>2, <3>3
  <2>3. pool \in 0 .. PoolSize
    BY <2>1, <2>2
  <2> QED
    BY <2>1, <2>3 DEF MessagesExact, TypeOK, Inv, Shape
<1>2. TimelySuccess
  <2> SUFFICES ASSUME timely, NEW s \in Slaves
               PROVE  /\ master = "idle" => last[s] = call
                      /\ slave[s] = "run" => task[s] = call /\ master # "idle"
    BY DEF TimelySuccess
  <2>1. Follows(s)
    BY DEF Inv, Progress, Follows
  <2>2. master = "idle" => slave[s] = "poll" /\ last[s] = call
    BY <2>1, PhaseIs DEF Follows, Tracked
  <2>3. Phase(master, at, s) \in {"sent", "unsent", "back"}
    BY DEF Phase
  <2>4. slave[s] = "run" => task[s] = call
    BY <2>1, <2>3 DEF Follows, Tracked
  <2> QED
    BY <2>2, <2>4
<1> QED
  BY <1>1, <1>2

-----------------------------------------------------------------------------
(* The reports.                                                             *)

LEMMA ReportSteps ==
  ASSUME ReportNext
  PROVE  [Next]_vars
<1>1. ASSUME NEW r \in Reports, Command(r) PROVE Next
  BY <1>1 DEF Command, Next, Master
<1>2. CASE GiveUp
  BY <1>2 DEF GiveUp, Next, Master
<1>3. CASE MasterGoesOn
  <2>1. CASE MasterMakes \/ MasterEnqueues \/ MasterDequeues \/ MasterFrees
    BY <2>1 DEF Next, Master, MasterProceeds
  <2>2. CASE StartAdding
    BY <2>2 DEF StartAdding, Next, Master, MasterProceeds
  <2>3. CASE AddCell
    BY <2>3 DEF AddCell
  <2> QED
    BY <1>3, <2>1, <2>2, <2>3 DEF MasterGoesOn
<1>4. ASSUME NEW s \in Slaves, SlaveGoesOn(s) \/ Works(s) PROVE [Next]_vars
  <2>1. CASE SlaveDequeues(s) \/ SlaveFrees(s) \/ SlaveMakes(s) \/ SlaveEnqueues(s)
    BY <2>1 DEF Next, Slave
  <2>2. CASE Zero(s)
    BY <2>2 DEF Zero
  <2>3. CASE FillOffload(s) \/ FillFlows(s) \/ FillCycles(s)
    BY <2>3 DEF FillOffload, FillFlows, FillCycles, Next, Slave
  <2>4. CASE Works(s)
    BY <2>4 DEF Works
  <2> QED
    BY <1>4, <2>1, <2>2, <2>3, <2>4 DEF SlaveGoesOn
<1> QED
  BY <1>1, <1>2, <1>3, <1>4 DEF ReportNext

(* What the messages guarantee to the reports.                              *)
LEMMA TimelyFacts ==
  ASSUME Inv, timely, NEW s \in Slaves
  PROVE  /\ last[s] \in Nat /\ call \in Nat /\ last[s] <= call
         /\ slave[s] = "run" =>
              /\ task[s] = call /\ last[s] # call /\ call > 0
              /\ master # "idle" /\ master # "return"
         /\ master \in {"idle", "return"} => last[s] = call
<1>1. Follows(s)
  BY DEF Inv, Progress, Follows
<1>2. Phase(master, at, s) \in {"sent", "unsent", "back"}
  BY DEF Phase
<1>3. last[s] \in Nat /\ call \in Nat /\ (master # "idle" => call > 0)
  BY MessageAssumption DEF Inv, Shape
<1>4. last[s] <= call
  BY <1>1, <1>2, <1>3 DEF Follows, Tracked
<1>5. master \in {"idle", "return"} => last[s] = call /\ slave[s] = "poll"
  BY <1>1, PhaseIs DEF Follows, Tracked
<1>6. slave[s] = "run" => task[s] = call /\ last[s] # call
  BY <1>1, <1>2, <1>3 DEF Follows, Tracked
<1> QED
  BY <1>3, <1>4, <1>5, <1>6

(* A cell gets a value.                                                     *)
LEMMA CellSet ==
  ASSUME NEW a \in [Reports -> [Slaves -> Nat]], NEW r \in Reports, NEW s \in Slaves,
         NEW v \in Nat
  PROVE  LET b == [a EXCEPT ![r][s] = v] IN
         /\ b \in [Reports -> [Slaves -> Nat]] /\ b[r][s] = v
         /\ \A t \in Slaves \ {s} : b[r][t] = a[r][t]
         /\ \A q \in Reports \ {r} : b[q] = a[q]
  OBVIOUS

(* The step of a task writes value v in the cell of slave s for report r.   *)
Writes(r, s, v) ==
  /\ v \in Nat /\ cells' \in [Reports -> [Slaves -> Nat]] /\ cells'[r][s] = v
  /\ \A t \in Slaves \ {s} : cells'[r][t] = cells[r][t]
  /\ \A q \in Reports \ {r} : cells'[q] = cells[q]

LEMMA TaskWrites ==
  ASSUME ReportShape, NEW s \in Slaves
  PROVE  /\ Zero(s) => Writes("offload", s, 0)
         /\ FillOffload(s) => Writes("offload", s, finished[s])
         /\ FillFlows(s) => Writes("flows", s, finished[s])
         /\ FillCycles(s) => Writes("cycles", s, cpu[s])
<1>a. /\ cells \in [Reports -> [Slaves -> Nat]]
      /\ finished[s] \in Nat /\ cpu[s] \in Nat
      /\ "offload" \in Reports /\ "flows" \in Reports /\ "cycles" \in Reports
  BY ReportAssumption DEF ReportShape, Reports
<1>1. ASSUME Zero(s) PROVE Writes("offload", s, 0)
  <2>1. cells' = [cells EXCEPT !["offload"][s] = 0]
    BY <1>1 DEF Zero
  <2> QED
    BY <1>a, <2>1, CellSet DEF Writes
<1>2. ASSUME FillOffload(s) PROVE Writes("offload", s, finished[s])
  <2>1. /\ cells' = [cells EXCEPT !["offload"][s] = @ + finished[s]]
        /\ cells["offload"][s] = 0
    BY <1>2 DEF FillOffload, ReportShape
  <2>2. cells["offload"][s] + finished[s] = finished[s]
    BY <1>a, <2>1
  <2>3. cells' = [cells EXCEPT !["offload"][s] = finished[s]]
    BY <2>1, <2>2
  <2> QED
    BY <1>a, <2>3, CellSet DEF Writes
<1>3. ASSUME FillFlows(s) PROVE Writes("flows", s, finished[s])
  <2>1. cells' = [cells EXCEPT !["flows"][s] = finished[s]]
    BY <1>3 DEF FillFlows
  <2> QED
    BY <1>a, <2>1, CellSet DEF Writes
<1>4. ASSUME FillCycles(s) PROVE Writes("cycles", s, cpu[s])
  <2>1. cells' = [cells EXCEPT !["cycles"][s] = cpu[s]]
    BY <1>4 DEF FillCycles
  <2> QED
    BY <1>a, <2>1, CellSet DEF Writes
<1> QED
  BY <1>1, <1>2, <1>3, <1>4

LEMMA SumSlaves ==
  ASSUME NEW f, \A s \in Slaves : f[s] \in Nat
  PROVE  Sum(f) \in Nat
  BY SlavesFinite, SumType DEF Sum

LEMMA ReportShapeInit == ReportInit => ReportShape
<1> SUFFICES ASSUME ReportInit PROVE ReportShape
  OBVIOUS
<1>1. SlaveNum \in Nat /\ MaxWork \in Nat
  BY MessageAssumption, ReportAssumption
<1> QED
  BY <1>1 DEF ReportInit, ReportShape, Reports

LEMMA ReportShapeNext ==
  ASSUME Inv, ReportShape, ReportNext
  PROVE  ReportShape'
<1>a. /\ MaxWork \in Nat /\ SlaveNum \in Nat /\ SlaveNum > 0 /\ MaxCalls \in Nat
      /\ call \in 0 .. MaxCalls
  BY MessageAssumption, ReportAssumption DEF Inv, Shape
<1>b. \A s \in Slaves : finished[s] \in Nat /\ cpu[s] \in Nat
  BY <1>a DEF ReportShape
<1>1. ASSUME NEW r \in Reports, Command(r) PROVE ReportShape'
  <2>1. /\ kind' = [kind EXCEPT ![call + 1] = r] /\ total' = 0 /\ adding' = 0
        /\ floor' = IF timely /\ r # "cycles" THEN Sum(finished) ELSE 0
        /\ UNCHANGED <<finished, cpu, cells, zeroed, reported>>
    BY <1>1 DEF Command
  <2>2. floor' \in Nat
    BY <1>b, <2>1, SumSlaves
  <2>3. kind' \in [1 .. MaxCalls -> Reports]
    BY <2>1 DEF ReportShape
  <2> QED
    BY <1>a, <2>1, <2>2, <2>3 DEF ReportShape
<1>2. CASE GiveUp
  <2>1. master = "recv" /\ UNCHANGED <<kind, finished, cpu, cells, zeroed, adding, total>>
        /\ floor' = 0 /\ reported' = 0
    BY <1>2 DEF GiveUp, MasterGivesUp
  <2> QED
    BY <2>1 DEF ReportShape
<1>3. CASE MasterGoesOn
  <2>1. CASE (MasterMakes \/ MasterEnqueues \/ MasterDequeues \/ MasterFrees) /\ UNCHANGED reportVars
    <3>1. master # "idle"
      BY <2>1 DEF MasterMakes, MasterEnqueues, MasterDequeues, MasterFrees
    <3> QED
      BY <2>1, <3>1 DEF ReportShape, reportVars
  <2>2. CASE StartAdding
    <3>1. /\ master' = "idle" /\ call' = call /\ adding' = 1 /\ call > 0
          /\ UNCHANGED <<kind, finished, cpu, cells, zeroed, total, floor, reported>>
      BY <2>2 DEF StartAdding, MasterReturns, Inv, Shape
    <3> QED
      BY <1>a, <3>1 DEF ReportShape
  <2>3. CASE AddCell
    <3>1. /\ adding # 0 /\ adding \in 0 .. SlaveNum /\ adding' = NextCell /\ adding \in Slaves
          /\ UNCHANGED <<master, call, kind, finished, cpu, cells, zeroed, floor>>
      BY <1>a, <2>3 DEF AddCell, vars, ReportShape, Slaves
    <3>2. /\ adding' \in 0 .. SlaveNum
          /\ cells["cycles"][adding] \in Nat
      BY <1>a, <3>1 DEF NextCell, ReportShape, Reports
    <3>3. kind[call] \in Reports /\ cells[kind[call]][adding] \in Nat
      BY <1>a, <3>1 DEF ReportShape
    <3>4. total' \in Nat /\ reported' \in Nat
      <4>1. total \in Nat /\ reported \in Nat
        BY DEF ReportShape
      <4> QED
        BY <2>3, <3>2, <3>3, <4>1 DEF AddCell
    <3> QED
      BY <3>1, <3>2, <3>4 DEF ReportShape
  <2> QED
    BY <1>3, <2>1, <2>2, <2>3 DEF MasterGoesOn
<1>4. ASSUME NEW s \in Slaves, SlaveGoesOn(s) PROVE ReportShape'
  <2>a. UNCHANGED <<master, call>>
    BY <1>4 DEF SlaveGoesOn, SlaveDequeues, SlaveFrees, SlaveMakes, SlaveEnqueues, Zero,
                FillOffload, FillFlows, FillCycles, SlaveRuns, vars, masterVars
  <2>1. CASE UNCHANGED reportVars
    BY <2>1, <2>a DEF ReportShape, reportVars
  <2>2. CASE Zero(s)
    <3>1. Writes("offload", s, 0)
      BY <2>2, TaskWrites
    <3>2. zeroed' = zeroed \cup {s} /\ zeroed' \subseteq Slaves
          /\ UNCHANGED <<kind, finished, cpu, adding, total, floor, reported>>
      BY <2>2 DEF Zero, ReportShape
    <3>3. \A t \in zeroed' : cells'["offload"][t] = 0
      BY <3>1, <3>2 DEF Writes, ReportShape
    <3> QED
      BY <2>a, <3>1, <3>2, <3>3 DEF ReportShape, Writes
  <2>3. CASE FillOffload(s)
    <3>1. Writes("offload", s, finished[s])
      BY <2>3, TaskWrites
    <3>2. zeroed' = zeroed \ {s}
          /\ UNCHANGED <<kind, finished, cpu, adding, total, floor, reported>>
      BY <2>3 DEF FillOffload
    <3>3. zeroed' \subseteq Slaves /\ \A t \in zeroed' : cells'["offload"][t] = 0
      BY <3>1, <3>2 DEF Writes, ReportShape
    <3> QED
      BY <2>a, <3>1, <3>2, <3>3 DEF ReportShape, Writes
  <2>4. CASE FillFlows(s)
    <3>1. Writes("flows", s, finished[s])
      BY <2>4, TaskWrites
    <3>2. cells'["offload"] = cells["offload"]
      BY <3>1 DEF Writes, Reports
    <3>3. UNCHANGED <<kind, finished, cpu, zeroed, adding, total, floor, reported>>
      BY <2>4 DEF FillFlows
    <3> QED
      BY <2>a, <3>1, <3>2, <3>3 DEF ReportShape, Writes
  <2>5. CASE FillCycles(s)
    <3>1. Writes("cycles", s, cpu[s])
      BY <2>5, TaskWrites
    <3>2. cells'["offload"] = cells["offload"]
      BY <3>1 DEF Writes, Reports
    <3>3. UNCHANGED <<kind, finished, zeroed, adding, total, floor, reported>>
          /\ cpu' = [cpu EXCEPT ![s] = 0]
      BY <2>5 DEF FillCycles, ResetCpu
    <3>4. cpu' \in [Slaves -> Nat] /\ \A t \in Slaves : cpu'[t] <= finished'[t]
      BY <1>b, <3>3 DEF ReportShape
    <3> QED
      BY <2>a, <3>1, <3>2, <3>3, <3>4 DEF ReportShape, Writes
  <2> QED
    BY <1>4, <2>1, <2>2, <2>3, <2>4, <2>5 DEF SlaveGoesOn
<1>5. ASSUME NEW s \in Slaves, Works(s) PROVE ReportShape'
  <2>1. /\ finished' = [finished EXCEPT ![s] = @ + 1] /\ cpu' = [cpu EXCEPT ![s] = @ + 1]
        /\ finished[s] < MaxWork /\ finished[s] \in 0 .. MaxWork
        /\ UNCHANGED <<master, call, kind, cells, zeroed, adding, total, floor, reported>>
    BY <1>5 DEF Works, vars, ReportShape
  <2>2. finished' \in [Slaves -> 0 .. MaxWork] /\ cpu' \in [Slaves -> Nat]
    BY <1>a, <1>b, <2>1 DEF ReportShape
  <2>3. \A t \in Slaves : cpu'[t] <= finished'[t]
    BY <1>a, <1>b, <2>1 DEF ReportShape
  <2> QED
    BY <2>1, <2>2, <2>3 DEF ReportShape
<1> QED
  BY <1>1, <1>2, <1>3, <1>4, <1>5 DEF ReportNext

-----------------------------------------------------------------------------
(* Every cycle is reported once.                                            *)

(* The slaves whose cells the present command has yet to add.               *)
Pending(c, l, m, a) ==
  {s \in Slaves : l[s] = c /\ (m # "idle" \/ (a # 0 /\ s >= a))}

LEMMA PendingFinite == \A c, l, m, a : IsFiniteSet(Pending(c, l, m, a))
<1> TAKE c, l, m, a
<1>1. Pending(c, l, m, a) \in SUBSET Slaves
  BY DEF Pending
<1> QED
  BY <1>1, SlavesFinite, FS_Subset

Cycles(c, k, v, l, m, a) ==
  IF c = 0 \/ k[c] # "cycles" THEN 0 ELSE SumOver(v, Pending(c, l, m, a))

LEMMA CyclesInit == ReportInit => CyclesExact
<1> SUFFICES ASSUME ReportInit PROVE CyclesExact
  OBVIOUS
<1>1. reported = 0 /\ InCells = 0 /\ cpu = finished
  BY DEF ReportInit, Init, InCells
<1>2. Sum(finished) \in Nat
  BY SumSlaves DEF ReportInit
<1> QED
  BY <1>1, <1>2 DEF CyclesExact

LEMMA CycleMoves ==
  \A r, n, k, m \in Nat : r + (n + k) + m = r + n + (m + k)
  OBVIOUS

LEMMA CyclesNext ==
  ASSUME Inv, ReportShape, CyclesExact, ReportNext
  PROVE  CyclesExact'
<1> DEFINE i == Cycles(call, kind, cells["cycles"], last, master, adding)
           I == Cycles(call', kind', cells'["cycles"], last', master', adding')
           u == Sum(cpu)  U == Sum(cpu')
           f == Sum(finished)  F == Sum(finished')
<1> SUFFICES ASSUME timely' PROVE CyclesExact'
  BY DEF CyclesExact
<1>a. timely
  BY ReportSteps DEF Next, Master, MasterProceeds, Slave, Call, MasterMakes, MasterEnqueues,
     MasterDequeues, MasterFrees, MasterGivesUp, MasterReturns, SlaveDequeues, SlaveFrees,
     SlaveRuns, SlaveMakes, SlaveEnqueues, vars
<1>b. /\ \A s \in Slaves : /\ finished[s] \in Nat /\ cpu[s] \in Nat
                           /\ cells["cycles"][s] \in Nat
      /\ cells["cycles"] \in [Slaves -> Nat] /\ call \in 0 .. MaxCalls /\ call \in Nat
      /\ SlaveNum \in Nat /\ MaxCalls \in Nat
  BY MessageAssumption, ReportAssumption DEF ReportShape, Reports, Inv, Shape
<1>c. i \in Nat /\ u \in Nat /\ f \in Nat /\ reported \in Nat
  <2>1. \A s \in Pending(call, last, master, adding) : cells["cycles"][s] \in Nat
    BY <1>b DEF Pending
  <2>2. SumOver(cells["cycles"], Pending(call, last, master, adding)) \in Nat
    BY <2>1, PendingFinite, SumType
  <2> QED
    BY <1>b, <2>2, SumSlaves DEF Cycles, ReportShape
<1>d. reported + i + u = f
  BY <1>a DEF CyclesExact, InCells, Cycles, Pending
<1>e. SUFFICES reported' + I + U = F
  BY <1>e DEF CyclesExact, InCells, Cycles, Pending
<1>f. ASSUME UNCHANGED <<reported, cpu, finished>>, I = i PROVE reported' + I + U = F
  BY <1>d, <1>f
<1>g. \A s \in Slaves :
        /\ last[s] \in Nat /\ last[s] <= call
        /\ slave[s] = "run" => task[s] = call /\ last[s] # call /\ call > 0 /\ master # "idle"
        /\ master \in {"idle", "return"} => last[s] = call
  BY <1>a, TimelyFacts
<1>h. \A v : SumOver(v, {}) = 0
  BY SumEmpty
<1>1. ASSUME NEW r \in Reports, Command(r) PROVE reported' + I + U = F
  <2>1. /\ UNCHANGED <<reported, cpu, finished, cells, last, adding>> /\ adding = 0
        /\ master = "idle" /\ call' = call + 1
    BY <1>1 DEF Command, Call
  <2>2. Pending(call, last, master, adding) = {}
    BY <2>1 DEF Pending
  <2>3. Pending(call', last', master', adding') = {}
    BY <1>b, <1>g, <2>1 DEF Pending
  <2>4. i = 0 /\ I = 0
    BY <1>h, <2>2, <2>3 DEF Cycles
  <2> QED
    BY <1>f, <2>1, <2>4
<1>2. CASE GiveUp
  BY <1>2 DEF GiveUp, MasterGivesUp
<1>3. CASE (MasterMakes \/ MasterEnqueues \/ MasterDequeues \/ MasterFrees) /\ UNCHANGED reportVars
  <2>1. /\ UNCHANGED <<reported, cpu, finished, cells, last, adding, call, kind>>
        /\ master # "idle"
    BY <1>3 DEF reportVars, MasterMakes, MasterEnqueues, MasterDequeues, MasterFrees
  <2>2. master' # "idle"
    BY <1>3 DEF MasterMakes, MasterEnqueues, MasterDequeues, MasterFrees, Advance
  <2>3. Pending(call', last', master', adding') = Pending(call, last, master, adding)
    BY <2>1, <2>2 DEF Pending
  <2> QED
    BY <1>f, <2>1, <2>3 DEF Cycles
<1>4. CASE StartAdding
  <2>1. /\ UNCHANGED <<reported, cpu, finished, cells, last, call, kind>>
        /\ master = "return" /\ master' = "idle" /\ adding' = 1
    BY <1>4 DEF StartAdding, MasterReturns
  <2>2. Pending(call', last', master', adding') = Pending(call, last, master, adding)
    BY <2>1 DEF Pending, Slaves
  <2> QED
    BY <1>f, <2>1, <2>2 DEF Cycles
<1>5. CASE AddCell
  <2>a. /\ adding # 0 /\ adding' = NextCell
        /\ UNCHANGED <<timely, master, call, kind, last, finished, cpu, cells>>
    BY <1>5 DEF AddCell, vars
  <2>b. master = "idle" /\ call > 0 /\ adding \in 0 .. SlaveNum
    BY <2>a DEF ReportShape
  <2>1. /\ adding # 0 /\ adding' = NextCell /\ master = "idle" /\ adding \in Slaves
        /\ UNCHANGED <<timely, master, call, kind, last, finished, cpu, cells>>
        /\ adding \in 1 .. SlaveNum /\ call > 0
    <3>1. adding \in 1 .. SlaveNum
      BY <2>a, <2>b
    <3> QED
      BY <2>a, <2>b, <3>1 DEF Slaves
  <2>2. CASE kind[call] # "cycles"
    BY <1>5, <1>f, <2>1, <2>2 DEF Cycles, AddCell
  <2>3. CASE kind[call] = "cycles"
    <3> DEFINE P == Pending(call, last, master, adding)
               c == cells["cycles"]
    <3>1. reported' = reported + c[adding]
      BY <1>5, <1>a, <2>3 DEF AddCell
    <3>2. adding \in P /\ Pending(call', last', master', adding') = P \ {adding}
      <4>1. P = {s \in Slaves : s >= adding}
        BY <1>g, <2>1 DEF Pending
      <4>2. Pending(call', last', master', adding') = {s \in Slaves : adding' # 0 /\ s >= adding'}
        BY <1>g, <2>1 DEF Pending
      <4>3. \A s \in Slaves : (adding' # 0 /\ s >= adding') <=> (s >= adding /\ s # adding)
        <5>1. \A s \in Slaves : s \in Nat /\ s <= SlaveNum
          BY DEF Slaves
        <5>2. CASE adding = SlaveNum
          BY <1>b, <2>1, <5>1, <5>2 DEF NextCell
        <5>3. CASE adding # SlaveNum
          BY <1>b, <2>1, <5>1, <5>3 DEF NextCell
        <5> QED
          BY <5>2, <5>3
      <4>4. adding >= adding
        BY <2>1
      <4> QED
        BY <2>1, <4>1, <4>2, <4>3, <4>4
    <3>3. \A s \in P : c[s] \in Nat
      BY <1>b DEF Pending
    <3> HIDE DEF P
    <3>4. IsFiniteSet(P)
      BY PendingFinite DEF P
    <3>5. /\ SumOver(c, P) = SumOver(c, P \ {adding}) + c[adding]
          /\ SumOver(c, P \ {adding}) \in Nat /\ c[adding] \in Nat
      BY <3>2, <3>3, <3>4, SumSplit
    <3>6. i = I + c[adding] /\ I \in Nat
      BY <1>b, <2>1, <2>3, <3>2, <3>5 DEF Cycles, P
    <3>7. U = u /\ F = f
      BY <2>1
    <3> HIDE DEF i, I, u, U, f, F, c
    <3> QED
      BY <1>c, <1>d, <3>1, <3>5, <3>6, <3>7
  <2> QED
    BY <2>2, <2>3
<1>6. ASSUME NEW s \in Slaves,
             (SlaveDequeues(s) \/ SlaveFrees(s) \/ SlaveMakes(s) \/ SlaveEnqueues(s))
               /\ UNCHANGED reportVars
      PROVE  reported' + I + U = F
  <2>1. UNCHANGED <<reported, cpu, finished, cells, last, adding, call, kind, master>>
    BY <1>6 DEF reportVars, SlaveDequeues, SlaveFrees, SlaveMakes, SlaveEnqueues, masterVars
  <2> QED
    BY <1>f, <2>1
<1>7. ASSUME NEW s \in Slaves, Zero(s) PROVE reported' + I + U = F
  <2>1. UNCHANGED <<reported, cpu, finished, last, adding, call, kind, master>>
    BY <1>7 DEF Zero, vars
  <2>2. cells'["cycles"] = cells["cycles"]
    BY <1>7, TaskWrites DEF Writes, Reports
  <2> QED
    BY <1>f, <2>1, <2>2
<1>8. ASSUME NEW s \in Slaves, FillOffload(s) \/ FillFlows(s) PROVE reported' + I + U = F
  <2>1. /\ UNCHANGED <<reported, cpu, finished, call, kind>> /\ slave[s] = "run"
        /\ kind[task[s]] # "cycles"
    BY <1>8 DEF FillOffload, FillFlows, Doing, SlaveRuns, masterVars
  <2>2. i = 0 /\ I = 0
    BY <1>g, <2>1 DEF Cycles
  <2> QED
    BY <1>f, <2>1, <2>2
<1>9. ASSUME NEW s \in Slaves, FillCycles(s) PROVE reported' + I + U = F
  <2> DEFINE P == Pending(call, last, master, adding)
             R == Pending(call', last', master', adding')
             c == cells["cycles"]  d == cells'["cycles"]
  <2>1. /\ UNCHANGED <<reported, finished, call, kind, adding, master>>
        /\ slave[s] = "run" /\ kind[task[s]] = "cycles"
        /\ cpu' = [cpu EXCEPT ![s] = 0] /\ last' = [last EXCEPT ![s] = task[s]]
    BY <1>9 DEF FillCycles, Doing, SlaveRuns, masterVars, ResetCpu
  <2>2. task[s] = call /\ last[s] # call /\ call > 0 /\ master # "idle" /\ kind[call] = "cycles"
    BY <1>g, <2>1
  <2>3. d[s] = cpu[s] /\ \A t \in Slaves \ {s} : d[t] = c[t]
    BY <1>9, TaskWrites DEF Writes
  <2>4. s \in R /\ R \ {s} = P
    <3>1. last'[s] = call /\ \A t \in Slaves \ {s} : last'[t] = last[t]
      BY <2>1, <2>2 DEF Inv, Shape
    <3> QED
      BY <2>1, <2>2, <3>1 DEF Pending
  <2>5. P \subseteq Slaves /\ R \subseteq Slaves /\ s \notin P
    BY <2>4 DEF Pending
  <2>6. \A t \in R : d[t] \in Nat
    BY <1>b, <2>3, <2>5
  <2>7. IsFiniteSet(R)
    BY PendingFinite
  <2>8. i = SumOver(c, P) /\ I = SumOver(d, R)
    BY <1>b, <2>1, <2>2 DEF Cycles
  <2> HIDE DEF P, R, c, d
  <2>9. /\ SumOver(d, R) = SumOver(d, R \ {s}) + d[s]
        /\ SumOver(d, R \ {s}) \in Nat
    BY <2>4, <2>6, <2>7, SumSplit
  <2>10. SumOver(d, P) = SumOver(c, P)
    BY <2>3, <2>5, SumSame
  <2>11. I = i + cpu[s] /\ I \in Nat
    BY <1>b, <2>3, <2>4, <2>8, <2>9, <2>10
  <2>12. U + cpu[s] = u /\ U \in Nat
    <3>1. cpu'[s] = 0 /\ \A t \in Slaves \ {s} : cpu'[t] = cpu[t]
      BY <2>1 DEF ReportShape
    <3>2. /\ SumOver(cpu', Slaves) + cpu[s] = SumOver(cpu, Slaves) + cpu'[s]
          /\ SumOver(cpu', Slaves) \in Nat /\ SumOver(cpu, Slaves) \in Nat
      BY <1>b, <3>1, SlavesFinite, SumChange
    <3> QED
      BY <3>1, <3>2 DEF Sum
  <2>13. F = f /\ reported' = reported /\ cpu[s] \in Nat
    BY <1>b, <2>1
  <2> HIDE DEF i, I, u, U, f, F
  <2>14. reported + (i + cpu[s]) + U = reported + i + (U + cpu[s])
    BY <1>c, <2>12, <2>13, CycleMoves
  <2> QED
    BY <1>d, <2>11, <2>12, <2>13, <2>14
<1>10. ASSUME NEW s \in Slaves, Works(s) PROVE reported' + I + U = F
  <2>1. /\ UNCHANGED <<reported, cells, last, adding, call, kind, master>>
        /\ finished' = [finished EXCEPT ![s] = @ + 1] /\ cpu' = [cpu EXCEPT ![s] = @ + 1]
    BY <1>10 DEF Works, vars
  <2>2. ASSUME NEW a, NEW b, a \in [Slaves -> Nat], b = [a EXCEPT ![s] = @ + 1]
        PROVE  Sum(b) = Sum(a) + 1
    <3>1. b[s] = a[s] + 1 /\ a[s] \in Nat /\ b[s] \in Nat /\ \A t \in Slaves \ {s} : b[t] = a[t]
      BY <2>2
    <3>2. \A t \in Slaves : a[t] \in Nat
      BY <2>2
    <3>3. /\ SumOver(b, Slaves) + a[s] = SumOver(a, Slaves) + b[s]
          /\ SumOver(b, Slaves) \in Nat /\ SumOver(a, Slaves) \in Nat
      BY <3>1, <3>2, SlavesFinite, SumChange
    <3> QED
      BY <3>1, <3>3 DEF Sum
  <2>3. cpu \in [Slaves -> Nat] /\ finished \in [Slaves -> Nat]
    BY <1>b DEF ReportShape
  <2>4. U = u + 1 /\ F = f + 1
    BY <2>1, <2>2, <2>3
  <2>5. I = i /\ reported' = reported
    BY <2>1
  <2> HIDE DEF i, I, u, U, f, F
  <2> QED
    BY <1>c, <1>d, <2>4, <2>5
<1> QED
  BY <1>1, <1>2, <1>3, <1>4, <1>5, <1>6, <1>7, <1>8, <1>9, <1>10
     DEF ReportNext, MasterGoesOn, SlaveGoesOn

-----------------------------------------------------------------------------
(* The offloads reported are those of some moment of the command.           *)

LEMMA CountingNext ==
  ASSUME Inv, ReportShape, Counting, ReportNext
  PROVE  Counting'
<1> SUFFICES ASSUME timely', call' > 0, kind'[call'] # "cycles"
             PROVE  /\ total' = SumOver(cells'[kind'[call']], Added')
                    /\ \E g : Counts(g, floor', cells'[kind'[call']], finished', last', call')
  BY DEF Counting
<1>a. timely
  BY ReportSteps DEF Next, Master, MasterProceeds, Slave, Call, MasterMakes, MasterEnqueues,
     MasterDequeues, MasterFrees, MasterGivesUp, MasterReturns, SlaveDequeues, SlaveFrees,
     SlaveRuns, SlaveMakes, SlaveEnqueues, vars
<1>b. /\ \A s \in Slaves : finished[s] \in 0 .. MaxWork /\ finished[s] \in Nat
      /\ cells \in [Reports -> [Slaves -> Nat]] /\ call \in 0 .. MaxCalls /\ call \in Nat
      /\ kind \in [1 .. MaxCalls -> Reports]
      /\ SlaveNum \in Nat /\ MaxCalls \in Nat /\ MaxWork \in Nat
  BY MessageAssumption, ReportAssumption DEF ReportShape, Inv, Shape
<1>c. \A s \in Slaves :
        /\ last[s] \in Nat /\ last[s] <= call
        /\ slave[s] = "run" =>
             task[s] = call /\ last[s] # call /\ call > 0 /\ master # "idle" /\ master # "return"
        /\ master \in {"idle", "return"} => last[s] = call
  BY <1>a, TimelyFacts
<1>d. \A v : SumOver(v, {}) = 0
  BY SumEmpty
<1>e. ASSUME UNCHANGED <<call, kind>>
      PROVE  /\ total = SumOver(cells[kind[call]], Added) /\ call > 0 /\ kind[call] # "cycles"
             /\ \E g : Counts(g, floor, cells[kind[call]], finished, last, call)
             /\ kind[call] \in Reports /\ call \in 1 .. MaxCalls
  <2>1. call \in 1 .. MaxCalls /\ kind[call] # "cycles"
    BY <1>b, <1>e
  <2> QED
    BY <1>a, <1>b, <1>e, <2>1 DEF Counting
<1>f. ASSUME UNCHANGED <<call, kind, cells, finished, last, floor, total>>, Added' = Added
      PROVE  /\ total' = SumOver(cells'[kind'[call']], Added')
             /\ \E g : Counts(g, floor', cells'[kind'[call']], finished', last', call')
  BY <1>e, <1>f
<1>1. ASSUME NEW r \in Reports, Command(r)
      PROVE  /\ total' = SumOver(cells'[kind'[call']], Added')
             /\ \E g : Counts(g, floor', cells'[kind'[call']], finished', last', call')
  <2>1. /\ kind' = [kind EXCEPT ![call + 1] = r] /\ total' = 0 /\ adding' = 0
        /\ floor' = IF timely /\ r # "cycles" THEN Sum(finished) ELSE 0
        /\ UNCHANGED <<finished, cells, last>> /\ call' = call + 1 /\ call < MaxCalls
        /\ master' = "make"
    BY <1>1 DEF Command, Call
  <2>2. kind'[call'] = r /\ floor' = Sum(finished)
    BY <1>a, <1>b, <2>1
  <2>3. Added' = {}
    BY <2>1 DEF Added
  <2>4. Counts(finished, floor', cells'[r], finished', last', call')
    <3>1. \A s \in Slaves : last[s] # call + 1 /\ finished[s] <= finished[s]
      BY <1>b, <1>c
    <3>2. finished \in [Slaves -> 0 .. MaxWork]
      BY DEF ReportShape
    <3> QED
      BY <2>1, <2>2, <3>1, <3>2 DEF Counts
  <2> QED
    BY <1>d, <2>1, <2>2, <2>3, <2>4
<1>2. CASE GiveUp
  BY <1>2 DEF GiveUp, MasterGivesUp
<1>3. CASE (MasterMakes \/ MasterEnqueues \/ MasterDequeues \/ MasterFrees) /\ UNCHANGED reportVars
  <2>1. /\ UNCHANGED <<call, kind, cells, finished, last, floor, total>>
        /\ master # "idle"
    BY <1>3 DEF reportVars, MasterMakes, MasterEnqueues, MasterDequeues, MasterFrees
  <2>2. master' # "idle"
    BY <1>3 DEF MasterMakes, MasterEnqueues, MasterDequeues, MasterFrees, Advance
  <2>3. Added' = Added
    BY <2>1, <2>2 DEF Added
  <2> QED
    BY <1>f, <2>1, <2>3
<1>4. CASE StartAdding
  <2>1. /\ UNCHANGED <<call, kind, cells, finished, last, floor, total>>
        /\ master = "return" /\ master' = "idle" /\ adding' = 1
    BY <1>4 DEF StartAdding, MasterReturns
  <2>2. Added' = Added
    BY <2>1 DEF Added, Slaves
  <2> QED
    BY <1>f, <2>1, <2>2
<1>5. CASE AddCell
  <2>a. /\ adding # 0 /\ adding' = NextCell
        /\ UNCHANGED <<master, call, kind, last, finished, cells, floor>>
    BY <1>5 DEF AddCell, vars
  <2>b. master = "idle" /\ adding \in 0 .. SlaveNum
    BY <2>a DEF ReportShape
  <2>c. adding \in 1 .. SlaveNum
    BY <2>a, <2>b
  <2> DEFINE c == cells[kind[call]]
  <2>1. /\ total = SumOver(c, Added) /\ kind[call] # "cycles" /\ kind[call] \in Reports
        /\ \E g : Counts(g, floor, c, finished, last, call)
    BY <1>e, <2>a
  <2>2. total' = total + c[adding]
    BY <1>5, <2>1 DEF AddCell
  <2>3. adding \in Added' /\ Added' \ {adding} = Added
    <3>1. Added = {s \in Slaves : s < adding}
      BY <2>a, <2>b DEF Added
    <3>2. Added' = {s \in Slaves : adding' = 0 \/ s < adding'}
      BY <2>a, <2>b DEF Added
    <3>3. \A s \in Slaves : (adding' = 0 \/ s < adding') <=> (s < adding \/ s = adding)
      <4>1. \A s \in Slaves : s \in Nat /\ s <= SlaveNum
        BY DEF Slaves
      <4>2. CASE adding = SlaveNum
        BY <1>b, <2>a, <2>c, <4>1, <4>2 DEF NextCell
      <4>3. CASE adding # SlaveNum
        BY <1>b, <2>a, <2>c, <4>1, <4>3 DEF NextCell
      <4> QED
        BY <4>2, <4>3
    <3>4. adding \in Slaves /\ ~(adding < adding)
      BY <2>c DEF Slaves
    <3> QED
      BY <3>1, <3>2, <3>3, <3>4
  <2>4. IsFiniteSet(Added') /\ \A s \in Added' : c[s] \in Nat
    <3>1. Added' \in SUBSET Slaves
      BY DEF Added
    <3>2. \A s \in Slaves : c[s] \in Nat
      BY <1>b, <2>1
    <3> QED
      BY <3>1, <3>2, SlavesFinite, FS_Subset
  <2> HIDE DEF c
  <2>5. SumOver(c, Added') = SumOver(c, Added) + c[adding]
    BY <2>3, <2>4, SumSplit
  <2> QED
    BY <2>a, <2>1, <2>2, <2>5 DEF c
<1>6. ASSUME NEW s \in Slaves,
             (SlaveDequeues(s) \/ SlaveFrees(s) \/ SlaveMakes(s) \/ SlaveEnqueues(s))
               /\ UNCHANGED reportVars
      PROVE  /\ total' = SumOver(cells'[kind'[call']], Added')
             /\ \E g : Counts(g, floor', cells'[kind'[call']], finished', last', call')
  <2>1. UNCHANGED <<call, kind, cells, finished, last, floor, total, master, adding>>
    BY <1>6 DEF reportVars, SlaveDequeues, SlaveFrees, SlaveMakes, SlaveEnqueues, masterVars
  <2> QED
    BY <1>f, <2>1 DEF Added
<1>7. ASSUME NEW s \in Slaves, NEW r \in Reports, NEW v,
             slave[s] = "run", kind[task[s]] = r, Writes(r, s, v),
             (v = finished[s] /\ last' = [last EXCEPT ![s] = task[s]]) \/ last' = last,
             UNCHANGED <<call, kind, finished, floor, total, master>>
      PROVE  /\ total' = SumOver(cells'[kind'[call']], Added')
             /\ \E g : Counts(g, floor', cells'[kind'[call']], finished', last', call')
  <2>1. /\ task[s] = call /\ last[s] # call /\ master # "idle" /\ kind[call] = r
    BY <1>c, <1>7
  <2>2. total' = SumOver(cells'[kind'[call']], Added')
    <3>1. Added = {} /\ Added' = {}
      BY <1>7, <2>1 DEF Added
    <3> QED
      BY <1>d, <1>e, <1>7, <3>1
  <2>3. PICK g : Counts(g, floor, cells[r], finished, last, call)
    BY <1>e, <1>7, <2>1
  <2>4. \A t \in Slaves : g[t] <= finished[t] /\ finished[t] <= finished[t]
    BY <1>b, <2>3 DEF Counts
  <2>5. \A t \in Slaves : last'[t] = call => g[t] <= cells'[r][t] /\ cells'[r][t] <= finished[t]
    <3> TAKE t \in Slaves
    <3>1. CASE t # s
      <4>1. last'[t] = last[t] /\ cells'[r][t] = cells[r][t]
        BY <1>7, <3>1 DEF Writes, Inv, Shape
      <4> QED
        BY <2>3, <4>1 DEF Counts
    <3>2. CASE t = s
      <4>1. CASE v = finished[s]
        BY <1>7, <2>4, <3>2, <4>1 DEF Writes
      <4>2. CASE last' = last
        BY <2>1, <3>2, <4>2
      <4> QED
        BY <1>7, <4>1, <4>2
    <3> QED
      BY <3>1, <3>2
  <2>6. Counts(g, floor', cells'[r], finished', last', call')
    BY <1>7, <2>3, <2>5 DEF Counts
  <2> QED
    BY <1>7, <2>1, <2>2, <2>6
<1>8. ASSUME NEW s \in Slaves, Zero(s) \/ FillOffload(s) \/ FillFlows(s)
      PROVE  /\ total' = SumOver(cells'[kind'[call']], Added')
             /\ \E g : Counts(g, floor', cells'[kind'[call']], finished', last', call')
  <2>a. "offload" \in Reports /\ "flows" \in Reports
    BY DEF Reports
  <2>1. CASE Zero(s)
    <3>1. /\ slave[s] = "run" /\ kind[task[s]] = "offload" /\ last' = last
          /\ UNCHANGED <<call, kind, finished, floor, total, master>>
      BY <2>1 DEF Zero, Doing, vars
    <3>2. Writes("offload", s, 0)
      BY <2>1, TaskWrites
    <3> QED
      BY <1>7, <2>a, <3>1, <3>2
  <2>2. CASE FillOffload(s)
    <3>1. /\ slave[s] = "run" /\ kind[task[s]] = "offload"
          /\ last' = [last EXCEPT ![s] = task[s]]
          /\ UNCHANGED <<call, kind, finished, floor, total, master>>
      BY <2>2 DEF FillOffload, Doing, SlaveRuns, masterVars
    <3>2. Writes("offload", s, finished[s])
      BY <2>2, TaskWrites
    <3> QED
      BY <1>7, <2>a, <3>1, <3>2
  <2>3. CASE FillFlows(s)
    <3>1. /\ slave[s] = "run" /\ kind[task[s]] = "flows"
          /\ last' = [last EXCEPT ![s] = task[s]]
          /\ UNCHANGED <<call, kind, finished, floor, total, master>>
      BY <2>3 DEF FillFlows, Doing, SlaveRuns, masterVars
    <3>2. Writes("flows", s, finished[s])
      BY <2>3, TaskWrites
    <3> QED
      BY <1>7, <2>a, <3>1, <3>2
  <2> QED
    BY <1>8, <2>1, <2>2, <2>3
<1>9. ASSUME NEW s \in Slaves, FillCycles(s)
      PROVE  /\ total' = SumOver(cells'[kind'[call']], Added')
             /\ \E g : Counts(g, floor', cells'[kind'[call']], finished', last', call')
  <2>1. slave[s] = "run" /\ kind[task[s]] = "cycles" /\ UNCHANGED <<call, kind>>
    BY <1>9 DEF FillCycles, Doing, SlaveRuns, masterVars
  <2> QED
    BY <1>c, <2>1
<1>10. ASSUME NEW s \in Slaves, Works(s)
      PROVE  /\ total' = SumOver(cells'[kind'[call']], Added')
             /\ \E g : Counts(g, floor', cells'[kind'[call']], finished', last', call')
  <2>1. /\ UNCHANGED <<call, kind, cells, last, floor, total, master, adding>>
        /\ finished' = [finished EXCEPT ![s] = @ + 1]
    BY <1>10 DEF Works, vars
  <2> DEFINE c == cells[kind[call]]
  <2>2. /\ total = SumOver(c, Added) /\ kind[call] \in Reports
        /\ \E g : Counts(g, floor, c, finished, last, call)
    BY <1>e, <2>1
  <2>3. PICK g : Counts(g, floor, c, finished, last, call)
    BY <2>2
  <2>4. \A t \in Slaves : finished'[t] \in Nat /\ finished[t] <= finished'[t]
    <3>1. /\ finished'[s] = finished[s] + 1
          /\ \A t \in Slaves \ {s} : finished'[t] = finished[t]
      BY <2>1 DEF ReportShape
    <3>2. \A t \in Slaves : finished[t] \in Nat
      BY <1>b
    <3> QED
      BY <3>1, <3>2
  <2>5. \A t \in Slaves : g[t] \in Nat /\ c[t] \in Nat
    BY <1>b, <2>2, <2>3 DEF Counts
  <2> HIDE DEF c
  <2>6. /\ \A t \in Slaves : g[t] <= finished'[t]
        /\ \A t \in Slaves : last[t] = call => g[t] <= c[t] /\ c[t] <= finished'[t]
    <3>1. \A t \in Slaves : /\ g[t] <= finished[t]
                            /\ last[t] = call => g[t] <= c[t] /\ c[t] <= finished[t]
      BY <2>3 DEF Counts
    <3>2. \A x, y, z \in Nat : x <= y /\ y <= z => x <= z
      OBVIOUS
    <3> QED
      BY <1>b, <2>4, <2>5, <3>1, <3>2
  <2>7. Counts(g, floor, c, finished', last, call)
    BY <2>3, <2>6 DEF Counts
  <2> QED
    BY <2>1, <2>2, <2>7 DEF c, Added
<1> QED
  BY <1>1, <1>2, <1>3, <1>4, <1>5, <1>6, <1>8, <1>9, <1>10
     DEF ReportNext, MasterGoesOn, SlaveGoesOn

-----------------------------------------------------------------------------
(* The theorems.                                                            *)

LEMMA ReportInvariance == ReportSpec => []ReportInv
<1>1. ReportInit => ReportInv
  <2> SUFFICES ASSUME ReportInit PROVE ReportInv
    OBVIOUS
  <2>1. Inv /\ ReportShape /\ CyclesExact
    BY InvInit, ReportShapeInit, CyclesInit DEF ReportInit
  <2>2. Counting
    BY DEF ReportInit, Init, Counting
  <2> QED
    BY <2>1, <2>2 DEF ReportInv
<1>2. ASSUME ReportInv, [ReportNext]_allVars PROVE ReportInv'
  <2>1. CASE ReportNext
    <3>1. Inv'
      BY <1>2, <2>1, ReportSteps, InvNext DEF ReportInv
    <3>2. ReportShape' /\ CyclesExact' /\ Counting'
      BY <1>2, <2>1, ReportShapeNext, CyclesNext, CountingNext DEF ReportInv
    <3> QED
      BY <3>1, <3>2 DEF ReportInv
  <2>2. CASE UNCHANGED allVars
    BY <1>2, <2>2 DEF allVars, vars, reportVars, ReportInv, Inv, Shape, Conserved, InHand, InRings,
       Progress, ReportShape, Counting, Added, CyclesExact, InCells, Rings
  <2> QED
    BY <1>2, <2>1, <2>2
<1> QED
  BY <1>1, <1>2, PTL DEF ReportSpec

(* The reporting commands use the messages as flowQoS_message.c allows:     *)
(* every behaviour of Report is one of Message.                             *)
THEOREM ReportUsesMessage == ReportSpec => Spec
<1>1. ReportInit => Init
  BY DEF ReportInit
<1>2. [ReportNext]_allVars => [Next]_vars
  BY ReportSteps DEF allVars
<1> QED
  BY <1>1, <1>2, PTL DEF ReportSpec, Spec

(* No message is lost or freed twice and no ring overflows, whatever times  *)
(* out, with any number of workers and any size of the rings.               *)
THEOREM MessageSafety == Spec => []MessagesExact
<1>1. Inv /\ [Next]_vars => Inv'
  BY InvNext
<1>2. Inv => MessagesExact
  BY MessagesHold
<1> QED
  BY <1>1, <1>2, InvInit, PTL DEF Spec

(* Without a timeout, a successful call has been carried out by every       *)
(* worker, and no worker runs a task whose call has returned.               *)
THEOREM TimelySafety == Spec => []TimelySuccess
<1>1. Inv /\ [Next]_vars => Inv'
  BY InvNext
<1>2. Inv => TimelySuccess
  BY MessagesHold
<1> QED
  BY <1>1, <1>2, InvInit, PTL DEF Spec

(* Without a timeout, the flows reported are those of a moment during the   *)
(* command, and every cycle is reported once.                               *)
THEOREM ReportSafety == ReportSpec => []ReportsExact
<1>1. ASSUME ReportInv PROVE ReportsExact
  <2>a. Inv /\ ReportShape /\ Counting /\ CyclesExact
    BY <1>1 DEF ReportInv
  <2>1. ReportTypeOK
    <3>1. \A s \in Slaves : finished[s] \in 0 .. MaxWork /\ cpu[s] \in Nat /\ cpu[s] <= finished[s]
      BY <2>a DEF ReportShape
    <3>2. \A s \in Slaves : cpu[s] \in 0 .. MaxWork
      BY <3>1, ReportAssumption
    <3>3. cpu \in [Slaves -> 0 .. MaxWork]
      BY <2>a, <3>2 DEF ReportShape
    <3> QED
      BY <2>a, <3>3 DEF ReportShape, ReportTypeOK
  <2>2. OffloadsExact
    <3> SUFFICES ASSUME timely, call > 0, kind[call] # "cycles", master = "idle", adding = 0
                 PROVE  floor <= total /\ total <= Sum(finished)
      BY DEF OffloadsExact
    <3> DEFINE c == cells[kind[call]]
    <3>1. total = SumOver(c, Added) /\ Added = Slaves
      BY <2>a DEF Counting, Added
    <3>2. PICK g : Counts(g, floor, c, finished, last, call)
      BY <2>a DEF Counting
    <3>3. \A s \in Slaves : last[s] = call
      BY <2>a, TimelyFacts
    <3>4. call \in 1 .. MaxCalls /\ kind[call] \in Reports
      BY <2>a, MessageAssumption DEF Inv, Shape, ReportShape
    <3>5. \A s \in Slaves : /\ g[s] \in Nat /\ c[s] \in Nat /\ finished[s] \in Nat
                            /\ g[s] <= c[s] /\ c[s] <= finished[s]
      BY <2>a, <3>2, <3>3, <3>4, ReportAssumption DEF Counts, ReportShape
    <3>6. Sum(g) = floor
      BY <3>2 DEF Counts
    <3> HIDE DEF c
    <3>7. SumOver(g, Slaves) <= SumOver(c, Slaves) /\ SumOver(c, Slaves) <= SumOver(finished, Slaves)
      BY <3>5, SlavesFinite, SumGrows
    <3> QED
      BY <3>1, <3>6, <3>7 DEF Sum
  <2> QED
    BY <2>a, <2>1, <2>2 DEF ReportsExact
<1> QED
  BY <1>1, ReportInvariance, PTL
=============================================================================
