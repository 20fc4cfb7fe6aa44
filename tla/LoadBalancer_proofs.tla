------------------------ MODULE LoadBalancer_proofs ------------------------
(***************************************************************************)
(* The contexts of the load balancer's pool, its scheduler and its         *)
(* counters, for any number of cores, flows, contexts and real servers.    *)
(***************************************************************************)
EXTENDS LoadBalancer, FiniteSetTheorems, SequenceTheorems, TLAPS

-----------------------------------------------------------------------------
(* The inductive invariant.                                                 *)

Within(q, m, n, c) == \E i \in m .. n : q[i] = c
Has(q, c) == Within(q, 1, Len(q), c)
Distinct(q) == \A i, j \in 1 .. Len(q) : q[i] = q[j] => i = j

(* With t for the tables, r for the ring and h for the caches: no context   *)
(* is in two places, and each is in one.                                    *)
OnePlace(t, r, h) ==
  /\ \A f, g \in Flows : t[f] # NULL /\ t[f] = t[g] => f = g
  /\ Distinct(r)
  /\ \A k \in Cores : Distinct(h[k])
  /\ \A f \in Flows : t[f] # NULL =>
       ~ Has(r, t[f]) /\ \A k \in Cores : ~ Has(h[k], t[f])
  /\ \A k \in Cores, c \in Ctxs : ~ (Has(r, c) /\ Has(h[k], c))
  /\ \A j, k \in Cores, c \in Ctxs : Has(h[j], c) /\ Has(h[k], c) => j = k
  /\ \A c \in Ctxs : \/ \E f \in Flows : t[f] = c
                     \/ Has(r, c)
                     \/ \E k \in Cores : Has(h[k], c)

(* A core is in a callback exactly if it has a context to read.             *)
Callbacks == \A k \in Cores : cb[k].c = NULL <=> cb[k].pc = "none"

(* As long as no context was reused under a callback: what a callback reads *)
(* is in the pool, no other callback reads it, and its state is the one     *)
(* that chose the callback.                                                 *)
Reading ==
  ~ raced =>
    /\ \A k \in Cores, f \in Flows : cb[k].c # NULL => CT[f] # cb[k].c
    /\ \A j, k \in Cores : cb[k].c # NULL /\ cb[j].c = cb[k].c => j = k
    /\ \A k \in Cores :
         /\ cb[k].pc = "sw" => ctx[cb[k].c].ct_state # HW_FWD
         /\ cb[k].pc = "hw" => ctx[cb[k].c].ct_state = HW_FWD

Pool == TypeOK /\ OnePlace(CT, ring, cache)

Inv == Pool /\ Callbacks /\ Reading /\ SchedulerExact /\ StatsExact

-----------------------------------------------------------------------------
(* Sequences of contexts.                                                   *)

(* An interval of positions is cut in two.                                  *)
LEMMA Cut ==
  ASSUME NEW q, NEW a \in Int, NEW m \in Int, NEW l \in Int, a <= m + 1, m <= l
  PROVE  \A x : Within(q, a, l, x) <=> Within(q, a, m, x) \/ Within(q, m + 1, l, x)
<1> TAKE x
<1>1. ASSUME NEW i \in a .. l, q[i] = x PROVE Within(q, a, m, x) \/ Within(q, m + 1, l, x)
  <2>1. i \in a .. m \/ i \in m + 1 .. l
    OBVIOUS
  <2> QED
    BY <1>1, <2>1 DEF Within
<1>2. a .. m \subseteq a .. l /\ m + 1 .. l \subseteq a .. l
  OBVIOUS
<1> QED
  BY <1>1, <1>2 DEF Within

LEMMA Apart ==
  ASSUME NEW q, Len(q) \in Nat, Distinct(q), NEW a \in Int, NEW m \in Int, NEW b \in Int,
         NEW l \in Int, 1 <= a, m < b, l <= Len(q)
  PROVE  \A x : ~ (Within(q, a, m, x) /\ Within(q, b, l, x))
<1> SUFFICES ASSUME NEW x, NEW i \in a .. m, NEW j \in b .. l, q[i] = x, q[j] = x
             PROVE  FALSE
  BY DEF Within
<1>1. i \in 1 .. Len(q) /\ j \in 1 .. Len(q) /\ i # j
  OBVIOUS
<1> QED
  BY <1>1 DEF Distinct

LEMMA Single ==
  ASSUME NEW q, NEW m \in Int
  PROVE  \A x : Within(q, m, m, x) <=> x = q[m]
<1>1. m .. m = {m}
  OBVIOUS
<1> QED
  BY <1>1 DEF Within

(* A piece of a sequence without repetitions.                               *)
LEMMA PieceHas ==
  ASSUME NEW S, NEW q \in Seq(S), Distinct(q),
         NEW m \in Int, NEW n \in Int, 1 <= m, n <= Len(q)
  PROVE  /\ SubSeq(q, m, n) \in Seq(S)
         /\ Distinct(SubSeq(q, m, n))
         /\ \A x : Has(SubSeq(q, m, n), x) <=> Within(q, m, n, x)
<1> DEFINE p == SubSeq(q, m, n)
<1>0. Len(q) \in Nat /\ \A i \in 1 .. Len(q) : q[i] \in S
  OBVIOUS
<1>1. \A i \in m .. n : q[i] \in S
  BY <1>0
<1>2. /\ p \in Seq(S)
      /\ Len(p) = IF m <= n THEN n - m + 1 ELSE 0
      /\ \A i \in 1 .. n - m + 1 : p[i] = q[m + i - 1]
  BY <1>1, SubSeqProperties
<1> HIDE DEF p
<1>3. Distinct(p)
  <2> SUFFICES ASSUME NEW i \in 1 .. Len(p), NEW j \in 1 .. Len(p), p[i] = p[j]
               PROVE  i = j
    BY DEF Distinct
  <2>1. m + i - 1 \in 1 .. Len(q) /\ m + j - 1 \in 1 .. Len(q)
    BY <1>0, <1>2
  <2>2. q[m + i - 1] = q[m + j - 1]
    BY <1>2
  <2> QED
    BY <2>1, <2>2 DEF Distinct
<1>4. \A x : Has(p, x) <=> Within(q, m, n, x)
  <2> TAKE x
  <2>1. ASSUME NEW i \in 1 .. Len(p), p[i] = x PROVE \E j \in m .. n : q[j] = x
    <3>1. m + i - 1 \in m .. n /\ q[m + i - 1] = x
      BY <1>2, <2>1
    <3> QED
      BY <3>1
  <2>2. ASSUME NEW j \in m .. n, q[j] = x PROVE \E i \in 1 .. Len(p) : p[i] = x
    <3>1. j - m + 1 \in 1 .. Len(p) /\ p[j - m + 1] = q[m + (j - m + 1) - 1]
      BY <1>2
    <3>2. m + (j - m + 1) - 1 = j
      OBVIOUS
    <3> QED
      BY <2>2, <3>1, <3>2
  <2> QED
    BY <2>1, <2>2 DEF Has, Within
<1> QED
  BY <1>2, <1>3, <1>4 DEF p

LEMMA AppendHas ==
  ASSUME NEW S, NEW q \in Seq(S), Distinct(q), NEW c \in S, ~ Has(q, c)
  PROVE  /\ Append(q, c) \in Seq(S)
         /\ Distinct(Append(q, c))
         /\ \A x : Has(Append(q, c), x) <=> Has(q, x) \/ x = c
  BY DEF Has, Within, Distinct

LEMMA ConcatHas ==
  ASSUME NEW S, NEW p \in Seq(S), NEW q \in Seq(S), Distinct(p), Distinct(q),
         \A x \in S : ~ (Has(p, x) /\ Has(q, x))
  PROVE  /\ p \o q \in Seq(S)
         /\ Distinct(p \o q)
         /\ \A x : Has(p \o q, x) <=> Has(p, x) \/ Has(q, x)
<1> DEFINE s == p \o q
           a == Len(p)
           b == Len(q)
<1>1. /\ s \in Seq(S) /\ Len(s) = a + b
      /\ \A i \in 1 .. a + b : s[i] = IF i <= a THEN p[i] ELSE q[i - a]
  BY ConcatProperties
<1>2. a \in Nat /\ b \in Nat /\ \A i \in 1 .. a : p[i] \in S
  OBVIOUS
<1> HIDE DEF s
<1>3. Distinct(s)
  <2>1. \A i \in 1 .. a, j \in 1 .. b : p[i] # q[j]
    BY <1>2 DEF Has, Within
  <2> SUFFICES ASSUME NEW i \in 1 .. a + b, NEW j \in 1 .. a + b, s[i] = s[j]
               PROVE  i = j
    BY <1>1 DEF Distinct
  <2> HIDE DEF a, b
  <2>2. CASE i <= a /\ j <= a
    <3>1. i \in 1 .. a /\ j \in 1 .. a /\ p[i] = p[j]
      BY <1>1, <1>2, <2>2
    <3> QED
      BY <3>1 DEF Distinct, a
  <2>3. CASE i > a /\ j > a
    <3>1. i - a \in 1 .. b /\ j - a \in 1 .. b /\ q[i - a] = q[j - a]
      BY <1>1, <1>2, <2>3
    <3>2. i - a = j - a
      BY <3>1 DEF Distinct, b
    <3> QED
      BY <3>2, <1>2
  <2>4. CASE i <= a /\ j > a
    BY <1>1, <1>2, <2>1, <2>4
  <2>5. CASE i > a /\ j <= a
    BY <1>1, <1>2, <2>1, <2>5
  <2> QED
    BY <1>2, <2>2, <2>3, <2>4, <2>5
<1>4. \A x : Has(s, x) <=> Has(p, x) \/ Has(q, x)
  <2> TAKE x
  <2>1. ASSUME NEW i \in 1 .. a + b, s[i] = x PROVE Has(p, x) \/ Has(q, x)
    <3> HIDE DEF a, b
    <3>1. CASE i <= a
      BY <1>1, <1>2, <2>1, <3>1 DEF Has, Within, a
    <3>2. CASE i > a
      <4>1. i - a \in 1 .. b /\ q[i - a] = x
        BY <1>1, <1>2, <2>1, <3>2
      <4> QED
        BY <4>1 DEF Has, Within, b
    <3> QED
      BY <1>2, <3>1, <3>2
  <2>2. ASSUME NEW i \in 1 .. a, p[i] = x PROVE Has(s, x)
    <3> HIDE DEF a, b
    <3>1. i \in 1 .. a + b /\ s[i] = p[i]
      BY <1>1, <1>2
    <3> QED
      BY <1>1, <2>2, <3>1 DEF Has, Within
  <2>3. ASSUME NEW i \in 1 .. b, q[i] = x PROVE Has(s, x)
    <3> HIDE DEF a, b
    <3>1. a + i \in 1 .. a + b /\ s[a + i] = q[(a + i) - a] /\ (a + i) - a = i
      BY <1>1, <1>2
    <3> QED
      BY <1>1, <2>3, <3>1 DEF Has, Within
  <2> QED
    BY <1>1, <2>1, <2>2, <2>3 DEF Has, Within
<1> QED
  BY <1>1, <1>3, <1>4 DEF s

-----------------------------------------------------------------------------
(* The pool: a core's cache p and the ring r.                               *)

Halves(p, r) ==
  /\ p \in Seq(Ctxs) /\ Distinct(p)
  /\ r \in Seq(Ctxs) /\ Distinct(r)
  /\ \A x \in Ctxs : ~ (Has(p, x) /\ Has(r, x))

(* p2 and r2 have together what p and r have, except c.                     *)
Without(p, r, p2, r2, c) ==
  /\ \A x \in Ctxs : Has(p, x) \/ Has(r, x) <=> x = c \/ Has(p2, x) \/ Has(r2, x)
  /\ ~ Has(p2, c) /\ ~ Has(r2, c)

(* rte_mempool_get takes c out of the core's cache and the ring, in each of *)
(* its three ways.                                                          *)
LEMMA GetHalves ==
  ASSUME cache \in [Cores -> Seq(Ctxs)], NEW k \in Cores, NEW c \in Ctxs,
         Halves(cache[k], ring), MempoolGet(k, c)
  PROVE  \E p : /\ cache' = [cache EXCEPT ![k] = p]
                /\ Halves(p, ring')
                /\ Without(cache[k], ring, p, ring', c)
<1>0. CacheSize \in Nat
  BY LBAssumption
<1> DEFINE q == cache[k]
<1>1. q \in Seq(Ctxs) /\ Distinct(q) /\ ring \in Seq(Ctxs) /\ Distinct(ring)
      /\ \A x \in Ctxs : ~ (Has(q, x) /\ Has(ring, x))
  BY DEF Halves
<1>2. Len(q) \in Nat /\ Len(ring) \in Nat
  BY <1>1
<1>3. CASE /\ q # <<>> /\ c = Last(q)
           /\ cache' = [cache EXCEPT ![k] = Front(@)] /\ UNCHANGED ring
  <2> DEFINE p == Front(q)
  <2>0. Len(q) >= 1
    BY <1>1, <1>3
  <2>1. /\ p \in Seq(Ctxs) /\ Distinct(p)
        /\ \A x : Has(p, x) <=> Within(q, 1, Len(q) - 1, x)
    BY <1>1, <1>2, PieceHas DEF Front
  <2> HIDE DEF p, q
  <2>2. \A x : Has(q, x) <=> x = c \/ Has(p, x)
    <3>1. \A x : Has(q, x) <=> Within(q, 1, Len(q) - 1, x) \/ Within(q, (Len(q) - 1) + 1, Len(q), x)
      BY <1>2, <2>0, Cut DEF Has
    <3>2. (Len(q) - 1) + 1 = Len(q)
      BY <1>2
    <3>3. \A x : Within(q, Len(q), Len(q), x) <=> x = c
      BY <1>2, <1>3, Single DEF Last
    <3> QED
      BY <2>1, <3>1, <3>2, <3>3
  <2>3. ~ Has(p, c)
    <3>1. ~ (Within(q, 1, Len(q) - 1, c) /\ Within(q, Len(q), Len(q), c))
      BY <1>1, <1>2, <2>0, Apart
    <3>2. Within(q, Len(q), Len(q), c)
      BY <1>2, <1>3, Single DEF Last
    <3> QED
      BY <2>1, <3>1, <3>2
  <2>4. ~ Has(ring, c)
    BY <1>1, <2>2
  <2>5. Halves(p, ring) /\ Without(q, ring, p, ring, c)
    BY <1>1, <2>1, <2>2, <2>3, <2>4 DEF Halves, Without
  <2>6. cache' = [cache EXCEPT ![k] = p] /\ ring' = ring
    BY <1>3 DEF p, q
  <2> QED
    BY <2>5, <2>6 DEF q
<1>4. CASE /\ q = <<>> /\ Len(ring) > CacheSize
           /\ c = ring[CacheSize + 1]
           /\ cache' = [cache EXCEPT ![k] = SubSeq(ring, 1, CacheSize)]
           /\ ring' = SubSeq(ring, CacheSize + 2, Len(ring))
  <2> DEFINE p == SubSeq(ring, 1, CacheSize)
             r == SubSeq(ring, CacheSize + 2, Len(ring))
  <2>1. /\ p \in Seq(Ctxs) /\ Distinct(p)
        /\ \A x : Has(p, x) <=> Within(ring, 1, CacheSize, x)
    BY <1>0, <1>1, <1>2, <1>4, PieceHas
  <2>2. /\ r \in Seq(Ctxs) /\ Distinct(r)
        /\ \A x : Has(r, x) <=> Within(ring, CacheSize + 2, Len(ring), x)
    BY <1>0, <1>1, <1>2, <1>4, PieceHas
  <2> HIDE DEF p, r, q
  <2>3. \A x : ~ Has(q, x)
    BY <1>4 DEF Has, Within
  <2>4. \A x : Within(ring, CacheSize + 1, CacheSize + 1, x) <=> x = c
    BY <1>0, <1>4, Single
  <2>5. \A x : Has(ring, x) <=> x = c \/ Has(p, x) \/ Has(r, x)
    <3>1. \A x : Has(ring, x) <=> Within(ring, 1, CacheSize, x)
                                    \/ Within(ring, CacheSize + 1, Len(ring), x)
      BY <1>0, <1>2, <1>4, Cut DEF Has
    <3>2. \A x : Within(ring, CacheSize + 1, Len(ring), x) <=>
                   \/ Within(ring, CacheSize + 1, CacheSize + 1, x)
                   \/ Within(ring, (CacheSize + 1) + 1, Len(ring), x)
      BY <1>0, <1>2, <1>4, Cut
    <3>3. (CacheSize + 1) + 1 = CacheSize + 2
      BY <1>0
    <3> QED
      BY <2>1, <2>2, <3>1, <3>2, <3>3, <2>4
  <2>6. ~ Has(p, c) /\ ~ Has(r, c)
    <3>1. ~ (Within(ring, 1, CacheSize, c) /\ Within(ring, CacheSize + 1, CacheSize + 1, c))
      BY <1>0, <1>1, <1>2, <1>4, Apart
    <3>2. ~ (Within(ring, CacheSize + 1, CacheSize + 1, c)
               /\ Within(ring, CacheSize + 2, Len(ring), c))
      BY <1>0, <1>1, <1>2, <1>4, Apart
    <3> QED
      BY <2>1, <2>2, <2>4, <3>1, <3>2
  <2>7. \A x : ~ (Has(p, x) /\ Has(r, x))
    <3>1. \A x : ~ (Within(ring, 1, CacheSize, x) /\ Within(ring, CacheSize + 2, Len(ring), x))
      BY <1>0, <1>1, <1>2, <1>4, Apart
    <3> QED
      BY <2>1, <2>2, <3>1
  <2>8. Halves(p, r) /\ Without(q, ring, p, r, c)
    BY <2>1, <2>2, <2>3, <2>5, <2>6, <2>7 DEF Halves, Without
  <2>9. cache' = [cache EXCEPT ![k] = p] /\ ring' = r
    BY <1>4 DEF p, r
  <2> QED
    BY <2>8, <2>9 DEF q
<1>5. CASE /\ q = <<>> /\ ring # <<>> /\ c = Head(ring)
           /\ ring' = Tail(ring) /\ UNCHANGED cache
  <2> DEFINE r == SubSeq(ring, 2, Len(ring))
  <2>0. Len(ring) >= 1 /\ c = ring[1] /\ Tail(ring) = r
    BY <1>1, <1>5, TailIsSubSeq
  <2>1. /\ r \in Seq(Ctxs) /\ Distinct(r)
        /\ \A x : Has(r, x) <=> Within(ring, 2, Len(ring), x)
    BY <1>1, <1>2, PieceHas
  <2> HIDE DEF r
  <2>2. \A x : Has(ring, x) <=> x = c \/ Has(r, x)
    <3>1. \A x : Has(ring, x) <=> Within(ring, 1, 1, x) \/ Within(ring, 1 + 1, Len(ring), x)
      BY <1>2, <2>0, Cut DEF Has
    <3>2. 1 + 1 = 2
      OBVIOUS
    <3>3. \A x : Within(ring, 1, 1, x) <=> x = c
      BY <2>0, Single
    <3> QED
      BY <2>1, <3>1, <3>2, <3>3
  <2>3. ~ Has(r, c)
    <3>1. ~ (Within(ring, 1, 1, c) /\ Within(ring, 2, Len(ring), c))
      BY <1>1, <1>2, Apart
    <3>2. Within(ring, 1, 1, c)
      BY <2>0, Single
    <3> QED
      BY <2>1, <3>1, <3>2
  <2>4. \A x : ~ Has(q, x)
    BY <1>5 DEF Has, Within
  <2> HIDE DEF q
  <2>5. Halves(q, r) /\ Without(q, ring, q, r, c)
    BY <1>1, <2>1, <2>2, <2>3, <2>4 DEF Halves, Without
  <2>6. cache' = [cache EXCEPT ![k] = q] /\ ring' = r
    BY <1>5, <2>0 DEF q
  <2> QED
    BY <2>5, <2>6 DEF q
<1> QED
  BY <1>3, <1>4, <1>5 DEF MempoolGet

(* rte_mempool_put adds c to them, whether it flushes the cache or not.     *)
LEMMA PutHalves ==
  ASSUME cache \in [Cores -> Seq(Ctxs)], NEW k \in Cores, NEW c \in Ctxs,
         Halves(cache[k], ring), ~ Has(cache[k], c), ~ Has(ring, c), MempoolPut(k, c)
  PROVE  \E p : /\ cache' = [cache EXCEPT ![k] = p]
                /\ Halves(p, ring')
                /\ Without(p, ring', cache[k], ring, c)
<1>0. CacheSize \in Nat
  BY LBAssumption
<1> DEFINE h == cache[k]
           q == Append(h, c)
<1>1. h \in Seq(Ctxs) /\ Distinct(h) /\ ring \in Seq(Ctxs) /\ Distinct(ring)
      /\ \A x \in Ctxs : ~ (Has(h, x) /\ Has(ring, x))
  BY DEF Halves
<1>2. /\ q \in Seq(Ctxs) /\ Distinct(q)
      /\ \A x : Has(q, x) <=> Has(h, x) \/ x = c
  BY <1>1, AppendHas
<1>3. ~ Has(h, c) /\ ~ Has(ring, c)
  OBVIOUS
<1>4. \/ /\ ring' = ring \o SubSeq(q, CacheSize + 1, Len(q))
         /\ cache' = [cache EXCEPT ![k] =
              SubSeq(q, 1, IF Len(q) < CacheSize THEN Len(q) ELSE CacheSize)]
      \/ cache' = [cache EXCEPT ![k] = q] /\ ring' = ring
  BY DEF MempoolPut
<1> HIDE DEF q, h
<1>5. Len(q) \in Nat
  BY <1>2
<1>6. CASE /\ ring' = ring \o SubSeq(q, CacheSize + 1, Len(q))
           /\ cache' = [cache EXCEPT ![k] =
                SubSeq(q, 1, IF Len(q) < CacheSize THEN Len(q) ELSE CacheSize)]
  <2> DEFINE n == IF Len(q) < CacheSize THEN Len(q) ELSE CacheSize
             p == SubSeq(q, 1, n)
             r == SubSeq(q, CacheSize + 1, Len(q))
  <2>0. n \in Nat /\ n <= Len(q) /\ n <= CacheSize /\ (n = Len(q) \/ n = CacheSize)
    BY <1>0, <1>5
  <2> HIDE DEF n
  <2>1. /\ p \in Seq(Ctxs) /\ Distinct(p)
        /\ \A x : Has(p, x) <=> Within(q, 1, n, x)
    BY <1>2, <1>5, <2>0, PieceHas
  <2>2. /\ r \in Seq(Ctxs) /\ Distinct(r)
        /\ \A x : Has(r, x) <=> Within(q, CacheSize + 1, Len(q), x)
    BY <1>0, <1>2, <1>5, PieceHas
  <2> HIDE DEF p, r
  <2>3. \A x : ~ (Has(p, x) /\ Has(r, x))
    <3>1. \A x : ~ (Within(q, 1, n, x) /\ Within(q, CacheSize + 1, Len(q), x))
      BY <1>0, <1>2, <1>5, <2>0, Apart
    <3> QED
      BY <2>1, <2>2, <3>1
  <2>4. \A x : Has(q, x) <=> Has(p, x) \/ Has(r, x)
    <3>1. CASE n = CacheSize
      <4>1. \A x : Has(q, x) <=> Within(q, 1, CacheSize, x)
                                   \/ Within(q, CacheSize + 1, Len(q), x)
        BY <1>0, <1>5, <2>0, <3>1, Cut DEF Has
      <4> QED
        BY <2>1, <2>2, <3>1, <4>1
    <3>2. CASE n = Len(q)
      <4>1. CacheSize + 1 .. Len(q) = {}
        BY <1>0, <1>5, <2>0, <3>2
      <4> QED
        BY <2>1, <2>2, <3>2, <4>1 DEF Has, Within
    <3> QED
      BY <2>0, <3>1, <3>2
  <2>5. \A x \in Ctxs : ~ (Has(ring, x) /\ Has(q, x))
    BY <1>1, <1>2, <1>3
  <2> DEFINE s == ring \o r
  <2>6. /\ s \in Seq(Ctxs) /\ Distinct(s)
        /\ \A x : Has(s, x) <=> Has(ring, x) \/ Has(r, x)
    BY <1>1, <2>2, <2>4, <2>5, ConcatHas
  <2> HIDE DEF s
  <2>7. Halves(p, s) /\ Without(p, s, h, ring, c)
    BY <1>2, <1>3, <2>1, <2>3, <2>4, <2>5, <2>6 DEF Halves, Without
  <2>8. cache' = [cache EXCEPT ![k] = p] /\ ring' = s
    BY <1>6 DEF p, n, s, r
  <2> QED
    BY <2>7, <2>8 DEF h
<1>7. CASE cache' = [cache EXCEPT ![k] = q] /\ ring' = ring
  <2>1. Halves(q, ring) /\ Without(q, ring, h, ring, c)
    BY <1>1, <1>2, <1>3 DEF Halves, Without
  <2> QED
    BY <1>7, <2>1 DEF h
<1> QED
  BY <1>4, <1>6, <1>7

-----------------------------------------------------------------------------
(* What a taken and a returned context do to the places.                    *)

LEMMA TakePlace ==
  ASSUME NEW t \in [Flows -> Ctxs \cup {NULL}], NEW r, NEW h \in [Cores -> Seq(Ctxs)],
         OnePlace(t, r, h), NEW k \in Cores, NEW f \in Flows, t[f] = NULL,
         NEW c \in Ctxs, NEW p, NEW r2, Halves(p, r2), Without(h[k], r, p, r2, c),
         NEW t2, t2 = [t EXCEPT ![f] = c], NEW h2, h2 = [h EXCEPT ![k] = p]
  PROVE  OnePlace(t2, r2, h2)
<1>0. NULL \notin Ctxs
  BY LBAssumption
<1>1. /\ \A g \in Flows : t2[g] = IF g = f THEN c ELSE t[g]
      /\ \A j \in Cores : h2[j] = IF j = k THEN p ELSE h[j]
  OBVIOUS
<1>2. /\ \A x \in Ctxs : Has(h[k], x) \/ Has(r, x) <=> x = c \/ Has(p, x) \/ Has(r2, x)
      /\ ~ Has(p, c) /\ ~ Has(r2, c)
      /\ \A x \in Ctxs : ~ (Has(p, x) /\ Has(r2, x))
      /\ Distinct(p) /\ Distinct(r2)
  BY DEF Without, Halves
<1>3. /\ \A g, e \in Flows : t[g] # NULL /\ t[g] = t[e] => g = e
      /\ \A g \in Flows : t[g] # NULL =>
           ~ Has(r, t[g]) /\ \A j \in Cores : ~ Has(h[j], t[g])
      /\ \A j \in Cores : Distinct(h[j])
      /\ \A j \in Cores, x \in Ctxs : ~ (Has(r, x) /\ Has(h[j], x))
      /\ \A j, l \in Cores, x \in Ctxs : Has(h[j], x) /\ Has(h[l], x) => j = l
      /\ \A x \in Ctxs : \/ \E g \in Flows : t[g] = x
                         \/ Has(r, x)
                         \/ \E j \in Cores : Has(h[j], x)
  BY DEF OnePlace
<1>4. \A g \in Flows : t[g] # c
  BY <1>0, <1>2, <1>3
<1>5. \A g, e \in Flows : t2[g] # NULL /\ t2[g] = t2[e] => g = e
  BY <1>1, <1>3, <1>4
<1>6. \A j \in Cores : j # k => ~ Has(h[j], c)
  BY <1>2, <1>3
<1>7. \A g \in Flows : t2[g] # NULL =>
        ~ Has(r2, t2[g]) /\ \A j \in Cores : ~ Has(h2[j], t2[g])
  <2> SUFFICES ASSUME NEW g \in Flows, t2[g] # NULL
               PROVE  ~ Has(r2, t2[g]) /\ \A j \in Cores : ~ Has(h2[j], t2[g])
    OBVIOUS
  <2>1. CASE g = f
    BY <1>1, <1>2, <1>6, <2>1
  <2>2. CASE g # f
    <3>1. t2[g] = t[g] /\ t[g] \in Ctxs
      BY <1>1, <2>2
    <3> QED
      BY <1>1, <1>2, <1>3, <3>1
  <2> QED
    BY <2>1, <2>2
<1>8. \A j \in Cores, x \in Ctxs : ~ (Has(r2, x) /\ Has(h2[j], x))
  BY <1>1, <1>2, <1>3
<1>9. \A j, l \in Cores, x \in Ctxs : Has(h2[j], x) /\ Has(h2[l], x) => j = l
  BY <1>1, <1>2, <1>3
<1>10. \A x \in Ctxs : \/ \E g \in Flows : t2[g] = x
                       \/ Has(r2, x)
                       \/ \E j \in Cores : Has(h2[j], x)
  <2> TAKE x \in Ctxs
  <2>1. CASE x = c
    BY <1>1, <2>1
  <2>2. CASE x # c /\ \E g \in Flows : t[g] = x
    BY <1>0, <1>1, <2>2
  <2>3. CASE x # c /\ (Has(h[k], x) \/ Has(r, x))
    BY <1>1, <1>2, <2>3
  <2>4. CASE \E j \in Cores : j # k /\ Has(h[j], x)
    BY <1>1, <2>4
  <2> QED
    BY <1>3, <2>1, <2>2, <2>3, <2>4
<1>11. \A j \in Cores : Distinct(h2[j])
  BY <1>1, <1>2, <1>3
<1> QED
  BY <1>2, <1>5, <1>7, <1>8, <1>9, <1>10, <1>11 DEF OnePlace

LEMMA GivePlace ==
  ASSUME NEW t \in [Flows -> Ctxs \cup {NULL}], NEW r, NEW h \in [Cores -> Seq(Ctxs)],
         OnePlace(t, r, h), NEW k \in Cores, NEW f \in Flows,
         NEW c \in Ctxs, t[f] = c, NEW p, NEW r2, Halves(p, r2),
         Without(p, r2, h[k], r, c),
         NEW t2, t2 = [t EXCEPT ![f] = NULL], NEW h2, h2 = [h EXCEPT ![k] = p]
  PROVE  OnePlace(t2, r2, h2)
<1>0. NULL \notin Ctxs
  BY LBAssumption
<1>1. /\ \A g \in Flows : t2[g] = IF g = f THEN NULL ELSE t[g]
      /\ \A j \in Cores : h2[j] = IF j = k THEN p ELSE h[j]
  OBVIOUS
<1>2. /\ \A x \in Ctxs : Has(p, x) \/ Has(r2, x) <=> x = c \/ Has(h[k], x) \/ Has(r, x)
      /\ \A x \in Ctxs : ~ (Has(p, x) /\ Has(r2, x))
      /\ Distinct(p) /\ Distinct(r2)
  BY DEF Without, Halves
<1>3. /\ \A g, e \in Flows : t[g] # NULL /\ t[g] = t[e] => g = e
      /\ \A g \in Flows : t[g] # NULL =>
           ~ Has(r, t[g]) /\ \A j \in Cores : ~ Has(h[j], t[g])
      /\ \A j \in Cores : Distinct(h[j])
      /\ \A j \in Cores, x \in Ctxs : ~ (Has(r, x) /\ Has(h[j], x))
      /\ \A j, l \in Cores, x \in Ctxs : Has(h[j], x) /\ Has(h[l], x) => j = l
      /\ \A x \in Ctxs : \/ \E g \in Flows : t[g] = x
                         \/ Has(r, x)
                         \/ \E j \in Cores : Has(h[j], x)
  BY DEF OnePlace
<1>4. \A j \in Cores : ~ Has(h[j], c)
  BY <1>0, <1>3
<1>5. \A g, e \in Flows : t2[g] # NULL /\ t2[g] = t2[e] => g = e
  BY <1>1, <1>3
<1>6. \A g \in Flows : t2[g] # NULL =>
        ~ Has(r2, t2[g]) /\ \A j \in Cores : ~ Has(h2[j], t2[g])
  <2> SUFFICES ASSUME NEW g \in Flows, t2[g] # NULL
               PROVE  ~ Has(r2, t2[g]) /\ \A j \in Cores : ~ Has(h2[j], t2[g])
    OBVIOUS
  <2>1. t2[g] = t[g] /\ t[g] \in Ctxs /\ t[g] # c /\ t[g] # NULL
    BY <1>0, <1>1, <1>3
  <2> QED
    BY <1>1, <1>2, <1>3, <2>1
<1>7. \A j \in Cores, x \in Ctxs : ~ (Has(r2, x) /\ Has(h2[j], x))
  BY <1>1, <1>2, <1>3, <1>4
<1>8. \A j, l \in Cores, x \in Ctxs : Has(h2[j], x) /\ Has(h2[l], x) => j = l
  BY <1>1, <1>2, <1>3, <1>4
<1>9. \A x \in Ctxs : \/ \E g \in Flows : t2[g] = x
                      \/ Has(r2, x)
                      \/ \E j \in Cores : Has(h2[j], x)
  <2> TAKE x \in Ctxs
  <2>1. CASE x = c \/ Has(h[k], x) \/ Has(r, x)
    BY <1>1, <1>2, <2>1
  <2>2. CASE x # c /\ \E g \in Flows : t[g] = x
    BY <1>1, <2>2
  <2>3. CASE \E j \in Cores : j # k /\ Has(h[j], x)
    BY <1>1, <2>3
  <2> QED
    BY <1>3, <2>1, <2>2, <2>3
<1>10. \A j \in Cores : Distinct(h2[j])
  BY <1>1, <1>2, <1>3
<1> QED
  BY <1>2, <1>5, <1>6, <1>7, <1>8, <1>9, <1>10 DEF OnePlace

(* What the lemmas on the pool need.                                        *)
LEMMA PoolHalves ==
  ASSUME Pool, NEW k \in Cores
  PROVE  Halves(cache[k], ring)
  BY DEF Pool, TypeOK, OnePlace, Halves

(* A context in one place counts as one.                                    *)
LEMMA PlaceCount ==
  ASSUME Pool, NEW c \in Ctxs
  PROVE  Cardinality(Places(c)) = 1
<1>0. /\ ring \in Seq(Ctxs) /\ DOMAIN ring = 1 .. Len(ring)
      /\ \A k \in Cores : DOMAIN cache[k] = 1 .. Len(cache[k])
      /\ c # NULL
  BY LBAssumption DEF Pool, TypeOK
<1> DEFINE A == {<<"flow", f>> : f \in {g \in Flows : CT[g] = c}}
           B == {<<"ring", i>> : i \in {j \in DOMAIN ring : ring[j] = c}}
           C(k) == {<<"cache", k, i>> : i \in {j \in DOMAIN cache[k] : cache[k][j] = c}}
<1>1. Places(c) = A \cup B \cup UNION {C(k) : k \in Cores}
  BY DEF Places
<1>2. ~ Has(ring, c) => B = {}
  BY <1>0 DEF Has, Within
<1>3. \A k \in Cores : ~ Has(cache[k], c) => C(k) = {}
  BY <1>0 DEF Has, Within
<1>4. CASE \E f \in Flows : CT[f] = c
  <2>1. PICK f \in Flows : CT[f] = c
    BY <1>4
  <2>2. A = {<<"flow", f>>}
    BY <1>0, <2>1 DEF Pool, OnePlace
  <2>3. ~ Has(ring, c) /\ \A k \in Cores : ~ Has(cache[k], c)
    BY <1>0, <2>1 DEF Pool, OnePlace
  <2> HIDE DEF A, B, C
  <2>4. Places(c) = {<<"flow", f>>}
    BY <1>1, <1>2, <1>3, <2>2, <2>3
  <2> QED
    BY <2>4, FS_Singleton
<1>5. CASE Has(ring, c)
  <2>1. PICK i \in 1 .. Len(ring) : ring[i] = c
    BY <1>5 DEF Has, Within
  <2>2. B = {<<"ring", i>>}
    BY <1>0, <2>1 DEF Pool, OnePlace, Distinct
  <2>3. A = {} /\ \A k \in Cores : ~ Has(cache[k], c)
    BY <1>0, <1>5 DEF Pool, OnePlace
  <2> HIDE DEF A, B, C
  <2>4. Places(c) = {<<"ring", i>>}
    BY <1>1, <1>3, <2>2, <2>3
  <2> QED
    BY <2>4, FS_Singleton
<1>6. CASE \E k \in Cores : Has(cache[k], c)
  <2>0. PICK k \in Cores : Has(cache[k], c)
    BY <1>6
  <2>1. PICK i \in 1 .. Len(cache[k]) : cache[k][i] = c
    BY <2>0 DEF Has, Within
  <2>3. C(k) = {<<"cache", k, i>>}
    BY <1>0, <2>1 DEF Pool, OnePlace, Distinct
  <2>4. A = {} /\ ~ Has(ring, c) /\ \A j \in Cores : j # k => ~ Has(cache[j], c)
    BY <1>0, <2>0 DEF Pool, OnePlace
  <2> HIDE DEF A, B, C
  <2>5. Places(c) = {<<"cache", k, i>>}
    BY <1>1, <1>2, <1>3, <2>3, <2>4
  <2> QED
    BY <2>5, FS_Singleton
<1> QED
  BY <1>4, <1>5, <1>6 DEF Pool, OnePlace

-----------------------------------------------------------------------------
(* Counting modulo CounterMod.                                              *)

LEMMA Remainder ==
  ASSUME NEW m \in Nat \ {0}, NEW a \in Int, NEW q \in Int, NEW r \in Int,
         0 <= r, r < m, a = m * q + r
  PROVE  a % m = r
<1>1. /\ a \div m \in Int /\ a % m \in Int
      /\ a = m * (a \div m) + (a % m) /\ 0 <= a % m /\ a % m < m
  OBVIOUS
<1> DEFINE d == a \div m
           e == a % m
<1>2. d \in Int /\ e \in Int /\ a = m * d + e /\ 0 <= e /\ e < m
  BY <1>1
<1> HIDE DEF d, e
<1>3. CASE q >= d + 1
  <2>1. PICK n \in Nat : q = d + 1 + n
    <3>1. q - d - 1 \in Nat /\ q = d + 1 + (q - d - 1)
      BY <1>2, <1>3
    <3> QED
      BY <3>1
  <2>2. m * q = m * d + m + m * n /\ m * n >= 0
    BY <1>2, <2>1
  <2> QED
    BY <1>2, <2>2
<1>4. CASE d >= q + 1
  <2>1. PICK n \in Nat : d = q + 1 + n
    <3>1. d - q - 1 \in Nat /\ d = q + 1 + (d - q - 1)
      BY <1>2, <1>4
    <3> QED
      BY <3>1
  <2>2. m * d = m * q + m + m * n /\ m * n >= 0
    BY <1>2, <2>1
  <2> QED
    BY <1>2, <2>2
<1>5. CASE d = q
  BY <1>2, <1>5 DEF e
<1> QED
  BY <1>2, <1>3, <1>4, <1>5

(* uint32_t additions of one and of minus one.                              *)
LEMMA AddOne ==
  ASSUME NEW n \in Nat
  PROVE  Add(n % CounterMod, 1) = (n + 1) % CounterMod
<1>0. CounterMod \in Nat \ {0}
  BY LBAssumption
<1> DEFINE m == CounterMod
           q == n \div m
           r == n % m
<1>1. q \in Int /\ r \in Int /\ n = m * q + r /\ 0 <= r /\ r < m
  BY <1>0
<1> HIDE DEF m, q, r
<1>2. CASE r + 1 < m
  <2>1. n + 1 = m * q + (r + 1) /\ r + 1 = m * 0 + (r + 1)
    BY <1>0, <1>1 DEF m
  <2>2. (n + 1) % m = r + 1 /\ (r + 1) % m = r + 1
    BY <1>0, <1>1, <1>2, <2>1, Remainder DEF m
  <2> QED
    BY <2>2 DEF Add, m, r
<1>3. CASE r + 1 = m
  <2>1. n + 1 = m * (q + 1) + 0 /\ r + 1 = m * 1 + 0
    BY <1>0, <1>1, <1>3 DEF m
  <2>2. (n + 1) % m = 0 /\ (r + 1) % m = 0
    BY <1>0, <1>1, <1>3, <2>1, Remainder DEF m
  <2> QED
    BY <2>2 DEF Add, m, r
<1> QED
  BY <1>0, <1>1, <1>2, <1>3 DEF m

LEMMA SubtractOne ==
  ASSUME NEW n \in Nat \ {0}
  PROVE  Add(n % CounterMod, -1) = (n - 1) % CounterMod
<1>0. CounterMod \in Nat \ {0}
  BY LBAssumption
<1> DEFINE m == CounterMod
           q == n \div m
           r == n % m
<1>1. q \in Int /\ r \in Int /\ n = m * q + r /\ 0 <= r /\ r < m
  BY <1>0
<1> HIDE DEF m, q, r
<1>2. CASE r > 0
  <2>1. n - 1 = m * q + (r - 1) /\ r + (-1) = m * 0 + (r - 1)
    BY <1>0, <1>1 DEF m
  <2>2. (n - 1) % m = r - 1 /\ (r + (-1)) % m = r - 1
    BY <1>0, <1>1, <1>2, <2>1, Remainder DEF m
  <2> QED
    BY <2>2 DEF Add, m, r
<1>3. CASE r = 0
  <2>1. n - 1 = m * (q - 1) + (m - 1) /\ r + (-1) = m * (-1) + (m - 1)
    BY <1>0, <1>1, <1>3 DEF m
  <2>2. (n - 1) % m = m - 1 /\ (r + (-1)) % m = m - 1
    BY <1>0, <1>1, <1>3, <2>1, Remainder DEF m
  <2> QED
    BY <2>2 DEF Add, m, r
<1> QED
  BY <1>1, <1>2, <1>3

LEMMA AddType ==
  ASSUME NEW n \in Int, NEW d \in Int
  PROVE  Add(n, d) \in 0 .. CounterMod - 1
<1>1. CounterMod \in Nat \ {0} /\ n + d \in Int
  BY LBAssumption
<1>2. (n + d) % CounterMod \in Int /\ 0 <= (n + d) % CounterMod
        /\ (n + d) % CounterMod < CounterMod
  BY <1>1
<1> QED
  BY <1>1, <1>2 DEF Add

LEMMA ServerChosen ==
  ASSUME TypeOK, NEW k \in Cores
  PROVE  totalConnections[k] % RealServers \in Servers
<1>1. RealServers \in Nat \ {0} /\ totalConnections[k] \in Nat
  BY LBAssumption DEF TypeOK
<1> DEFINE r == totalConnections[k] % RealServers
<1>2. r \in Int /\ 0 <= r /\ r < RealServers
  BY <1>1
<1> HIDE DEF r
<1>3. r \in Servers
  BY <1>1, <1>2 DEF Servers
<1> QED
  BY <1>3 DEF r

LEMMA StatType ==
  ASSUME TypeOK, NEW k \in Cores, NEW r \in Servers, NEW d \in Int
  PROVE  /\ totalConnections[k] \in Int /\ flowStats[k][r] \in Int
         /\ Add(totalConnections[k], d) \in 0 .. CounterMod - 1
         /\ Add(flowStats[k][r], d) \in 0 .. CounterMod - 1
<1>1. /\ totalConnections \in [Cores -> 0 .. CounterMod - 1]
      /\ flowStats \in [Cores -> [Servers -> 0 .. CounterMod - 1]]
      /\ CounterMod \in Nat
  BY LBAssumption DEF TypeOK
<1>2. flowStats[k] \in [Servers -> 0 .. CounterMod - 1]
  BY <1>1
<1>3. flowStats[k][r] \in 0 .. CounterMod - 1 /\ totalConnections[k] \in 0 .. CounterMod - 1
  BY <1>1, <1>2
<1>4. totalConnections[k] \in Int /\ flowStats[k][r] \in Int
  BY <1>1, <1>3
<1> QED
  BY <1>4, AddType

(* Finite sets of contexts with one more and one less.                      *)
LEMMA OneMore ==
  ASSUME NEW S \in SUBSET Ctxs, NEW c \in Ctxs, c \notin S
  PROVE  Cardinality(S) \in Nat /\ Cardinality(S \cup {c}) = Cardinality(S) + 1
<1>1. IsFiniteSet(S)
  BY LBAssumption, FS_Subset
<1> QED
  BY <1>1, FS_AddElement, FS_CardinalityType

LEMMA OneLess ==
  ASSUME NEW S \in SUBSET Ctxs, NEW c \in S
  PROVE  /\ Cardinality(S) \in Nat \ {0}
         /\ Cardinality(S \ {c}) \in Nat /\ Cardinality(S \ {c}) = Cardinality(S) - 1
<1>1. IsFiniteSet(S) /\ IsFiniteSet(S \ {c})
  BY LBAssumption, FS_Subset
<1>2. Cardinality(S) \in Nat /\ Cardinality(S \ {c}) \in Nat
  BY <1>1, FS_CardinalityType
<1>3. Cardinality(S \ {c}) = Cardinality(S) - 1
  BY <1>1, FS_RemoveElement
<1> QED
  BY <1>2, <1>3

-----------------------------------------------------------------------------
(* The connections of a core.                                               *)

(* Context c belongs to a connection of core k.                             *)
Mine(k, c) == \E f \in Flows : Rss[f] = k /\ CT[f] = c

(* The callback of core k has still to read the state of c.                 *)
Unread(k, c) == cb[k].c = c /\ cb[k].pc \in {"sw", "hw"}

LEMMA Sets ==
  /\ \A k, s : InState(k, s) =
       {c \in Ctxs : ctx[c].ct_state = s /\ (Mine(k, c) \/ Unread(k, c))}
  /\ \A k, r : Alive(k, r) =
       {c \in Ctxs : ctx[c].server = r /\ (Mine(k, c) \/ cb[k].c = c)}
  BY DEF InState, Alive, Mine, Unread

LEMMA SetsNext ==
  /\ \A k, s : InState(k, s)' =
       {c \in Ctxs : ctx'[c].ct_state = s /\ (Mine(k, c)' \/ Unread(k, c)')}
  /\ \A k, r : Alive(k, r)' =
       {c \in Ctxs : ctx'[c].server = r /\ (Mine(k, c)' \/ cb'[k].c = c)}
  BY DEF InState, Alive, Mine, Unread

(* Scheduler and counters of all cores follow from the sets, which a step   *)
(* need not have changed.                                                   *)
LEMMA Unmoved ==
  ASSUME SchedulerExact, ~ raced' => ~ raced, queue' = queue, maxEntry' = maxEntry,
         ~ raced' =>
           \A k \in Cores : /\ InState(k, FLOW_QOS)' = InState(k, FLOW_QOS)
                            /\ InState(k, HW_FWD)' = InState(k, HW_FWD)
  PROVE  SchedulerExact'
  BY DEF SchedulerExact

LEMMA Uncounted ==
  ASSUME StatsExact, ~ raced' => ~ raced, ~ lost' => ~ lost, flowStats' = flowStats,
         ~ raced' => \A k \in Cores, r \in Servers : Alive(k, r)' = Alive(k, r)
  PROVE  StatsExact'
  BY DEF StatsExact

(* A context belongs to one core.                                           *)
LEMMA OneOwner ==
  ASSUME Pool, NEW c \in Ctxs, NEW j \in Cores, NEW k \in Cores, Mine(j, c), Mine(k, c)
  PROVE  j = k
<1>1. c # NULL
  BY LBAssumption
<1> QED
  BY <1>1 DEF Mine, Pool, OnePlace

-----------------------------------------------------------------------------
(* The steps.                                                               *)

LEMMA AddConnStep ==
  ASSUME Inv, NEW k \in Cores, NEW f \in Flows, NEW c \in Ctxs, AddConn(k, f, c)
  PROVE  Inv'
<1> DEFINE r0 == totalConnections[k] % RealServers
           new == [server |-> r0, ct_state |-> SW_FWD]
<1>0. /\ TypeOK /\ OnePlace(CT, ring, cache) /\ Pool /\ NULL \notin Ctxs
      /\ Callbacks /\ Reading /\ SchedulerExact /\ StatsExact
  BY LBAssumption DEF Inv, Pool
<1>1. /\ Free(k) /\ Rss[f] = k /\ CT[f] = NULL
      /\ totalConnections' = [totalConnections EXCEPT ![k] = Add(@, 1)]
      /\ flowStats' = [flowStats EXCEPT ![k][r0] = Add(@, 1)]
      /\ MempoolGet(k, c)
      /\ CT' = [CT EXCEPT ![f] = c]
      /\ ctx' = [ctx EXCEPT ![c] = new]
      /\ raced' = (raced \/ \E j \in Cores : cb[j].c = c)
      /\ queue' = queue /\ maxEntry' = maxEntry /\ cb' = cb /\ lost' = lost
  BY DEF AddConn, NewConn
<1>2. r0 \in Servers
  BY <1>0, ServerChosen
<1> HIDE DEF r0
<1>3. PICK p : /\ cache' = [cache EXCEPT ![k] = p]
               /\ Halves(p, ring')
               /\ Without(cache[k], ring, p, ring', c)
  BY <1>0, <1>1, PoolHalves, GetHalves DEF TypeOK
<1>4. TypeOK'
  <2>1. CT' \in [Flows -> Ctxs \cup {NULL}]
    BY <1>0, <1>1 DEF TypeOK
  <2>2. ctx' \in [Ctxs -> Context]
    BY <1>0, <1>1, <1>2 DEF TypeOK, Context
  <2>3. ring' \in Seq(Ctxs) /\ cache' \in [Cores -> Seq(Ctxs)]
    BY <1>0, <1>3 DEF TypeOK, Halves
  <2>4. totalConnections' \in [Cores -> 0 .. CounterMod - 1]
    <3>1. Add(totalConnections[k], 1) \in 0 .. CounterMod - 1
      BY <1>0, AddType DEF TypeOK
    <3> QED
      BY <1>0, <1>1, <3>1 DEF TypeOK
  <2>5. flowStats' \in [Cores -> [Servers -> 0 .. CounterMod - 1]]
    <3>1. Add(flowStats[k][r0], 1) \in 0 .. CounterMod - 1
      BY <1>0, <1>2, StatType
    <3> QED
      BY <1>0, <1>1, <1>2, <3>1 DEF TypeOK
  <2>6. raced' \in BOOLEAN
    BY <1>1
  <2> QED
    BY <1>0, <1>1, <2>1, <2>2, <2>3, <2>4, <2>5, <2>6 DEF TypeOK
<1>5. OnePlace(CT', ring', cache')
  BY <1>0, <1>1, <1>3, TakePlace DEF TypeOK
<1>6. Callbacks'
  BY <1>0, <1>1 DEF Callbacks
<1>7. \A g \in Flows : CT[g] # c
  BY <1>0, <1>3 DEF OnePlace, Without
<1>8. ASSUME ~ raced' PROVE ~ raced /\ \A j \in Cores : cb[j].c # c
  BY <1>1, <1>8
<1>9. /\ \A x \in Ctxs : x # c => ctx'[x] = ctx[x]
      /\ ctx'[c] = new
  BY <1>0, <1>1 DEF TypeOK
<1>10. Reading'
  <2> SUFFICES ASSUME ~ raced'
               PROVE /\ \A j \in Cores, g \in Flows : cb[j].c # NULL => CT'[g] # cb[j].c
                     /\ \A j, l \in Cores : cb[l].c # NULL /\ cb[j].c = cb[l].c => j = l
                     /\ \A j \in Cores :
                          /\ cb[j].pc = "sw" => ctx'[cb[j].c].ct_state # HW_FWD
                          /\ cb[j].pc = "hw" => ctx'[cb[j].c].ct_state = HW_FWD
    BY <1>1 DEF Reading
  <2>1. \A j \in Cores, g \in Flows : cb[j].c # NULL => CT'[g] # cb[j].c
    BY <1>0, <1>1, <1>8 DEF Reading, TypeOK
  <2>2. \A j \in Cores : cb[j].pc \in {"sw", "hw"} => ctx'[cb[j].c] = ctx[cb[j].c]
    BY <1>0, <1>8, <1>9 DEF TypeOK, Callbacks
  <2> QED
    BY <1>0, <1>8, <2>1, <2>2 DEF Reading
<1>11. \A j \in Cores, x \in Ctxs : Mine(j, x)' <=> Mine(j, x) \/ (j = k /\ x = c)
  <2>1. \A g \in Flows : CT'[g] = IF g = f THEN c ELSE CT[g]
    BY <1>0, <1>1 DEF TypeOK
  <2> QED
    BY <1>0, <1>1, <2>1 DEF Mine
<1>12. \A j \in Cores : ~ Mine(j, c)
  BY <1>7 DEF Mine
<1>13. \A j, x : Unread(j, x)' <=> Unread(j, x)
  BY <1>1 DEF Unread
<1>14. SchedulerExact'
  <2>1. ASSUME ~ raced', NEW j \in Cores, NEW s \in {FLOW_QOS, HW_FWD}
        PROVE  InState(j, s)' = InState(j, s)
    <3>1. InState(j, s)' = {x \in Ctxs : ctx'[x].ct_state = s /\ (Mine(j, x)' \/ Unread(j, x)')}
      BY SetsNext
    <3>2. ctx'[c].ct_state # s
      BY <1>9 DEF SW_FWD, FLOW_QOS, HW_FWD
    <3>3. ~ Mine(j, c) /\ ~ Unread(j, c)
      BY <1>8, <1>12, <2>1 DEF Unread
    <3>4. \A x \in Ctxs : ctx'[x].ct_state = s /\ (Mine(j, x)' \/ Unread(j, x)')
                            <=> ctx[x].ct_state = s /\ (Mine(j, x) \/ Unread(j, x))
      BY <1>9, <1>11, <1>13, <3>2, <3>3
    <3> QED
      BY <3>1, <3>4, Sets
  <2> QED
    BY <1>0, <1>1, <1>8, <2>1, Unmoved
<1>15. StatsExact'
  <2> SUFFICES ASSUME ~ raced', ~ lost', NEW j \in Cores, NEW r \in Servers
               PROVE  flowStats'[j][r] = Cardinality(Alive(j, r)') % CounterMod
    BY DEF StatsExact
  <2>0. flowStats[j][r] = Cardinality(Alive(j, r)) % CounterMod
    BY <1>0, <1>1, <1>8 DEF StatsExact
  <2>1. Alive(j, r)' = {x \in Ctxs : ctx'[x].server = r /\ (Mine(j, x)' \/ cb[j].c = x)}
    BY <1>1, SetsNext
  <2>2. c \notin Alive(j, r) /\ Alive(j, r) \in SUBSET Ctxs
    BY <1>8, <1>12, Sets
  <2>3. CASE j = k /\ r = r0
    <3>1. Alive(j, r)' = Alive(j, r) \cup {c}
      BY <1>9, <1>11, <2>1, <2>3, Sets
    <3>2. flowStats'[j][r] = Add(flowStats[j][r], 1)
      BY <1>0, <1>1, <1>2, <2>3 DEF TypeOK
    <3> QED
      BY <2>0, <2>2, <3>1, <3>2, OneMore, AddOne
  <2>4. CASE ~ (j = k /\ r = r0)
    <3>1. Alive(j, r)' = Alive(j, r)
      BY <1>8, <1>9, <1>11, <1>12, <2>1, <2>4, Sets
    <3>2. flowStats'[j][r] = flowStats[j][r]
      BY <1>0, <1>1, <1>2, <2>4 DEF TypeOK
    <3> QED
      BY <2>0, <3>1, <3>2
  <2> QED
    BY <2>3, <2>4
<1> QED
  BY <1>4, <1>5, <1>6, <1>10, <1>14, <1>15 DEF Inv, Pool

(* A connection that was counted and not added changes only the counters,   *)
(* and the history variable that says so.                                   *)
LEMMA AddConnFailsStep ==
  ASSUME Inv, NEW k \in Cores, NEW f \in Flows, AddConnFails(k, f)
  PROVE  Inv'
<1> DEFINE r0 == totalConnections[k] % RealServers
<1>0. /\ TypeOK /\ OnePlace(CT, ring, cache)
      /\ Callbacks /\ Reading /\ SchedulerExact
  BY DEF Inv, Pool
<1>1. /\ totalConnections' = [totalConnections EXCEPT ![k] = Add(@, 1)]
      /\ flowStats' = [flowStats EXCEPT ![k][r0] = Add(@, 1)]
      /\ lost' = TRUE
      /\ UNCHANGED <<CT, ctx, ring, cache, queue, maxEntry, cb, raced>>
  BY DEF AddConnFails, NewConn
<1>2. r0 \in Servers
  BY <1>0, ServerChosen
<1> HIDE DEF r0
<1>3. TypeOK'
  <2>1. Add(totalConnections[k], 1) \in 0 .. CounterMod - 1
        /\ Add(flowStats[k][r0], 1) \in 0 .. CounterMod - 1
    BY <1>0, <1>2, StatType
  <2>2. totalConnections' \in [Cores -> 0 .. CounterMod - 1]
    BY <1>0, <1>1, <2>1 DEF TypeOK
  <2>3. flowStats' \in [Cores -> [Servers -> 0 .. CounterMod - 1]]
    BY <1>0, <1>1, <1>2, <2>1 DEF TypeOK
  <2> QED
    BY <1>0, <1>1, <2>2, <2>3 DEF TypeOK
<1>4. OnePlace(CT', ring', cache')
  BY <1>0, <1>1
<1>5. Callbacks' /\ Reading'
  BY <1>0, <1>1 DEF Callbacks, Reading
<1>6. SchedulerExact'
  <2>1. \A j \in Cores, s \in {FLOW_QOS, HW_FWD} : InState(j, s)' = InState(j, s)
    BY <1>1 DEF InState
  <2> QED
    BY <1>0, <1>1, <2>1, Unmoved
<1>7. StatsExact'
  BY <1>1 DEF StatsExact
<1> QED
  BY <1>3, <1>4, <1>5, <1>6, <1>7 DEF Inv, Pool

LEMMA NoArpStep ==
  ASSUME Inv, NEW k \in Cores, NEW f \in Flows, NoArp(k, f)
  PROVE  Inv'
<1>0. /\ TypeOK /\ OnePlace(CT, ring, cache)
      /\ Callbacks /\ Reading /\ SchedulerExact /\ StatsExact
  BY DEF Inv, Pool
<1>1. /\ totalConnections' = [totalConnections EXCEPT ![k] = Add(@, 1)]
      /\ flowStats' = flowStats
      /\ UNCHANGED <<CT, ctx, ring, cache, queue, maxEntry, cb, raced, lost>>
  BY DEF NoArp, NewConn
<1>2. TypeOK'
  <2>1. Add(totalConnections[k], 1) \in 0 .. CounterMod - 1
    BY <1>0, AddType DEF TypeOK
  <2>2. totalConnections' \in [Cores -> 0 .. CounterMod - 1]
    BY <1>0, <1>1, <2>1 DEF TypeOK
  <2> QED
    BY <1>0, <1>1, <2>2 DEF TypeOK
<1>3. OnePlace(CT', ring', cache')
  BY <1>0, <1>1
<1>4. Callbacks' /\ Reading'
  BY <1>0, <1>1 DEF Callbacks, Reading
<1>5. SchedulerExact'
  <2>1. \A j \in Cores, s \in {FLOW_QOS, HW_FWD} : InState(j, s)' = InState(j, s)
    BY <1>1 DEF InState
  <2> QED
    BY <1>0, <1>1, <2>1, Unmoved
<1>6. StatsExact'
  BY <1>0, <1>1 DEF StatsExact, Alive
<1> QED
  BY <1>2, <1>3, <1>4, <1>5, <1>6 DEF Inv, Pool

(* An assignment to ct_state.                                               *)
LEMMA NewState ==
  ASSUME NEW x \in [Ctxs -> Context], NEW c \in Ctxs, NEW s \in {SW_FWD, FLOW_QOS, HW_FWD},
         NEW y, y = [x EXCEPT ![c].ct_state = s]
  PROVE  /\ y \in [Ctxs -> Context]
         /\ \A d \in Ctxs : d # c => y[d] = x[d]
         /\ y[c].ct_state = s /\ y[c].server = x[c].server
<1> DEFINE e == [x[c] EXCEPT !.ct_state = s]
<1>1. x[c] \in Context
  OBVIOUS
<1>2. e \in Context /\ e.ct_state = s /\ e.server = x[c].server
  BY <1>1 DEF Context
<1>3. y = [x EXCEPT ![c] = e]
  OBVIOUS
<1> HIDE DEF e
<1> QED
  BY <1>2, <1>3

LEMMA EnqueueStep ==
  ASSUME Inv, NEW k \in Cores, NEW f \in Flows, Enqueue(k, f)
  PROVE  Inv'
<1> DEFINE c == CT[f]
<1>0. /\ TypeOK /\ OnePlace(CT, ring, cache) /\ Pool /\ NULL \notin Ctxs
      /\ Callbacks /\ Reading /\ SchedulerExact /\ StatsExact
  BY LBAssumption DEF Inv, Pool
<1>1. /\ Free(k) /\ Rss[f] = k /\ c # NULL /\ ctx[c].ct_state = SW_FWD
      /\ ctx' = [ctx EXCEPT ![c].ct_state = FLOW_QOS]
      /\ queue' = [queue EXCEPT ![k] = @ \cup {c}]
      /\ UNCHANGED <<CT, ring, cache, maxEntry, totalConnections, flowStats, cb, raced, lost>>
  BY DEF Enqueue
<1>2. c \in Ctxs /\ Mine(k, c)
  BY <1>0, <1>1 DEF TypeOK, Mine
<1>3. \A j \in Cores : ~ raced => cb[j].c # c
  BY <1>0, <1>1 DEF Reading
<1> HIDE DEF c
<1>4. /\ ctx' \in [Ctxs -> Context]
      /\ \A x \in Ctxs : x # c => ctx'[x] = ctx[x]
      /\ ctx'[c].ct_state = FLOW_QOS /\ ctx'[c].server = ctx[c].server
  <2>1. ctx \in [Ctxs -> Context] /\ FLOW_QOS \in {SW_FWD, FLOW_QOS, HW_FWD}
        /\ ctx' = [ctx EXCEPT ![c].ct_state = FLOW_QOS]
    BY <1>0, <1>1 DEF TypeOK
  <2> QED
    BY <1>2, <2>1, NewState
<1>5. TypeOK'
  <2>1. queue' \in [Cores -> SUBSET Ctxs]
    BY <1>0, <1>1, <1>2 DEF TypeOK
  <2> QED
    BY <1>0, <1>1, <1>4, <2>1 DEF TypeOK
<1>6. OnePlace(CT', ring', cache')
  BY <1>0, <1>1
<1>7. Callbacks'
  BY <1>0, <1>1 DEF Callbacks
<1>8. Reading'
  <2>1. \A j \in Cores : ~ raced /\ cb[j].pc \in {"sw", "hw"} => ctx'[cb[j].c] = ctx[cb[j].c]
    BY <1>0, <1>3, <1>4 DEF TypeOK, Callbacks
  <2> QED
    BY <1>0, <1>1, <2>1 DEF Reading
<1>9. \A j, x : /\ Mine(j, x)' <=> Mine(j, x)
                /\ Unread(j, x)' <=> Unread(j, x)
  BY <1>1 DEF Mine, Unread
<1>10. SchedulerExact'
  <2> SUFFICES ASSUME ~ raced, NEW j \in Cores
               PROVE  /\ queue'[j] = InState(j, FLOW_QOS)'
                      /\ maxEntry[j] + Cardinality(InState(j, HW_FWD)') = MaxOffloaded
    BY <1>1 DEF SchedulerExact
  <2>0. /\ queue[j] = InState(j, FLOW_QOS)
        /\ maxEntry[j] + Cardinality(InState(j, HW_FWD)) = MaxOffloaded
    BY <1>0 DEF SchedulerExact
  <2>1. ~ Unread(j, c) /\ (Mine(j, c) <=> j = k)
    BY <1>0, <1>2, <1>3, OneOwner DEF Unread
  <2>2. InState(j, HW_FWD)' = InState(j, HW_FWD)
    <3>1. ctx[c].ct_state # HW_FWD /\ ctx'[c].ct_state # HW_FWD
      BY <1>1, <1>4 DEF SW_FWD, FLOW_QOS, HW_FWD
    <3>2. \A x \in Ctxs : ctx'[x].ct_state = HW_FWD <=> ctx[x].ct_state = HW_FWD
      BY <1>4, <3>1
    <3> QED
      BY <1>9, <3>2, Sets, SetsNext
  <2>3. InState(j, FLOW_QOS)' = IF j = k THEN InState(j, FLOW_QOS) \cup {c} ELSE InState(j, FLOW_QOS)
    <3>1. \A x \in Ctxs : ctx'[x].ct_state = FLOW_QOS <=> x = c \/ ctx[x].ct_state = FLOW_QOS
      BY <1>4
    <3>2. InState(j, FLOW_QOS)' =
            {x \in Ctxs : /\ x = c \/ ctx[x].ct_state = FLOW_QOS
                          /\ Mine(j, x) \/ Unread(j, x)}
      BY <1>9, <3>1, SetsNext
    <3> QED
      BY <1>2, <2>1, <3>2, Sets
  <2>4. queue'[j] = IF j = k THEN queue[j] \cup {c} ELSE queue[j]
    BY <1>0, <1>1 DEF TypeOK
  <2> QED
    BY <2>0, <2>2, <2>3, <2>4
<1>11. StatsExact'
  <2>1. \A x \in Ctxs : ctx'[x].server = ctx[x].server
    BY <1>4
  <2>2. \A j, r : Alive(j, r)' = Alive(j, r)
    BY <1>1, <1>9, <2>1, Sets, SetsNext
  <2> QED
    BY <1>0, <1>1, <2>2, Uncounted
<1> QED
  BY <1>5, <1>6, <1>7, <1>8, <1>10, <1>11 DEF Inv, Pool

LEMMA OffloadStep ==
  ASSUME Inv, NEW k \in Cores, NEW c \in Ctxs, Offload(k, c)
  PROVE  Inv'
<1>0. /\ TypeOK /\ OnePlace(CT, ring, cache) /\ Pool /\ NULL \notin Ctxs
      /\ Callbacks /\ Reading /\ SchedulerExact /\ StatsExact
      /\ MaxOffloaded \in Nat
  BY LBAssumption DEF Inv, Pool
<1>1. /\ Free(k) /\ c \in queue[k] /\ maxEntry[k] > 0
      /\ ctx' = [ctx EXCEPT ![c].ct_state = HW_FWD]
      /\ queue' = [queue EXCEPT ![k] = @ \ {c}]
      /\ maxEntry' = [maxEntry EXCEPT ![k] = @ - 1]
      /\ UNCHANGED <<CT, ring, cache, totalConnections, flowStats, cb, raced, lost>>
  BY DEF Offload
<1>2. ~ raced => Mine(k, c) /\ ctx[c].ct_state = FLOW_QOS
  <2>1. ~ Unread(k, c)
    BY <1>1 DEF Free, Unread
  <2>2. ~ raced => c \in InState(k, FLOW_QOS)
    BY <1>0, <1>1 DEF SchedulerExact
  <2> QED
    BY <2>1, <2>2, Sets
<1>3. \A j \in Cores : ~ raced => cb[j].c # c
  BY <1>0, <1>2 DEF Reading, Mine
<1>4. /\ ctx' \in [Ctxs -> Context]
      /\ \A x \in Ctxs : x # c => ctx'[x] = ctx[x]
      /\ ctx'[c].ct_state = HW_FWD /\ ctx'[c].server = ctx[c].server
  <2>1. ctx \in [Ctxs -> Context] /\ HW_FWD \in {SW_FWD, FLOW_QOS, HW_FWD}
        /\ ctx' = [ctx EXCEPT ![c].ct_state = HW_FWD]
    BY <1>0, <1>1 DEF TypeOK
  <2> QED
    BY <2>1, NewState
<1>5. TypeOK'
  <2>1. queue' \in [Cores -> SUBSET Ctxs]
    BY <1>0, <1>1 DEF TypeOK
  <2>2. maxEntry' \in [Cores -> 0 .. MaxOffloaded]
    BY <1>0, <1>1 DEF TypeOK
  <2> QED
    BY <1>0, <1>1, <1>4, <2>1, <2>2 DEF TypeOK
<1>6. OnePlace(CT', ring', cache')
  BY <1>0, <1>1
<1>7. Callbacks'
  BY <1>0, <1>1 DEF Callbacks
<1>8. Reading'
  <2>1. \A j \in Cores : ~ raced /\ cb[j].pc \in {"sw", "hw"} => ctx'[cb[j].c] = ctx[cb[j].c]
    BY <1>0, <1>3, <1>4 DEF TypeOK, Callbacks
  <2> QED
    BY <1>0, <1>1, <2>1 DEF Reading
<1>9. \A j, x : /\ Mine(j, x)' <=> Mine(j, x)
                /\ Unread(j, x)' <=> Unread(j, x)
  BY <1>1 DEF Mine, Unread
<1>10. SchedulerExact'
  <2> SUFFICES ASSUME ~ raced, NEW j \in Cores
               PROVE  /\ queue'[j] = InState(j, FLOW_QOS)'
                      /\ maxEntry'[j] + Cardinality(InState(j, HW_FWD)') = MaxOffloaded
    BY <1>1 DEF SchedulerExact
  <2>0. /\ queue[j] = InState(j, FLOW_QOS)
        /\ maxEntry[j] + Cardinality(InState(j, HW_FWD)) = MaxOffloaded
        /\ maxEntry[j] \in Nat
    BY <1>0 DEF SchedulerExact, TypeOK
  <2>1. ~ Unread(j, c) /\ (Mine(j, c) <=> j = k) /\ ctx[c].ct_state = FLOW_QOS
    BY <1>0, <1>2, <1>3, OneOwner DEF Unread
  <2>2. \A x \in Ctxs :
          /\ ctx'[x].ct_state = HW_FWD <=> x = c \/ ctx[x].ct_state = HW_FWD
          /\ ctx'[x].ct_state = FLOW_QOS <=> x # c /\ ctx[x].ct_state = FLOW_QOS
    BY <1>4, <2>1 DEF FLOW_QOS, HW_FWD
  <2>3. InState(j, FLOW_QOS)' =
          {x \in Ctxs : /\ x # c /\ ctx[x].ct_state = FLOW_QOS
                        /\ Mine(j, x) \/ Unread(j, x)}
    BY <1>9, <2>2, SetsNext
  <2>4. InState(j, HW_FWD)' =
          {x \in Ctxs : /\ x = c \/ ctx[x].ct_state = HW_FWD
                        /\ Mine(j, x) \/ Unread(j, x)}
    BY <1>9, <2>2, SetsNext
  <2>5. CASE j = k
    <3>1. InState(j, FLOW_QOS)' = InState(j, FLOW_QOS) \ {c}
      BY <2>3, Sets
    <3>2. InState(j, HW_FWD)' = InState(j, HW_FWD) \cup {c}
      BY <2>1, <2>4, <2>5, Sets
    <3>3. c \notin InState(j, HW_FWD) /\ InState(j, HW_FWD) \in SUBSET Ctxs
      BY <2>1, Sets DEF FLOW_QOS, HW_FWD
    <3>4. queue'[j] = queue[j] \ {c} /\ maxEntry'[j] = maxEntry[j] - 1
      BY <1>0, <1>1, <2>5 DEF TypeOK
    <3>5. /\ Cardinality(InState(j, HW_FWD)) \in Nat
          /\ Cardinality(InState(j, HW_FWD)') = Cardinality(InState(j, HW_FWD)) + 1
      BY <3>2, <3>3, OneMore
    <3> QED
      BY <1>0, <2>0, <3>1, <3>4, <3>5
  <2>6. CASE j # k
    <3>1. InState(j, FLOW_QOS)' = InState(j, FLOW_QOS)
      BY <2>1, <2>3, <2>6, Sets
    <3>2. InState(j, HW_FWD)' = InState(j, HW_FWD)
      BY <2>1, <2>4, <2>6, Sets
    <3>3. queue'[j] = queue[j] /\ maxEntry'[j] = maxEntry[j]
      BY <1>0, <1>1, <2>6 DEF TypeOK
    <3> QED
      BY <2>0, <3>1, <3>2, <3>3
  <2> QED
    BY <2>5, <2>6
<1>11. StatsExact'
  <2>1. \A x \in Ctxs : ctx'[x].server = ctx[x].server
    BY <1>4
  <2>2. \A j, r : Alive(j, r)' = Alive(j, r)
    BY <1>1, <1>9, <2>1, Sets, SetsNext
  <2> QED
    BY <1>0, <1>1, <2>2, Uncounted
<1> QED
  BY <1>5, <1>6, <1>7, <1>8, <1>10, <1>11 DEF Inv, Pool

(* A connection leaves the table for the callback: neither the scheduler    *)
(* nor the counters see a difference yet.                                   *)
LEMMA ExpireStep ==
  ASSUME Inv, NEW k \in Cores, NEW f \in Flows, Expire(k, f)
  PROVE  Inv'
<1> DEFINE c == CT[f]
<1>0. /\ TypeOK /\ OnePlace(CT, ring, cache) /\ Pool /\ NULL \notin Ctxs
      /\ Callbacks /\ Reading /\ SchedulerExact /\ StatsExact
  BY LBAssumption DEF Inv, Pool
<1>1. /\ Free(k) /\ Rss[f] = k /\ c # NULL
      /\ CT' = [CT EXCEPT ![f] = NULL]
      /\ MempoolPut(k, c)
      /\ cb' = [cb EXCEPT ![k] = [c |-> CT[f], pc |-> Callback(CT[f])]]
      /\ UNCHANGED <<ctx, queue, maxEntry, totalConnections, flowStats, raced, lost>>
  BY DEF Expire
<1>2. c \in Ctxs /\ Mine(k, c)
  BY <1>0, <1>1 DEF TypeOK, Mine
<1>3. \A j \in Cores : ~ raced => cb[j].c # c
  BY <1>0, <1>1 DEF Reading
<1>4. ~ Has(cache[k], c) /\ ~ Has(ring, c)
  BY <1>0, <1>1 DEF OnePlace
<1>5. CT[f] = c
  OBVIOUS
<1> HIDE DEF c
<1>6. PICK p : /\ cache' = [cache EXCEPT ![k] = p]
               /\ Halves(p, ring')
               /\ Without(p, ring', cache[k], ring, c)
  BY <1>0, <1>1, <1>2, <1>4, PoolHalves, PutHalves DEF TypeOK
<1>7. Callback(c) \in {"sw", "hw"} /\ (Callback(c) = "hw" <=> ctx[c].ct_state = HW_FWD)
  BY DEF Callback
<1>8. /\ \A j \in Cores : cb'[j] = IF j = k THEN [c |-> c, pc |-> Callback(c)] ELSE cb[j]
      /\ \A g \in Flows : CT'[g] = IF g = f THEN NULL ELSE CT[g]
  BY <1>0, <1>1, <1>5 DEF TypeOK
<1>9. TypeOK'
  <2>1. CT' \in [Flows -> Ctxs \cup {NULL}]
    BY <1>0, <1>1 DEF TypeOK
  <2>2. ring' \in Seq(Ctxs) /\ cache' \in [Cores -> Seq(Ctxs)]
    BY <1>0, <1>6 DEF TypeOK, Halves
  <2>3. cb' \in [Cores -> [c : Ctxs \cup {NULL}, pc : {"none", "sw", "hw", "aging"}]]
    BY <1>0, <1>1, <1>2, <1>5, <1>7 DEF TypeOK
  <2> QED
    BY <1>0, <1>1, <2>1, <2>2, <2>3 DEF TypeOK
<1>10. OnePlace(CT', ring', cache')
  BY <1>0, <1>1, <1>2, <1>5, <1>6, GivePlace DEF TypeOK
<1>11. Callbacks'
  BY <1>0, <1>1, <1>7, <1>8 DEF Callbacks
<1>12. \A g \in Flows : CT'[g] # c
  BY <1>0, <1>1, <1>5, <1>8 DEF OnePlace
<1>13. Reading'
  <2> SUFFICES ASSUME ~ raced
               PROVE /\ \A j \in Cores, g \in Flows : cb'[j].c # NULL => CT'[g] # cb'[j].c
                     /\ \A j, l \in Cores : cb'[l].c # NULL /\ cb'[j].c = cb'[l].c => j = l
                     /\ \A j \in Cores :
                          /\ cb'[j].pc = "sw" => ctx[cb'[j].c].ct_state # HW_FWD
                          /\ cb'[j].pc = "hw" => ctx[cb'[j].c].ct_state = HW_FWD
    BY <1>1 DEF Reading
  <2>1. \A j \in Cores, g \in Flows : cb'[j].c # NULL => CT'[g] # cb'[j].c
    BY <1>0, <1>8, <1>12 DEF Reading
  <2>2. \A j, l \in Cores : cb'[l].c # NULL /\ cb'[j].c = cb'[l].c => j = l
    BY <1>0, <1>3, <1>8 DEF Reading
  <2>3. \A j \in Cores : /\ cb'[j].pc = "sw" => ctx[cb'[j].c].ct_state # HW_FWD
                         /\ cb'[j].pc = "hw" => ctx[cb'[j].c].ct_state = HW_FWD
    BY <1>0, <1>7, <1>8 DEF Reading
  <2> QED
    BY <2>1, <2>2, <2>3
<1>14. \A j \in Cores, x \in Ctxs : Mine(j, x)' <=> Mine(j, x) /\ x # c
  BY <1>0, <1>8, <1>12, <1>5 DEF Mine
<1>15. /\ \A j \in Cores, x \in Ctxs : j # k => (Unread(j, x)' <=> Unread(j, x))
       /\ \A x \in Ctxs : Unread(k, x)' <=> x = c
       /\ \A x \in Ctxs : cb[k].c # x /\ ~ Unread(k, x)
  BY <1>0, <1>1, <1>7, <1>8 DEF Unread, Free, Callbacks
<1>16. \A j \in Cores : Mine(j, c) => j = k
  BY <1>0, <1>2, OneOwner
<1>17. SchedulerExact'
  <2>1. \A j \in Cores, x \in Ctxs :
          Mine(j, x)' \/ Unread(j, x)' <=> Mine(j, x) \/ Unread(j, x)
    BY <1>2, <1>14, <1>15, <1>16
  <2>2. \A j \in Cores, s \in {FLOW_QOS, HW_FWD} : InState(j, s)' = InState(j, s)
    BY <1>1, <2>1, Sets, SetsNext
  <2> QED
    BY <1>0, <1>1, <2>2, Unmoved
<1>18. StatsExact'
  <2>1. \A j \in Cores, x \in Ctxs :
          Mine(j, x)' \/ cb'[j].c = x <=> Mine(j, x) \/ cb[j].c = x
    BY <1>2, <1>8, <1>14, <1>15, <1>16
  <2>2. \A j \in Cores, r \in Servers : Alive(j, r)' = Alive(j, r)
    <3>1. \A x \in Ctxs : ctx'[x].server = ctx[x].server
      BY <1>1
    <3> QED
      BY <2>1, <3>1, Sets, SetsNext
  <2> QED
    BY <1>0, <1>1, <2>2, Uncounted
<1> QED
  BY <1>9, <1>10, <1>11, <1>13, <1>17, <1>18 DEF Inv, Pool

(* The first half of a callback.                                            *)
LEMMA ReadStateStep ==
  ASSUME Inv, NEW k \in Cores, ReadState(k)
  PROVE  Inv'
<1> DEFINE c == cb[k].c
<1>0. /\ TypeOK /\ OnePlace(CT, ring, cache) /\ NULL \notin Ctxs
      /\ Callbacks /\ Reading /\ SchedulerExact /\ StatsExact
      /\ MaxOffloaded \in Nat
  BY LBAssumption DEF Inv, Pool
<1>1. /\ \/ cb[k].pc = "sw" /\ SwDequeue(k, c) /\ maxEntry' = maxEntry
         \/ cb[k].pc = "hw" /\ HwReturn(k, c) /\ queue' = queue
      /\ cb' = [cb EXCEPT ![k].pc = "aging"]
      /\ UNCHANGED <<CT, ctx, ring, cache, totalConnections, flowStats, raced, lost>>
  BY DEF ReadState
<1>2. c \in Ctxs
  BY <1>0, <1>1 DEF TypeOK, Callbacks
<1>3. /\ cb' \in [Cores -> [c : Ctxs \cup {NULL}, pc : {"none", "sw", "hw", "aging"}]]
      /\ \A j \in Cores : cb'[j].c = cb[j].c
      /\ \A j \in Cores : j # k => cb'[j].pc = cb[j].pc
      /\ cb'[k].pc = "aging"
  BY <1>0, <1>1 DEF TypeOK
<1>4. TypeOK'
  <2>1. queue' \in [Cores -> SUBSET Ctxs]
    <3>1. queue \in [Cores -> SUBSET Ctxs]
      BY <1>0 DEF TypeOK
    <3>2. queue' = queue \/ queue' = [queue EXCEPT ![k] = @ \ {c}]
      BY <1>1 DEF SwDequeue
    <3> HIDE DEF c
    <3> QED
      BY <3>1, <3>2
  <2>2. maxEntry' \in [Cores -> 0 .. MaxOffloaded]
    BY <1>0, <1>1 DEF TypeOK, HwReturn
  <2> QED
    BY <1>0, <1>1, <1>3, <2>1, <2>2 DEF TypeOK
<1>5. OnePlace(CT', ring', cache')
  BY <1>0, <1>1
<1>6. Callbacks'
  BY <1>0, <1>1, <1>3 DEF Callbacks
<1>7. Reading'
  <2> SUFFICES ASSUME ~ raced
               PROVE /\ \A j \in Cores, g \in Flows : cb'[j].c # NULL => CT[g] # cb'[j].c
                     /\ \A j, l \in Cores : cb'[l].c # NULL /\ cb'[j].c = cb'[l].c => j = l
                     /\ \A j \in Cores :
                          /\ cb'[j].pc = "sw" => ctx[cb'[j].c].ct_state # HW_FWD
                          /\ cb'[j].pc = "hw" => ctx[cb'[j].c].ct_state = HW_FWD
    BY <1>1 DEF Reading
  <2> QED
    BY <1>0, <1>3 DEF Reading
<1>8. \A j, x : Mine(j, x)' <=> Mine(j, x)
  BY <1>1 DEF Mine
<1>9. /\ \A j \in Cores, x \in Ctxs : j # k => (Unread(j, x)' <=> Unread(j, x))
      /\ \A x \in Ctxs : ~ Unread(k, x)' /\ (Unread(k, x) <=> x = c)
  BY <1>1, <1>3 DEF Unread
<1>10. SchedulerExact'
  <2> SUFFICES ASSUME ~ raced, NEW j \in Cores
               PROVE  /\ queue'[j] = InState(j, FLOW_QOS)'
                      /\ maxEntry'[j] + Cardinality(InState(j, HW_FWD)') = MaxOffloaded
    BY <1>1 DEF SchedulerExact
  <2>0. /\ queue[j] = InState(j, FLOW_QOS)
        /\ maxEntry[j] + Cardinality(InState(j, HW_FWD)) = MaxOffloaded
        /\ maxEntry[j] \in Nat
    BY <1>0 DEF SchedulerExact, TypeOK
  <2>1. CASE j # k
    <3>1. \A s : InState(j, s)' = InState(j, s)
      BY <1>1, <1>8, <1>9, <2>1, Sets, SetsNext
    <3>2. queue'[j] = queue[j] /\ maxEntry'[j] = maxEntry[j]
      BY <1>0, <1>1, <2>1 DEF TypeOK, SwDequeue, HwReturn
    <3> QED
      BY <2>0, <3>1, <3>2
  <2>2. CASE j = k
    <3>1. ~ Mine(k, c)
      BY <1>0, <1>2 DEF Reading, Mine
    <3>2. \A s : InState(k, s)' = InState(k, s) \ {c}
      BY <1>1, <1>8, <1>9, <3>1, Sets, SetsNext
    <3>3. \A s : c \in InState(k, s) <=> ctx[c].ct_state = s
      BY <1>2, <1>9, Sets
    <3> HIDE DEF c
    <3>4. CASE cb[k].pc = "sw" /\ SwDequeue(k, c) /\ maxEntry' = maxEntry
      <4>1. ctx[c].ct_state # HW_FWD
        BY <1>0, <3>4 DEF Reading, c
      <4>2. InState(k, HW_FWD)' = InState(k, HW_FWD)
        BY <3>2, <3>3, <4>1
      <4>3. queue'[k] = queue[k] \ {c}
        <5>1. CASE ctx[c].ct_state = FLOW_QOS
          BY <1>0, <3>4, <5>1 DEF TypeOK, SwDequeue
        <5>2. CASE ctx[c].ct_state # FLOW_QOS
          <6>1. c \notin queue[k] /\ queue' = queue
            BY <2>0, <2>2, <3>3, <3>4, <5>2 DEF SwDequeue
          <6> QED
            BY <6>1
        <5> QED
          BY <5>1, <5>2
      <4> QED
        BY <2>0, <2>2, <3>2, <3>4, <4>2, <4>3
    <3>5. CASE cb[k].pc = "hw" /\ HwReturn(k, c) /\ queue' = queue
      <4>1. ctx[c].ct_state = HW_FWD
        BY <1>0, <3>5 DEF Reading, c
      <4>2. InState(k, FLOW_QOS)' = InState(k, FLOW_QOS)
        BY <3>2, <3>3, <4>1 DEF FLOW_QOS, HW_FWD
      <4>3. c \in InState(k, HW_FWD) /\ InState(k, HW_FWD) \in SUBSET Ctxs
        BY <3>3, <4>1, Sets
      <4>4. /\ Cardinality(InState(k, HW_FWD)) \in Nat \ {0}
            /\ Cardinality(InState(k, HW_FWD)') = Cardinality(InState(k, HW_FWD)) - 1
        BY <3>2, <4>3, OneLess
      <4>5. maxEntry[k] < MaxOffloaded
        BY <1>0, <2>0, <2>2, <4>4
      <4>6. maxEntry'[k] = maxEntry[k] + 1
        BY <1>0, <3>5, <4>1, <4>5 DEF HwReturn, TypeOK
      <4> QED
        BY <1>0, <2>0, <2>2, <3>5, <4>2, <4>4, <4>6
    <3> QED
      BY <1>1, <3>4, <3>5 DEF c
  <2> QED
    BY <2>1, <2>2
<1>11. StatsExact'
  <2>1. \A j \in Cores, r \in Servers : Alive(j, r)' = Alive(j, r)
    <3>1. \A x \in Ctxs : ctx'[x].server = ctx[x].server
      BY <1>1
    <3> QED
      BY <1>3, <1>8, <3>1, Sets, SetsNext
  <2> QED
    BY <1>0, <1>1, <2>1, Uncounted
<1> QED
  BY <1>4, <1>5, <1>6, <1>7, <1>10, <1>11 DEF Inv, Pool

(* The second half.                                                         *)
LEMMA AgingConnStep ==
  ASSUME Inv, NEW k \in Cores, AgingConn(k)
  PROVE  Inv'
<1> DEFINE c == cb[k].c
           r0 == ctx[c].server
<1>0. /\ TypeOK /\ OnePlace(CT, ring, cache) /\ NULL \notin Ctxs
      /\ Callbacks /\ Reading /\ SchedulerExact /\ StatsExact
  BY LBAssumption DEF Inv, Pool
<1>1. /\ cb[k].pc = "aging"
      /\ flowStats' = [flowStats EXCEPT ![k][r0] = Add(@, -1)]
      /\ cb' = [cb EXCEPT ![k] = NoCb]
      /\ UNCHANGED <<CT, ctx, ring, cache, queue, maxEntry, totalConnections, raced, lost>>
  BY DEF AgingConn
<1>2. c \in Ctxs
  BY <1>0, <1>1 DEF TypeOK, Callbacks
<1>3. r0 \in Servers
  BY <1>0, <1>2 DEF TypeOK, Context
<1> HIDE DEF c, r0
<1>4. /\ cb' \in [Cores -> [c : Ctxs \cup {NULL}, pc : {"none", "sw", "hw", "aging"}]]
      /\ \A j \in Cores : j # k => cb'[j] = cb[j]
      /\ cb'[k].c = NULL /\ cb'[k].pc = "none"
  BY <1>0, <1>1 DEF TypeOK, NoCb
<1>5. TypeOK'
  <2>1. Add(flowStats[k][r0], -1) \in 0 .. CounterMod - 1
    BY <1>0, <1>3, StatType
  <2>2. flowStats' \in [Cores -> [Servers -> 0 .. CounterMod - 1]]
    BY <1>0, <1>1, <1>3, <2>1 DEF TypeOK
  <2> QED
    BY <1>0, <1>1, <1>4, <2>2 DEF TypeOK
<1>6. OnePlace(CT', ring', cache')
  BY <1>0, <1>1
<1>7. Callbacks'
  BY <1>0, <1>4 DEF Callbacks
<1>8. Reading'
  <2> SUFFICES ASSUME ~ raced
               PROVE /\ \A j \in Cores, g \in Flows : cb'[j].c # NULL => CT[g] # cb'[j].c
                     /\ \A j, l \in Cores : cb'[l].c # NULL /\ cb'[j].c = cb'[l].c => j = l
                     /\ \A j \in Cores :
                          /\ cb'[j].pc = "sw" => ctx[cb'[j].c].ct_state # HW_FWD
                          /\ cb'[j].pc = "hw" => ctx[cb'[j].c].ct_state = HW_FWD
    BY <1>1 DEF Reading
  <2>1. \A j \in Cores : cb'[j].c # NULL => j # k
    BY <1>4
  <2> QED
    BY <1>0, <1>4, <2>1 DEF Reading
<1>9. \A j, x : Mine(j, x)' <=> Mine(j, x)
  BY <1>1 DEF Mine
<1>10. \A j \in Cores, x \in Ctxs : Unread(j, x)' <=> Unread(j, x)
  BY <1>1, <1>4 DEF Unread
<1>11. SchedulerExact'
  <2>1. \A j \in Cores, s \in {FLOW_QOS, HW_FWD} : InState(j, s)' = InState(j, s)
    BY <1>1, <1>9, <1>10, Sets, SetsNext
  <2> QED
    BY <1>0, <1>1, <2>1, Unmoved
<1>12. StatsExact'
  <2> SUFFICES ASSUME ~ raced, ~ lost, NEW j \in Cores, NEW r \in Servers
               PROVE  flowStats'[j][r] = Cardinality(Alive(j, r)') % CounterMod
    BY <1>1 DEF StatsExact
  <2>0. flowStats[j][r] = Cardinality(Alive(j, r)) % CounterMod
    BY <1>0 DEF StatsExact
  <2>1. ~ Mine(k, c)
    BY <1>0, <1>2 DEF Reading, Mine, c
  <2>2. Alive(j, r)' = {x \in Ctxs : ctx[x].server = r /\ (Mine(j, x) \/ cb'[j].c = x)}
    BY <1>1, <1>9, SetsNext
  <2>3. Alive(j, r) = {x \in Ctxs : ctx[x].server = r /\ (Mine(j, x) \/ cb[j].c = x)}
    BY Sets
  <2>4. CASE j = k /\ r = r0
    <3>1. c \in Alive(j, r) /\ Alive(j, r) \in SUBSET Ctxs
      BY <1>2, <2>3, <2>4 DEF c, r0
    <3>2. Alive(j, r)' = Alive(j, r) \ {c}
      BY <1>0, <1>4, <2>1, <2>2, <2>3, <2>4 DEF c
    <3>3. flowStats'[j][r] = Add(flowStats[j][r], -1)
      BY <1>0, <1>1, <1>3, <2>4 DEF TypeOK
    <3>4. /\ Cardinality(Alive(j, r)) \in Nat \ {0}
          /\ Cardinality(Alive(j, r)') = Cardinality(Alive(j, r)) - 1
      BY <3>1, <3>2, OneLess
    <3> QED
      BY <2>0, <3>3, <3>4, SubtractOne
  <2>5. CASE j = k /\ r # r0
    <3>1. Alive(j, r)' = Alive(j, r)
      BY <1>0, <1>4, <2>2, <2>3, <2>5 DEF c, r0
    <3>2. flowStats'[j][r] = flowStats[j][r]
      BY <1>0, <1>1, <1>3, <2>5 DEF TypeOK
    <3> QED
      BY <2>0, <3>1, <3>2
  <2>6. CASE j # k
    <3>1. Alive(j, r)' = Alive(j, r)
      BY <1>4, <2>2, <2>3, <2>6
    <3>2. flowStats'[j][r] = flowStats[j][r]
      BY <1>0, <1>1, <1>3, <2>6 DEF TypeOK
    <3> QED
      BY <2>0, <3>1, <3>2
  <2> QED
    BY <2>4, <2>5, <2>6
<1> QED
  BY <1>5, <1>6, <1>7, <1>8, <1>11, <1>12 DEF Inv, Pool

-----------------------------------------------------------------------------
(* The pool starts full: as many distinct contexts in the ring as there     *)
(* are, hence all of them.                                                  *)
LEMMA InitInv ==
  ASSUME Init
  PROVE  Inv
<1> DEFINE n == Cardinality(Ctxs)
<1>0. /\ n \in Nat /\ NULL \notin Ctxs /\ IsFiniteSet(Ctxs)
      /\ CounterMod \in Nat \ {0} /\ RealServers \in Nat \ {0} /\ MaxOffloaded \in Nat
  BY LBAssumption, FS_CardinalityType
<1>1. /\ CT = [f \in Flows |-> NULL]
      /\ ctx = [c \in Ctxs |-> [server |-> 0, ct_state |-> SW_FWD]]
      /\ ring \in [1 .. n -> Ctxs]
      /\ \A i, j \in DOMAIN ring : ring[i] = ring[j] => i = j
      /\ cache = [k \in Cores |-> <<>>]
      /\ queue = [k \in Cores |-> {}]
      /\ maxEntry = [k \in Cores |-> MaxOffloaded]
      /\ totalConnections = [k \in Cores |-> 0]
      /\ flowStats = [k \in Cores |-> [r \in Servers |-> 0]]
      /\ cb = [k \in Cores |-> NoCb]
      /\ raced = FALSE /\ lost = FALSE
  BY DEF Init
<1> HIDE DEF n
<1>2. ring \in Seq(Ctxs) /\ Len(ring) = n
  BY <1>0, <1>1
<1>3. TypeOK
  <2>1. [server |-> 0, ct_state |-> SW_FWD] \in Context
    BY <1>0 DEF Context, Servers
  <2>2. 0 \in 0 .. CounterMod - 1 /\ MaxOffloaded \in 0 .. MaxOffloaded
    BY <1>0
  <2>3. NoCb \in [c : Ctxs \cup {NULL}, pc : {"none", "sw", "hw", "aging"}]
    BY DEF NoCb
  <2>4. <<>> \in Seq(Ctxs)
    OBVIOUS
  <2> QED
    BY <1>1, <1>2, <2>1, <2>2, <2>3, <2>4 DEF TypeOK
<1>4. OnePlace(CT, ring, cache)
  <2>1. ring \in Injection(1 .. n, Ctxs)
    BY <1>1 DEF Injection, IsInjective
  <2>2. Cardinality(1 .. n) = n
    <3>1. Cardinality(1 .. n) = IF 1 > n THEN 0 ELSE n - 1 + 1
      BY <1>0, FS_Interval
    <3> QED
      BY <1>0, <3>1
  <2>3. ring \in Surjection(1 .. n, Ctxs)
    BY <1>0, <2>1, <2>2, FS_Injection DEF n
  <2>4. \A c \in Ctxs : Has(ring, c)
    BY <1>2, <2>3 DEF Surjection, Has, Within
  <2>5. Distinct(ring)
    BY <1>1, <1>2 DEF Distinct
  <2>6. \A k \in Cores : cache[k] = <<>> /\ Len(cache[k]) = 0
    BY <1>1
  <2>7. \A k \in Cores : Distinct(cache[k]) /\ \A c : ~ Has(cache[k], c)
    BY <2>6 DEF Distinct, Has, Within
  <2>8. \A f \in Flows : CT[f] = NULL
    BY <1>1
  <2> QED
    BY <2>4, <2>5, <2>7, <2>8 DEF OnePlace
<1>5. \A k \in Cores : cb[k].c = NULL /\ cb[k].pc = "none"
  BY <1>1 DEF NoCb
<1>6. Callbacks /\ Reading
  BY <1>5 DEF Callbacks, Reading
<1>7. \A k \in Cores, c \in Ctxs : ~ Mine(k, c) /\ ~ Unread(k, c) /\ cb[k].c # c
  BY <1>0, <1>1, <1>5 DEF Mine, Unread
<1>8. \A k \in Cores : /\ \A s : InState(k, s) = {}
                       /\ \A r : Alive(k, r) = {}
  BY <1>7, Sets
<1>9. SchedulerExact
  <2>1. Cardinality({}) = 0
    BY FS_EmptySet
  <2> QED
    <3>1. \A k \in Cores : queue[k] = {} /\ maxEntry[k] = MaxOffloaded
      BY <1>1
    <3>2. MaxOffloaded + 0 = MaxOffloaded
      BY <1>0
    <3> QED
      BY <1>8, <2>1, <3>1, <3>2 DEF SchedulerExact
<1>10. StatsExact
  <2>1. Cardinality({}) = 0 /\ 0 % CounterMod = 0
    BY <1>0, FS_EmptySet
  <2> QED
    BY <1>1, <1>8, <2>1 DEF StatsExact
<1> QED
  BY <1>3, <1>4, <1>6, <1>9, <1>10 DEF Inv, Pool

LEMMA StepInv ==
  ASSUME Inv, [Next]_vars
  PROVE  Inv'
<1>1. CASE Next
  BY <1>1, AddConnStep, AddConnFailsStep, NoArpStep, EnqueueStep, ExpireStep,
     OffloadStep, ReadStateStep, AgingConnStep DEF Next
<1>2. CASE UNCHANGED vars
  <2>1. TypeOK' /\ OnePlace(CT', ring', cache')
    BY <1>2 DEF vars, Inv, Pool, TypeOK
  <2>2. Callbacks' /\ Reading'
    BY <1>2 DEF vars, Inv, Callbacks, Reading
  <2>3. SchedulerExact' /\ StatsExact'
    <3>1. /\ \A k, s : InState(k, s)' = InState(k, s)
          /\ \A k, r : Alive(k, r)' = Alive(k, r)
      BY <1>2 DEF vars, InState, Alive
    <3>2. SchedulerExact /\ StatsExact
      BY DEF Inv
    <3>3. /\ queue' = queue /\ maxEntry' = maxEntry /\ flowStats' = flowStats
          /\ raced' = raced /\ lost' = lost
      BY <1>2 DEF vars
    <3> QED
      BY <3>1, <3>2, <3>3, Unmoved, Uncounted
  <2> QED
    BY <2>1, <2>2, <2>3 DEF Inv, Pool
<1> QED
  BY <1>1, <1>2

LEMMA Inductive == Spec => []Inv
<1>1. Init => Inv
  BY InitInv
<1>2. Inv /\ [Next]_vars => Inv'
  BY StepInv
<1> QED
  BY <1>1, <1>2, PTL DEF Spec

(* No two cores hold the same context of CT_CTX_POOL and none is lost, for  *)
(* every number of cores and contexts, every size of the mempool's caches   *)
(* and every interleaving of connections and expiries.                      *)
THEOREM ContextSafety == Spec => []ContextsExact
<1>1. Inv => ContextsExact
  BY PlaceCount DEF Inv, Pool, ContextsExact
<1> QED
  BY <1>1, Inductive, PTL

(* The budget and the queues of flowQoS_qos.c follow the connections on     *)
(* every core as long as no callback read a context that had been reused.   *)
THEOREM SchedulerSafety == Spec => []SchedulerExact
<1>1. Inv => SchedulerExact
  BY DEF Inv
<1> QED
  BY <1>1, Inductive, PTL

(* flowStats counts the connections of every real server, modulo the width  *)
(* of the counter, as long as no callback read a reused context and the     *)
(* pool did not run out under newConn_handler.                              *)
THEOREM StatsSafety == Spec => []StatsExact
<1>1. Inv => StatsExact
  BY DEF Inv
<1> QED
  BY <1>1, Inductive, PTL
=============================================================================
