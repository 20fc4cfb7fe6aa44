------------------------- MODULE PowersOfTwo_proofs -------------------------
(***************************************************************************)
(* The two components whose indices are shifts and masks, that is division *)
(* by powers of two: the timing wheels of flowQoS_timer.c and the address  *)
(* tables of flowQoS_router.c.                                             *)
(***************************************************************************)
EXTENDS TimerWheel, Router, FiniteSetTheorems, FunctionTheorems,
        NaturalsInduction, WellFoundedInduction, TLAPS

-----------------------------------------------------------------------------
(* Arithmetic.                                                              *)

(* A nonempty set of numbers has a least element.                           *)
LEMMA LeastNumber ==
  ASSUME NEW T \in SUBSET Nat, T # {}
  PROVE  \E m \in T : \A k \in T : m <= k
<1>1. PICK x \in T : \A y \in T : ~ (<<y, x>> \in OpToRel(<, Nat))
  BY WFMin, NatLessThanWellFounded
<1>2. \A y \in T : ~ (y < x)
  BY <1>1 DEF OpToRel
<1> QED
  BY <1>2

(* A set of numbers that 0 and every successor of a member are in is all of *)
(* them.                                                                    *)
LEMMA AllNumbers ==
  ASSUME NEW P \in SUBSET Nat, 0 \in P, \A n \in P : n + 1 \in P
  PROVE  P = Nat
<1> SUFFICES ASSUME P # Nat PROVE FALSE
  OBVIOUS
<1>1. PICK m \in Nat \ P : \A k \in Nat \ P : m <= k
  BY LeastNumber
<1>2. m - 1 \in P
  BY <1>1
<1>3. m - 1 + 1 = m
  BY <1>1
<1> QED
  BY <1>1, <1>2, <1>3

LEMMA Less ==
  ASSUME NEW a \in Int, NEW b \in Int, a < b
  PROVE  \E n \in Nat : b = a + 1 + n
<1>1. b - a - 1 \in Nat /\ b = a + 1 + (b - a - 1)
  OBVIOUS
<1> QED
  BY <1>1

(* Multiplication keeps the order of numbers.                               *)
LEMMA TimesLess ==
  ASSUME NEW a \in Int, NEW b \in Int, NEW m \in Nat \ {0}, a < b
  PROVE  m * a + m <= m * b
<1>1. PICK n \in Nat : b = a + 1 + n
  BY Less
<1>2. m * b = m * a + m + m * n /\ m * n >= 0
  BY <1>1
<1>3. m * b \in Int /\ m * a \in Int /\ m * n \in Int
  OBVIOUS
<1> QED
  BY <1>2, <1>3

LEMMA DivisionType ==
  ASSUME NEW m \in Nat \ {0}, NEW a \in Nat
  PROVE  /\ a \div m \in Nat /\ a % m \in 0 .. m - 1
         /\ a = m * (a \div m) + (a % m)
  OBVIOUS

(* Quotient and remainder are the only numbers that divide a by m.          *)
LEMMA Division ==
  ASSUME NEW m \in Nat \ {0}, NEW a \in Nat, NEW q \in Int, NEW r \in Int,
         0 <= r, r < m, a = m * q + r
  PROVE  a \div m = q /\ a % m = r
<1> DEFINE d == a \div m
           e == a % m
<1>0. d \in Nat /\ e \in 0 .. m - 1 /\ a = m * d + e
  BY DivisionType
<1>1. d \in Int /\ e \in Int /\ a = m * d + e /\ 0 <= e /\ e < m
  BY <1>0
<1>2. /\ d = a \div m /\ e = a % m
      /\ m * d \in Int /\ m * q \in Int
  BY <1>1
<1> HIDE DEF d, e
<1>3. CASE d < q
  <2>1. m * d + m <= m * q
    BY <1>1, <1>3, TimesLess
  <2> QED
    BY <1>1, <1>2, <2>1
<1>4. CASE q < d
  <2>1. m * q + m <= m * d
    BY <1>1, <1>4, TimesLess
  <2> QED
    BY <1>1, <1>2, <2>1
<1>5. CASE d = q
  BY <1>1, <1>2, <1>5
<1> QED
  BY <1>1, <1>3, <1>4, <1>5

LEMMA MultipleOf ==
  ASSUME NEW m \in Nat \ {0}, NEW q \in Nat
  PROVE  (m * q) \div m = q /\ (m * q) % m = 0
<1>1. m * q = m * q + 0 /\ m * q \in Nat
  OBVIOUS
<1> QED
  BY <1>1, Division

LEMMA QuotientOrder ==
  ASSUME NEW m \in Nat \ {0}, NEW a \in Nat, NEW b \in Nat, a <= b
  PROVE  a \div m <= b \div m
<1> DEFINE x == a \div m
           y == b \div m
           r == a % m
           s == b % m
<1>1. x \in Nat /\ r \in 0 .. m - 1 /\ a = m * x + r
  BY DivisionType
<1>2. y \in Nat /\ s \in 0 .. m - 1 /\ b = m * y + s
  BY DivisionType
<1>3. m * x \in Nat /\ m * y \in Nat
  BY <1>1, <1>2
<1> HIDE DEF x, y, r, s
<1>4. ~(y < x)
  <2> SUFFICES ASSUME y < x PROVE FALSE
    OBVIOUS
  <2>1. m * y + m <= m * x
    BY <1>1, <1>2, TimesLess
  <2> QED
    BY <1>1, <1>2, <1>3, <2>1
<1>5. x <= y
  BY <1>1, <1>2, <1>4
<1> QED
  BY <1>5 DEF x, y

(* Of m consecutive numbers no two have the same remainder.                 *)
LEMMA SameRemainder ==
  ASSUME NEW m \in Nat \ {0}, NEW a \in Nat, NEW b \in Nat,
         a <= b, b < a + m, a % m = b % m
  PROVE  a = b
<1> DEFINE x == a \div m
           y == b \div m
           r == a % m
<1>1. /\ x \in Int /\ y \in Int /\ r \in Int
      /\ a = m * x + r /\ b = m * y + r
  BY DivisionType
<1>2. m * x \in Int /\ m * y \in Int
  BY <1>1
<1> HIDE DEF x, y, r
<1>3. CASE x < y
  <2>1. m * x + m <= m * y
    BY <1>1, <1>3, TimesLess
  <2> QED
    BY <1>1, <1>2, <2>1
<1>4. CASE y < x
  <2>1. m * y + m <= m * x
    BY <1>1, <1>4, TimesLess
  <2> QED
    BY <1>1, <1>2, <2>1
<1>5. CASE x = y
  BY <1>1, <1>5
<1> QED
  BY <1>1, <1>3, <1>4, <1>5

(* The remainder of a sum is that of the remainder of one part.             *)
LEMMA SumRemainder ==
  ASSUME NEW m \in Nat \ {0}, NEW x \in Nat, NEW y \in Nat
  PROVE  ((x % m) + y) % m = (x + y) % m
<1> DEFINE a == x \div m
           r == x % m
<1>1. a \in Nat /\ r \in Nat /\ x = m * a + r
  BY DivisionType
<1> HIDE DEF a, r
<1> DEFINE c == (r + y) \div m
           e == (r + y) % m
<1>2. r + y \in Nat
  BY <1>1
<1>3. c \in Nat /\ e \in 0 .. m - 1 /\ r + y = m * c + e
  BY <1>2, DivisionType
<1>4. e = (r + y) % m
  OBVIOUS
<1> HIDE DEF c, e
<1>5. x + y = m * (a + c) + e
  <2>1. m * a \in Nat /\ m * c \in Nat /\ m * (a + c) = m * a + m * c
    BY <1>1, <1>3
  <2> QED
    BY <1>1, <1>3, <2>1
<1>6. a + c \in Int /\ x + y \in Nat /\ e \in Int /\ 0 <= e /\ e < m
  BY <1>1, <1>3
<1>7. (x + y) % m = e
  BY <1>5, <1>6, Division
<1> QED
  BY <1>4, <1>7 DEF r

(* The library knows 2^n as the number of subsets of a set of n elements.   *)
LEMMA Subsets ==
  ASSUME NEW n \in Nat
  PROVE  /\ IsFiniteSet(SUBSET (1 .. n)) /\ Cardinality(SUBSET (1 .. n)) = 2^n
         /\ 2^n \in Nat
<1>1. IsFiniteSet(1 .. n) /\ Cardinality(1 .. n) = n
  BY FS_Interval
<1>2. IsFiniteSet(SUBSET (1 .. n)) /\ Cardinality(SUBSET (1 .. n)) = 2^n
  BY <1>1, FS_SUBSET
<1>3. Cardinality(SUBSET (1 .. n)) \in Nat
  BY <1>2, FS_CardinalityType
<1> QED
  BY <1>2, <1>3

(* A set with one element more has as many subsets with it as without it.   *)
LEMMA PowerStep ==
  ASSUME NEW n \in Nat
  PROVE  2^(n + 1) = 2 * 2^n
<1> DEFINE A == SUBSET (1 .. n)
           With(s) == s \cup {n + 1}
           B == {With(s) : s \in A}
           f == [s \in A |-> With(s)]
<1>1. IsFiniteSet(A) /\ Cardinality(A) = 2^n /\ 2^n \in Nat
  BY Subsets
<1>2. Cardinality(SUBSET (1 .. (n + 1))) = 2^(n + 1)
  BY Subsets
<1>3. n + 1 \notin 1 .. n
  OBVIOUS
<1>4. f \in Bijection(A, B)
  <2>1. f \in [A -> B]
    OBVIOUS
  <2>2. \A s \in A, t \in A : With(s) = With(t) => s = t
    BY <1>3
  <2>3. \A s \in A, t \in A : f[s] = f[t] => s = t
    BY <2>2
  <2>4. \A b \in B : \E s \in A : f[s] = b
    OBVIOUS
  <2> HIDE DEF A, B, f, With
  <2> QED
    BY <2>1, <2>3, <2>4 DEF Bijection, Injection, Surjection, IsInjective
<1>5. IsFiniteSet(B) /\ Cardinality(B) = 2^n
  <2> HIDE DEF A, B, f, With
  <2>1. ExistsBijection(A, B)
    BY <1>4 DEF ExistsBijection
  <2> QED
    BY <1>1, <2>1, FS_Bijection
<1>6. A \cap B = {}
  BY <1>3
<1>7. SUBSET (1 .. (n + 1)) = A \cup B
  <2>1. ASSUME NEW s \in SUBSET (1 .. (n + 1)) PROVE s \in A \cup B
    <3>1. CASE n + 1 \in s
      <4>1. s \ {n + 1} \in A /\ s = With(s \ {n + 1})
        BY <3>1
      <4> QED
        BY <4>1
    <3>2. CASE n + 1 \notin s
      <4>1. \A k \in s : k \in 1 .. n
        BY <3>2
      <4> QED
        BY <4>1
    <3> QED
      BY <3>1, <3>2
  <2>2. 1 .. n \subseteq 1 .. (n + 1) /\ n + 1 \in 1 .. (n + 1)
    OBVIOUS
  <2>3. A \subseteq SUBSET (1 .. (n + 1)) /\ B \subseteq SUBSET (1 .. (n + 1))
    BY <2>2
  <2> QED
    BY <2>1, <2>3
<1> HIDE DEF A, B, f, With
<1>8. Cardinality(A \cup B) = 2^n + 2^n - Cardinality(A \cap B)
  BY <1>1, <1>5, FS_Union
<1>9. Cardinality(A \cap B) = 0
  BY <1>6, FS_EmptySet
<1> QED
  BY <1>1, <1>2, <1>7, <1>8, <1>9

LEMMA PowerZero == 2^0 = 1
  OBVIOUS

LEMMA PowerType ==
  ASSUME NEW n \in Nat
  PROVE  2^n \in Nat \ {0}
<1> DEFINE P == {k \in Nat : 2^k > 0}
<1>1. 0 \in P
  BY PowerZero
<1>2. ASSUME NEW k \in P PROVE k + 1 \in P
  <2>1. 2^(k + 1) = 2 * 2^k /\ 2^k \in Nat /\ 2^k > 0
    BY PowerStep, Subsets
  <2> QED
    BY <2>1
<1> HIDE DEF P
<1>3. P \in SUBSET Nat
  BY DEF P
<1>4. n \in P
  BY <1>1, <1>2, <1>3, AllNumbers
<1> QED
  BY <1>4, Subsets DEF P

(* A shift by m and another one by n is one by m + n.                       *)
LEMMA PowerSum ==
  ASSUME NEW m \in Nat, NEW n \in Nat
  PROVE  2^(m + n) = 2^m * 2^n
<1> DEFINE P == {k \in Nat : 2^(m + k) = 2^m * 2^k}
<1>1. 0 \in P
  <2>1. 2^m \in Nat /\ m + 0 = m
    BY PowerType
  <2> QED
    BY <2>1, PowerZero
<1>2. ASSUME NEW k \in P PROVE k + 1 \in P
  <2>1. m + (k + 1) = (m + k) + 1 /\ m + k \in Nat /\ k \in Nat
    OBVIOUS
  <2>2. 2^(m + (k + 1)) = 2 * 2^(m + k) /\ 2^(k + 1) = 2 * 2^k
    BY <2>1, PowerStep
  <2>3. 2^m \in Nat /\ 2^k \in Nat
    BY PowerType
  <2>4. 2 * (2^m * 2^k) = 2^m * (2 * 2^k)
    BY <2>3
  <2> QED
    BY <2>2, <2>4
<1> HIDE DEF P
<1>3. P \in SUBSET Nat
  BY DEF P
<1>4. n \in P
  BY <1>1, <1>2, <1>3, AllNumbers
<1> QED
  BY <1>4 DEF P

-----------------------------------------------------------------------------
(* The timing wheels.                                                       *)

B == TIMER_BUCKET_COUNT

LEMMA BucketCount == B \in Nat \ {0}
  BY TimerWheelAssumption, PowerType DEF B, TIMER_BUCKET_COUNT

LEMMA SpanType ==
  ASSUME NEW w \in Nat
  PROVE  Span(w) \in Nat \ {0}
<1>1. TIMER_WHEEL_BITS * w \in Nat
  BY TimerWheelAssumption
<1> QED
  BY <1>1, PowerType DEF Span

LEMMA SpanZero == Span(0) = 1
<1>1. TIMER_WHEEL_BITS * 0 = 0
  BY TimerWheelAssumption
<1> QED
  BY <1>1, PowerZero DEF Span

LEMMA SpanStep ==
  ASSUME NEW w \in Nat
  PROVE  Span(w + 1) = B * Span(w)
<1> DEFINE k == TIMER_WHEEL_BITS
<1>1. k \in Nat
  BY TimerWheelAssumption
<1>2. k * (w + 1) = k + k * w /\ k * w \in Nat
  BY <1>1
<1>3. 2^(k + k * w) = 2^k * 2^(k * w)
  BY <1>1, <1>2, PowerSum
<1> QED
  BY <1>2, <1>3 DEF Span, B, TIMER_BUCKET_COUNT

(* A whole turn of wheel v fits into a bucket of any wheel above it.        *)
LEMMA SpanFactor ==
  ASSUME NEW v \in Nat, NEW w \in Nat, v < w
  PROVE  \E k \in Nat : Span(w) = Span(v) * (B * k)
<1>1. PICK n \in Nat : w = v + 1 + n
  BY Less
<1> DEFINE K == TIMER_WHEEL_BITS
           k == 2^(K * n)
<1>2. K \in Nat /\ K * v \in Nat /\ K * n \in Nat /\ K * v + K \in Nat
  BY TimerWheelAssumption
<1>3. K * w = (K * v + K) + K * n
  BY <1>1, <1>2
<1>4. 2^(K * w) = (2^(K * v) * 2^K) * 2^(K * n)
  <2>1. 2^((K * v + K) + K * n) = 2^(K * v + K) * 2^(K * n)
    BY <1>2, PowerSum
  <2>2. 2^(K * v + K) = 2^(K * v) * 2^K
    BY <1>2, PowerSum
  <2> QED
    BY <1>3, <2>1, <2>2
<1>5. 2^(K * v) \in Nat /\ 2^K \in Nat /\ 2^(K * n) \in Nat
  BY <1>2, PowerType
<1>6. 2^(K * w) = 2^(K * v) * (2^K * 2^(K * n))
  BY <1>4, <1>5
<1>7. Span(w) = Span(v) * (B * k) /\ k \in Nat
  BY <1>5, <1>6 DEF Span, B, TIMER_BUCKET_COUNT
<1> QED
  BY <1>7

LEMMA MaxTimeout ==
  TIMER_MAX_TIMEOUT \in Nat /\ TIMER_MAX_TIMEOUT + 1 = Span(TIMER_WHEEL_COUNT)
<1>1. TIMER_WHEEL_COUNT * TIMER_WHEEL_BITS = TIMER_WHEEL_BITS * TIMER_WHEEL_COUNT
  BY TimerWheelAssumption
<1>2. Span(TIMER_WHEEL_COUNT) \in Nat \ {0}
  BY TimerWheelAssumption, SpanType
<1> QED
  BY <1>1, <1>2 DEF TIMER_MAX_TIMEOUT, Span

(* The loop of timer_start ends within the wheels.                          *)
LEMMA WheelOfFacts ==
  ASSUME NEW T \in Nat, T <= TIMER_MAX_TIMEOUT
  PROVE  LET w == WheelOf(T)
         IN w \in Wheels /\ T < Span(w + 1) /\ (w = 0 \/ T >= Span(w))
<1> DEFINE P == {k \in Nat : T < Span(k + 1)}
           last == TIMER_WHEEL_COUNT - 1
<1>1. last \in Nat /\ last + 1 = TIMER_WHEEL_COUNT /\ TIMER_WHEEL_COUNT \in Nat
  BY TimerWheelAssumption
<1>2. T < Span(TIMER_WHEEL_COUNT)
  BY <1>1, MaxTimeout, SpanType
<1>3. last \in P
  BY <1>1, <1>2
<1>4. PICK w \in P : \A k \in P : w <= k
  BY <1>3, LeastNumber
<1>5. w \in Wheels
  BY <1>1, <1>3, <1>4 DEF Wheels
<1>6. w = 0 \/ T >= Span(w)
  <2> SUFFICES ASSUME w # 0, ~(T >= Span(w)) PROVE FALSE
    OBVIOUS
  <2>1. w - 1 \in Nat /\ w - 1 + 1 = w /\ Span(w) \in Nat
    BY SpanType
  <2>2. w - 1 \in P
    BY <2>1
  <2> QED
    BY <1>4, <2>2
<1> HIDE DEF last
<1>7. \E x \in Wheels : T < Span(x + 1) /\ (x = 0 \/ T >= Span(x))
  BY <1>4, <1>5, <1>6
<1> QED
  BY <1>7 DEF WheelOf

(* A timer due at tick d may stand in bucket k of wheel w at tick n: the    *)
(* bucket is reached, at the multiple q of its span, in this turn of the    *)
(* wheel and not after d; on wheel 0 just at d.                             *)
Standing(w, k, d, n) ==
  \E q \in Nat :
    /\ q % B = k
    /\ n <= Span(w) * q /\ Span(w) * q <= d
    /\ q < n \div Span(w) + B
    /\ w = 0 => q = d

Standing2(p, d, n) == Standing(p[1], p[2], d, n)

WheelInv ==
  /\ TimerTypeOK
  /\ \A t \in Timers : Linked(t) =>
       /\ Standing2(place[t], timeout[t], now)
       /\ now <= timeout[t] /\ timeout[t] <= now + TIMER_MAX_TIMEOUT

Digit(n, w) == (n \div Span(w)) % B

(* At a multiple of its span a wheel's current bucket holds no timer whose  *)
(* tick has passed, and wheel 0's only those of this tick.                  *)
LEMMA CurrentBucket ==
  ASSUME NEW w \in Nat, NEW k, NEW d \in Nat, NEW m \in Nat,
         Standing(w, k, d, Span(w) * m), k = m % B
  PROVE  Span(w) * m <= d /\ (w = 0 => d = m)
<1> DEFINE S == Span(w)
<1>1. S \in Nat \ {0} /\ B \in Nat \ {0} /\ S * m \in Nat
  BY SpanType, BucketCount
<1>2. PICK q \in Nat : /\ q % B = k
                       /\ S * m <= S * q /\ S * q <= d
                       /\ q < (S * m) \div S + B
                       /\ w = 0 => q = d
  BY DEF Standing
<1> HIDE DEF S
<1>3. (S * m) \div S = m
  BY <1>1, MultipleOf
<1>4. m <= q
  <2> SUFFICES ASSUME q < m PROVE FALSE
    OBVIOUS
  <2>1. S * q + S <= S * m
    BY <1>1, TimesLess
  <2>2. S * q \in Int
    BY <1>1
  <2> QED
    BY <1>1, <1>2, <2>1, <2>2
<1>5. q < m + B
  BY <1>2, <1>3
<1>6. q = m
  BY <1>1, <1>2, <1>4, <1>5, SameRemainder
<1> QED
  BY <1>2, <1>6 DEF S

(* Where the tick finds a timer that may not stay for the next one: in the  *)
(* current bucket of its wheel, with all the wheels below at their bucket 0.*)
LEMMA LastChance ==
  ASSUME NEW w \in Nat, NEW k, NEW d \in Nat, NEW n \in Nat,
         Standing(w, k, d, n), ~Standing(w, k, d, n + 1)
  PROVE  /\ k = Digit(n, w)
         /\ \A v \in 0 .. w - 1 : Digit(n, v) = 0
<1> DEFINE S == Span(w)
<1>1. S \in Nat \ {0} /\ B \in Nat \ {0}
  BY SpanType, BucketCount
<1>2. PICK q \in Nat : /\ q % B = k
                       /\ n <= S * q /\ S * q <= d
                       /\ q < n \div S + B
                       /\ w = 0 => q = d
  BY DEF Standing
<1>3. S * q \in Nat
  BY <1>1
<1>4. n \div S <= (n + 1) \div S /\ n \div S \in Nat /\ (n + 1) \div S \in Nat
  <2>1. n + 1 \in Nat /\ n <= n + 1
    OBVIOUS
  <2> HIDE DEF S
  <2>2. n \div S \in Nat /\ (n + 1) \div S \in Nat
    BY <1>1, <2>1, DivisionType
  <2> QED
    BY <1>1, <2>1, <2>2, QuotientOrder
<1>5. S * q = n
  <2> SUFFICES ASSUME n + 1 <= S * q PROVE FALSE
    BY <1>2, <1>3
  <2>1. q < (n + 1) \div S + B
    BY <1>1, <1>2, <1>4
  <2>2. Standing(w, k, d, n + 1)
    BY <1>2, <2>1 DEF Standing
  <2> QED
    BY <2>2
<1>6. n \div S = q
  <2>1. n = S * q + 0
    BY <1>3, <1>5
  <2> HIDE DEF S
  <2> QED
    BY <1>1, <2>1, Division
<1>7. k = Digit(n, w)
  BY <1>2, <1>6 DEF Digit
<1>8. ASSUME NEW v \in 0 .. w - 1 PROVE Digit(n, v) = 0
  <2>1. v \in Nat /\ v < w
    OBVIOUS
  <2>2. PICK f \in Nat : S = Span(v) * (B * f)
    BY <2>1, SpanFactor
  <2> DEFINE U == Span(v)
  <2>3. U \in Nat \ {0}
    BY <2>1, SpanType
  <2> HIDE DEF U, S
  <2>4. n = U * (B * (f * q)) + 0 /\ B * (f * q) \in Nat
    BY <1>1, <1>5, <2>2, <2>3 DEF U
  <2>5. n \div U = B * (f * q)
    BY <2>3, <2>4, Division
  <2>6. (B * (f * q)) % B = 0
    BY <1>1, MultipleOf
  <2> QED
    BY <2>5, <2>6 DEF Digit, U
<1> QED
  BY <1>7, <1>8

(* timer_start puts a timer where it may stand, ahead of the current bucket *)
(* unless it is due now: the carry between the low digits that is lost only *)
(* makes it come earlier.                                                   *)
LEMMA Started ==
  ASSUME now \in Nat, NEW T \in Nat, T <= TIMER_MAX_TIMEOUT
  PROVE  /\ BucketFor(T) \in Wheels \X Buckets
         /\ Standing2(BucketFor(T), now + T, now)
         /\ BucketFor(T)[1] # 0 => BucketFor(T)[2] # Digit(now, BucketFor(T)[1])
         /\ T = 0 => BucketFor(T) = <<0, Digit(now, 0)>>
<1> DEFINE w == WheelOf(T)
           S == Span(w)
           x == now \div S
           y == T \div S
           k == ((x % B) + y) % B
           q == x + y
<1>1. BucketFor(T) = <<w, k>>
  BY DEF BucketFor, TIMER_WHEEL_CUR_INDEX, B
<1>2. w \in Wheels /\ T < Span(w + 1) /\ (w = 0 \/ T >= S)
  BY WheelOfFacts
<1>3. w \in Nat
  BY <1>2, TimerWheelAssumption DEF Wheels
<1>4. S \in Nat \ {0} /\ B \in Nat \ {0} /\ Span(w + 1) = B * S
  BY <1>3, SpanType, SpanStep, BucketCount
<1>5. w = 0 => S = 1
  BY SpanZero
<1>6. Digit(now, w) = x % B
  BY DEF Digit
<1>7. S = Span(w) /\ x = now \div S
  OBVIOUS
<1> HIDE DEF w, S
<1>8. /\ x \in Nat /\ now % S \in 0 .. S - 1 /\ now = S * x + (now % S)
      /\ y \in Nat /\ T % S \in 0 .. S - 1 /\ T = S * y + (T % S)
  <2>0. S \in Nat \ {0}
    BY <1>4
  <2>1. \A a \in Nat : /\ a \div S \in Nat /\ a % S \in 0 .. S - 1
                        /\ a = S * (a \div S) + (a % S)
    BY <2>0, DivisionType
  <2> QED
    BY <2>1
<1>9. k = q % B
  BY <1>4, <1>8, SumRemainder
<1>10. k \in Buckets
  <2>1. x + y \in Nat
    BY <1>8
  <2>2. (x + y) % B \in 0 .. B - 1
    BY <1>4, <2>1, DivisionType
  <2> QED
    BY <1>9, <2>2 DEF Buckets, B
<1> HIDE DEF k
<1> DEFINE r == now % S
           s == T % S
<1>11. /\ r \in Nat /\ r < S /\ now = S * x + r
       /\ s \in Nat /\ s < S /\ T = S * y + s
  BY <1>4, <1>8
<1>12. x \in Nat /\ y \in Nat /\ S \in Nat \ {0} /\ B \in Nat \ {0}
  BY <1>4, <1>8
<1>13. w = 0 => x = now /\ y = T
  <2>1. now = 1 * now + 0 /\ T = 1 * T + 0
    OBVIOUS
  <2>2. now \div 1 = now /\ T \div 1 = T
    BY <2>1, Division
  <2> QED
    BY <1>5, <2>2
<1> HIDE DEF r, s, x, y
<1>14. y < B
  <2> SUFFICES ASSUME ~(y < B) PROVE FALSE
    OBVIOUS
  <2>1. S * B <= S * y
    <3>1. CASE y = B
      BY <1>12, <3>1
    <3>2. CASE B < y
      <4>1. S * B + S <= S * y
        BY <1>12, <3>2, TimesLess
      <4>2. S * B \in Nat /\ S * y \in Nat
        BY <1>12
      <4> QED
        BY <1>12, <4>1, <4>2
    <3> QED
      BY <1>12, <3>1, <3>2
  <2>2. S * B = B * S /\ S * B \in Nat /\ S * y \in Nat
    BY <1>12
  <2> QED
    BY <1>2, <1>4, <1>11, <2>1, <2>2
<1>15. w # 0 => y # 0
  <2> SUFFICES ASSUME w # 0, y = 0 PROVE FALSE
    OBVIOUS
  <2>1. S * y = 0
    BY <1>12
  <2> QED
    BY <1>2, <1>11, <1>12, <2>1
<1>16. S * q = S * x + S * y /\ S * x \in Nat /\ S * y \in Nat
  BY <1>12
<1>17. S * q <= now + T
  BY <1>11, <1>16
<1>18. now <= S * q
  <2>1. CASE w = 0
    BY <1>5, <1>13, <1>16, <2>1
  <2>2. CASE w # 0
    <3>1. 0 < y
      BY <1>12, <1>15, <2>2
    <3>2. S * 0 + S <= S * y
      BY <1>12, <3>1, TimesLess
    <3>3. S * 0 = 0
      BY <1>12
    <3> QED
      BY <1>11, <1>12, <1>16, <3>2, <3>3
  <2> QED
    BY <2>1, <2>2
<1>19. Standing(w, k, now + T, now)
  <2>1. q \in Nat /\ q < x + B
    BY <1>12, <1>14
  <2>2. w = 0 => q = now + T
    BY <1>13
  <2> HIDE DEF q
  <2> QED
    BY <1>7, <1>9, <1>17, <1>18, <2>1, <2>2 DEF Standing
<1>20. w # 0 => k # Digit(now, w)
  <2> SUFFICES ASSUME w # 0, k = x % B PROVE FALSE
    BY <1>6
  <2>1. x <= q /\ q < x + B /\ q \in Nat
    BY <1>12, <1>14
  <2>2. x % B = q % B
    BY <1>9
  <2> HIDE DEF q
  <2>3. x = q
    BY <1>12, <2>1, <2>2, SameRemainder
  <2> QED
    BY <1>12, <1>15, <2>3 DEF q
<1>21. T = 0 => w = 0 /\ k = Digit(now, 0)
  <2> SUFFICES ASSUME T = 0 PROVE w = 0 /\ k = Digit(now, 0)
    OBVIOUS
  <2>1. w = 0
    BY <1>2, <1>4
  <2>2. q = x
    BY <1>12, <1>13, <2>1
  <2> QED
    BY <1>6, <1>9, <2>1, <2>2
<1> HIDE DEF q
<1> QED
  BY <1>1, <1>2, <1>10, <1>19, <1>20, <1>21 DEF Standing2

LEMMA WheelInit == TimerInit => WheelInv
<1> SUFFICES ASSUME TimerInit PROVE WheelInv
  OBVIOUS
<1>1. TimerTypeOK
  BY TimerWheelAssumption DEF TimerInit, TimerTypeOK
<1>2. \A t \in Timers : ~Linked(t)
  BY DEF TimerInit, Linked
<1> QED
  BY <1>1, <1>2 DEF WheelInv

LEMMA TimerTypes ==
  ASSUME WheelInv
  PROVE  /\ now \in Nat /\ clock \in Nat
         /\ \A t \in Timers : timeout[t] \in Nat
         /\ \A t \in Timers : Linked(t) =>
              /\ place[t] \in Wheels \X Buckets
              /\ place[t][1] \in Wheels /\ place[t][1] \in Nat
              /\ place[t] = <<place[t][1], place[t][2]>>
              /\ Standing(place[t][1], place[t][2], timeout[t], now)
              /\ now <= timeout[t] /\ timeout[t] <= now + TIMER_MAX_TIMEOUT
<1>1. /\ now \in Nat /\ clock \in Nat
      /\ \A t \in Timers : timeout[t] \in Nat
  BY TimerWheelAssumption DEF WheelInv, TimerTypeOK
<1>2. ASSUME NEW t \in Timers, Linked(t)
      PROVE  /\ place[t] \in Wheels \X Buckets
             /\ place[t][1] \in Wheels /\ place[t][1] \in Nat
             /\ place[t] = <<place[t][1], place[t][2]>>
  <2>1. place[t] \in Wheels \X Buckets
    BY <1>2 DEF WheelInv, TimerTypeOK, Linked
  <2>2. place[t][1] \in Wheels /\ place[t] = <<place[t][1], place[t][2]>>
    BY <2>1
  <2> QED
    BY <2>1, <2>2, TimerWheelAssumption DEF Wheels
<1>3. ASSUME NEW t \in Timers, Linked(t)
      PROVE  /\ Standing(place[t][1], place[t][2], timeout[t], now)
             /\ now <= timeout[t] /\ timeout[t] <= now + TIMER_MAX_TIMEOUT
  BY <1>3 DEF WheelInv, Standing2
<1> QED
  BY <1>1, <1>2, <1>3

(* timer_start keeps the invariant, for any timer and timeout.              *)
LEMMA StartStep ==
  ASSUME WheelInv, NEW t \in Timers, NEW T \in Nat, Start(t, T),
         UNCHANGED <<clock, now, fired>>
  PROVE  WheelInv'
<1>0. now \in Nat /\ TIMER_MAX_TIMEOUT \in Nat
  BY TimerTypes, MaxTimeout
<1>1. /\ timeout \in [Timers -> Nat]
      /\ place \in [Timers -> {NONE} \cup (Wheels \X Buckets)]
  BY DEF WheelInv, TimerTypeOK
<1>2. CASE T > TIMER_MAX_TIMEOUT
  <2>1. place' = [place EXCEPT ![t] = NONE] /\ timeout' = timeout
    BY <1>2 DEF Start
  <2>2. TimerTypeOK'
    BY <1>1, <2>1 DEF WheelInv, TimerTypeOK
  <2>3. \A s \in Timers : Linked(s)' => place'[s] = place[s] /\ Linked(s)
    BY <1>1, <2>1 DEF Linked
  <2>4. \A s \in Timers : Linked(s)' =>
          /\ Standing2(place'[s], timeout'[s], now')
          /\ now' <= timeout'[s] /\ timeout'[s] <= now' + TIMER_MAX_TIMEOUT
    BY <2>1, <2>3 DEF WheelInv
  <2> QED
    BY <2>2, <2>4 DEF WheelInv
<1>3. CASE ~(T > TIMER_MAX_TIMEOUT)
  <2>1. /\ timeout' = [timeout EXCEPT ![t] = now + T]
        /\ place' = [place EXCEPT ![t] = BucketFor(T)]
    BY <1>3 DEF Start
  <2>2. BucketFor(T) \in Wheels \X Buckets /\ Standing2(BucketFor(T), now + T, now)
    BY <1>0, <1>3, Started
  <2>3. TimerTypeOK'
    BY <1>0, <1>1, <2>1, <2>2 DEF WheelInv, TimerTypeOK
  <2>4. ASSUME NEW s \in Timers, Linked(s)'
        PROVE  /\ Standing2(place'[s], timeout'[s], now')
               /\ now' <= timeout'[s] /\ timeout'[s] <= now' + TIMER_MAX_TIMEOUT
    <3>1. CASE s = t
      <4>1. place'[s] = BucketFor(T) /\ timeout'[s] = now + T
        BY <1>1, <2>1, <3>1
      <4> QED
        BY <1>0, <1>3, <2>2, <4>1
    <3>2. CASE s # t
      <4>1. place'[s] = place[s] /\ timeout'[s] = timeout[s]
        BY <1>1, <2>1, <3>2
      <4>2. Linked(s)
        BY <2>4, <4>1 DEF Linked
      <4> QED
        BY <4>1, <4>2 DEF WheelInv
    <3> QED
      BY <3>1, <3>2
  <2> QED
    BY <2>3, <2>4 DEF WheelInv
<1> QED
  BY <1>2, <1>3

(* The assertion of timer_cascade.                                          *)
LEMMA CascadedFacts ==
  ASSUME WheelInv, NEW t \in Timers, Cascaded(t)
  PROVE  /\ Linked(t) /\ timeout[t] - now \in Nat
         /\ timeout[t] - now <= TIMER_MAX_TIMEOUT
         /\ now + (timeout[t] - now) = timeout[t]
<1>1. Linked(t)
  BY DEF Cascaded
<1>2. /\ now \in Nat /\ timeout[t] \in Nat /\ TIMER_MAX_TIMEOUT \in Nat
      /\ now <= timeout[t] /\ timeout[t] <= now + TIMER_MAX_TIMEOUT
  BY <1>1, TimerTypes, MaxTimeout
<1> QED
  BY <1>1, <1>2

(* A timer that is due, or whose bucket is, and that is on an upper wheel   *)
(* is cascaded.                                                             *)
LEMMA NotLate ==
  ASSUME WheelInv, NEW t \in Timers, Linked(t),
         ~Standing2(place[t], timeout[t], now + 1)
  PROVE  \/ Cascaded(t)
         \/ place[t] = <<0, TIMER_WHEEL_CUR_INDEX(0)>>
<1> DEFINE w == place[t][1]
           k == place[t][2]
<1>1. /\ now \in Nat /\ timeout[t] \in Nat
      /\ w \in Wheels /\ w \in Nat /\ place[t] = <<w, k>>
      /\ Standing(w, k, timeout[t], now)
  BY TimerTypes
<1>2. ~Standing(w, k, timeout[t], now + 1)
  BY DEF Standing2
<1>3. k = Digit(now, w) /\ \A v \in 0 .. w - 1 : Digit(now, v) = 0
  <2> DEFINE d == timeout[t]
  <2>1. /\ w \in Nat /\ d \in Nat /\ now \in Nat
        /\ Standing(w, k, d, now) /\ ~Standing(w, k, d, now + 1)
    BY <1>1, <1>2
  <2> HIDE DEF w, k, d
  <2> QED
    BY <2>1, LastChance
<1>4. \A v : TIMER_WHEEL_CUR_INDEX(v) = Digit(now, v)
  BY DEF TIMER_WHEEL_CUR_INDEX, Digit, B
<1>5. CASE w = 0
  BY <1>1, <1>3, <1>4, <1>5
<1>6. CASE w # 0
  <2>1. w \in Cascading
    BY <1>1, <1>3, <1>4, <1>6 DEF Cascading
  <2> QED
    BY <1>3, <1>4, <2>1 DEF Cascaded
<1> QED
  BY <1>5, <1>6

(* What timer_tick finds in the wheels after its cascades: every timer      *)
(* stands where it may, and one that may not stay is in the bucket called.  *)
LEMMA CascadeDone ==
  ASSUME WheelInv, NEW t \in Timers, Linked(t)
  PROVE  /\ AfterCascade(t) \in Wheels \X Buckets
         /\ Standing2(AfterCascade(t), timeout[t], now)
         /\ \/ Standing2(AfterCascade(t), timeout[t], now + 1)
            \/ AfterCascade(t) = <<0, TIMER_WHEEL_CUR_INDEX(0)>>
<1>0. now \in Nat
  BY TimerTypes
<1>1. CASE ~Cascaded(t)
  <2>1. AfterCascade(t) = place[t]
    BY <1>1 DEF AfterCascade
  <2>2. place[t] \in Wheels \X Buckets /\ Standing2(place[t], timeout[t], now)
    BY TimerTypes DEF Standing2
  <2> QED
    BY <1>1, <2>1, <2>2, NotLate
<1>2. CASE Cascaded(t)
  <2> DEFINE T == timeout[t] - now
             p == BucketFor(T)
  <2>1. T \in Nat /\ T <= TIMER_MAX_TIMEOUT /\ now + T = timeout[t]
    BY <1>2, CascadedFacts
  <2>2. AfterCascade(t) = p
    BY <1>2 DEF AfterCascade
  <2> HIDE DEF T
  <2>3. /\ p \in Wheels \X Buckets /\ Standing2(p, timeout[t], now)
        /\ p[1] # 0 => p[2] # Digit(now, p[1])
    BY <1>0, <2>1, Started
  <2> HIDE DEF p
  <2>4. ASSUME ~Standing2(p, timeout[t], now + 1)
        PROVE  p = <<0, TIMER_WHEEL_CUR_INDEX(0)>>
    <3>1. /\ p[1] \in Wheels /\ p[1] \in Nat /\ p = <<p[1], p[2]>>
          /\ timeout[t] \in Nat
      BY <2>3, TimerTypes, TimerWheelAssumption DEF Wheels
    <3>2. p[2] = Digit(now, p[1])
      BY <1>0, <2>3, <2>4, <3>1, LastChance DEF Standing2
    <3>3. TIMER_WHEEL_CUR_INDEX(0) = Digit(now, 0)
      BY DEF TIMER_WHEEL_CUR_INDEX, Digit, B
    <3> QED
      BY <2>3, <3>1, <3>2, <3>3
  <2> QED
    BY <2>2, <2>3, <2>4
<1> QED
  BY <1>1, <1>2

(* The timers of the bucket that timer_tick calls are those of this tick.   *)
LEMMA CalledInTime ==
  ASSUME WheelInv, NEW t \in Timers
  PROVE  AfterCascade(t) = <<0, TIMER_WHEEL_CUR_INDEX(0)>>
           <=> Linked(t) /\ timeout[t] = now
<1>0. /\ now \in Nat /\ timeout[t] \in Nat
      /\ TIMER_WHEEL_CUR_INDEX(0) = now % B
  <2>1. now = 1 * now + 0 /\ now \in Nat /\ timeout[t] \in Nat
    BY TimerTypes
  <2>2. now \div 1 = now
    BY <2>1, Division
  <2> QED
    BY <2>1, <2>2, SpanZero DEF TIMER_WHEEL_CUR_INDEX, B
<1> DEFINE c == TIMER_WHEEL_CUR_INDEX(0)
<1>1. ASSUME ~Linked(t) PROVE AfterCascade(t) # <<0, c>>
  <2>1. AfterCascade(t) = NONE
    BY <1>1 DEF AfterCascade, Cascaded, Linked
  <2>2. c \in Buckets
    <3>1. now % B \in 0 .. B - 1
      BY <1>0, BucketCount, DivisionType
    <3> QED
      BY <1>0, <3>1 DEF Buckets, B
  <2>3. <<0, c>> \in Wheels \X Buckets
    BY <2>2, TimerWheelAssumption DEF Wheels
  <2> QED
    BY <2>1, <2>3, TimerWheelAssumption
<1>2. ASSUME Linked(t), AfterCascade(t) = <<0, c>>
      PROVE  timeout[t] = now
  <2>1. Standing(0, c, timeout[t], now)
    BY <1>2, CascadeDone DEF Standing2
  <2>2. Span(0) * now = now
    BY <1>0, SpanZero
  <2> QED
    BY <1>0, <2>1, <2>2, CurrentBucket
<1>3. ASSUME Linked(t), timeout[t] = now
      PROVE  AfterCascade(t) = <<0, c>>
  <2>1. ASSUME NEW w \in Nat, NEW k PROVE ~Standing(w, k, now, now + 1)
    <3> SUFFICES ASSUME NEW q \in Nat, now + 1 <= Span(w) * q, Span(w) * q <= now
                 PROVE  FALSE
      BY DEF Standing
    <3>1. Span(w) \in Nat
      BY SpanType
    <3>2. Span(w) * q \in Nat
      BY <3>1
    <3> HIDE DEF Span
    <3> QED
      BY <1>0, <3>2
  <2>2. AfterCascade(t)[1] \in Nat
    BY <1>3, CascadeDone, TimerWheelAssumption DEF Wheels
  <2>3. ~Standing2(AfterCascade(t), timeout[t], now + 1)
    BY <1>3, <2>1, <2>2 DEF Standing2
  <2> QED
    BY <1>3, <2>3, CascadeDone
<1> QED
  BY <1>1, <1>2, <1>3

LEMMA TickStep ==
  ASSUME WheelInv, Tick
  PROVE  WheelInv'
<1>0. /\ now \in Nat /\ clock \in Nat /\ TIMER_MAX_TIMEOUT \in Nat
      /\ now' = now + 1 /\ now < clock /\ clock' = clock /\ timeout' = timeout
      /\ fired' \subseteq Timers
  BY TimerTypes, MaxTimeout DEF Tick
<1>1. ASSUME NEW t \in Timers
      PROVE  /\ t \in fired' <=> Linked(t) /\ timeout[t] = now
             /\ place'[t] = IF t \in fired' THEN NONE ELSE AfterCascade(t)
             /\ ~Linked(t) => AfterCascade(t) = NONE
  <2>1. t \in fired' <=> AfterCascade(t) = <<0, TIMER_WHEEL_CUR_INDEX(0)>>
    BY DEF Tick
  <2>2. place'[t] = IF t \in fired' THEN NONE ELSE AfterCascade(t)
    BY DEF Tick
  <2>3. ~Linked(t) => AfterCascade(t) = NONE
    BY DEF AfterCascade, Cascaded, Linked
  <2> QED
    BY <2>1, <2>2, <2>3, CalledInTime
<1>2. TimerTypeOK'
  <2>1. place' \in [Timers -> {NONE} \cup (Wheels \X Buckets)]
    <3>1. place' = [t \in Timers |-> IF t \in fired' THEN NONE ELSE AfterCascade(t)]
      BY DEF Tick
    <3>2. \A t \in Timers : AfterCascade(t) \in {NONE} \cup (Wheels \X Buckets)
      BY <1>1, CascadeDone
    <3> QED
      BY <3>1, <3>2
  <2>2. now' \in 0 .. clock' /\ clock' \in 0 .. MaxTicks
    BY <1>0 DEF WheelInv, TimerTypeOK
  <2> QED
    BY <1>0, <2>1, <2>2 DEF WheelInv, TimerTypeOK
<1>3. ASSUME NEW t \in Timers, Linked(t)'
      PROVE  /\ Standing2(place'[t], timeout'[t], now')
             /\ now' <= timeout'[t] /\ timeout'[t] <= now' + TIMER_MAX_TIMEOUT
  <2>1. place'[t] # NONE
    BY <1>3 DEF Linked
  <2>2. t \notin fired' /\ place'[t] = AfterCascade(t) /\ Linked(t)
    BY <1>1, <2>1
  <2>3. timeout[t] # now
    BY <1>1, <2>2
  <2>4. /\ timeout[t] \in Nat /\ now <= timeout[t]
        /\ timeout[t] <= now + TIMER_MAX_TIMEOUT
    BY <2>2, TimerTypes
  <2>5. Standing2(AfterCascade(t), timeout[t], now + 1)
    BY <2>2, <2>3, CascadeDone, CalledInTime
  <2> QED
    BY <1>0, <2>2, <2>3, <2>4, <2>5
<1> QED
  BY <1>2, <1>3 DEF WheelInv

LEMMA WheelStep == WheelInv /\ [TimerNext]_timerVars => WheelInv'
<1> SUFFICES ASSUME WheelInv, [TimerNext]_timerVars PROVE WheelInv'
  OBVIOUS
<1>1. ASSUME NEW t \in Timers, NEW T \in Timeouts, Add(t, T) \/ Reset(t, T)
      PROVE  WheelInv'
  <2>1. Start(t, T) /\ UNCHANGED <<clock, now, fired>> /\ T \in Nat
    BY <1>1, TimerWheelAssumption DEF Add, Reset
  <2> QED
    BY <2>1, StartStep
<1>2. ASSUME NEW t \in Timers, Del(t)
      PROVE  WheelInv'
  <2>1. /\ place' = [place EXCEPT ![t] = NONE]
        /\ UNCHANGED <<clock, now, timeout, fired>>
    BY <1>2 DEF Del
  <2>2. TimerTypeOK'
    BY <2>1 DEF WheelInv, TimerTypeOK
  <2>3. \A s \in Timers : Linked(s)' => place'[s] = place[s] /\ Linked(s)
    BY <2>1 DEF Linked, WheelInv, TimerTypeOK
  <2>4. \A s \in Timers : Linked(s)' =>
          /\ Standing2(place'[s], timeout'[s], now')
          /\ now' <= timeout'[s] /\ timeout'[s] <= now' + TIMER_MAX_TIMEOUT
    BY <2>1, <2>3 DEF WheelInv
  <2> QED
    BY <2>2, <2>4 DEF WheelInv
<1>3. CASE Tick
  BY <1>3, TickStep
<1>4. CASE ClockRuns
  <2>1. clock' = clock + 1 /\ UNCHANGED <<now, timeout, place, fired>> /\ clock < MaxTicks
    BY <1>4 DEF ClockRuns
  <2>2. TimerTypeOK'
    BY <2>1, TimerWheelAssumption DEF WheelInv, TimerTypeOK
  <2>3. \A s \in Timers : Linked(s)' =>
          /\ Standing2(place'[s], timeout'[s], now')
          /\ now' <= timeout'[s] /\ timeout'[s] <= now' + TIMER_MAX_TIMEOUT
    BY <2>1 DEF WheelInv, Linked
  <2> QED
    BY <2>2, <2>3 DEF WheelInv
<1>5. CASE UNCHANGED timerVars
  <2>1. UNCHANGED <<clock, now, timeout, place, fired>>
    BY <1>5 DEF timerVars
  <2>2. TimerTypeOK'
    BY <2>1 DEF WheelInv, TimerTypeOK
  <2>3. \A s \in Timers : Linked(s)' =>
          /\ Standing2(place'[s], timeout'[s], now')
          /\ now' <= timeout'[s] /\ timeout'[s] <= now' + TIMER_MAX_TIMEOUT
    BY <2>1 DEF WheelInv, Linked
  <2> QED
    BY <2>2, <2>3 DEF WheelInv
<1> QED
  BY <1>1, <1>2, <1>3, <1>4, <1>5 DEF TimerNext

(* The assertion of timer_cascade never fails: the unsigned difference is   *)
(* taken of a timeout that has not passed.                                  *)
THEOREM CascadeSafety == TimerSpec => []CascadeAssertion
<1>1. WheelInv => CascadeAssertion
  <2> SUFFICES ASSUME WheelInv PROVE CascadeAssertion
    OBVIOUS
  <2>1. ASSUME NEW t \in Timers, Cascaded(t) PROVE timeout[t] >= now
    <3>1. Linked(t)
      BY <2>1 DEF Cascaded
    <3>2. now \in Nat /\ timeout[t] \in Nat /\ now <= timeout[t]
      BY <3>1, TimerTypes
    <3> QED
      BY <3>2
  <2>2. TimerTypeOK
    BY DEF WheelInv
  <2> QED
    BY <2>1, <2>2 DEF CascadeAssertion
<1> QED
  BY WheelInit, WheelStep, <1>1, PTL DEF TimerSpec

(* The refinement: what the users of flowQoS_timer.h see.                   *)
Deadline == [t \in Timers |-> IF Linked(t) THEN timeout[t] ELSE NONE]

(* The timing wheels keep the promise of flowQoS_timer.h: every timer fires *)
(* in exactly the tick it was set to, once, unless it is deleted or set     *)
(* again before; for any number and size of the wheels, any timeouts, and   *)
(* however far the ticks lag behind the clock.                              *)
THEOREM WheelsImplementAlarm == TimerSpec => ImplementsAlarm
<1> DEFINE abs == <<now, Deadline, fired>>
<1>1. TimerInit => Promise!Init
  <2> SUFFICES ASSUME TimerInit PROVE Promise!Init
    OBVIOUS
  <2>1. \A t \in Timers : ~Linked(t)
    BY DEF TimerInit, Linked
  <2> QED
    BY <2>1 DEF TimerInit, Promise!Init
<1>2. WheelInv /\ [TimerNext]_timerVars => [Promise!Next]_abs
  <2> SUFFICES ASSUME WheelInv, [TimerNext]_timerVars
               PROVE  Promise!Next \/ UNCHANGED abs
    OBVIOUS
  <2>0. /\ timeout \in [Timers -> Nat] /\ now \in Nat
        /\ place \in [Timers -> {NONE} \cup (Wheels \X Buckets)]
        /\ TIMER_MAX_TIMEOUT \in Nat
    BY MaxTimeout, TimerTypes DEF WheelInv, TimerTypeOK
  <2>1. ASSUME NEW t \in Timers, NEW T \in Timeouts, Add(t, T) \/ Reset(t, T)
        PROVE  Promise!Set(t, T)
    <3>1. Start(t, T) /\ UNCHANGED <<clock, now, fired>> /\ T \in Nat
      BY <2>1, TimerWheelAssumption DEF Add, Reset
    <3>2. Deadline' = [Deadline EXCEPT ![t] = IF T <= TIMER_MAX_TIMEOUT THEN now + T ELSE NONE]
      <4>1. CASE T > TIMER_MAX_TIMEOUT
        <5>1. place' = [place EXCEPT ![t] = NONE] /\ timeout' = timeout
          BY <3>1, <4>1 DEF Start
        <5>2. ~(T <= TIMER_MAX_TIMEOUT)
          BY <2>0, <3>1, <4>1
        <5> QED
          BY <2>0, <5>1, <5>2 DEF Deadline, Linked
      <4>2. CASE ~(T > TIMER_MAX_TIMEOUT)
        <5>1. /\ timeout' = [timeout EXCEPT ![t] = now + T]
              /\ place' = [place EXCEPT ![t] = BucketFor(T)]
          BY <3>1, <4>2 DEF Start
        <5>2. T <= TIMER_MAX_TIMEOUT
          BY <2>0, <3>1, <4>2
        <5>3. BucketFor(T) # NONE
          BY <2>0, <3>1, <5>2, Started, TimerWheelAssumption
        <5> QED
          BY <2>0, <5>1, <5>2, <5>3 DEF Deadline, Linked
      <4> QED
        BY <4>1, <4>2
    <3> QED
      BY <3>1, <3>2 DEF Promise!Set, Deadline
  <2>2. ASSUME NEW t \in Timers, Del(t)
        PROVE  Promise!Cancel(t)
    <3>1. /\ place' = [place EXCEPT ![t] = NONE]
          /\ UNCHANGED <<clock, now, timeout, fired>>
      BY <2>2 DEF Del
    <3>2. Deadline' = [Deadline EXCEPT ![t] = NONE]
      BY <2>0, <3>1 DEF Deadline, Linked
    <3> QED
      BY <3>1, <3>2 DEF Promise!Cancel, Deadline
  <2>3. CASE Tick
    <3>1. ASSUME NEW t \in Timers
          PROVE  t \in fired' <=> Deadline[t] = now
      <4>1. t \in fired' <=> AfterCascade(t) = <<0, TIMER_WHEEL_CUR_INDEX(0)>>
        BY <2>3 DEF Tick
      <4>2. Deadline[t] = now <=> Linked(t) /\ timeout[t] = now
        BY <2>0, TimerWheelAssumption DEF Deadline
      <4> QED
        BY <4>1, <4>2, CalledInTime
    <3>2. fired' \subseteq Timers /\ now' = now + 1 /\ timeout' = timeout
      BY <2>3 DEF Tick
    <3>3. fired' = {t \in Timers : Deadline[t] = now}
      BY <3>1, <3>2
    <3>4. ASSUME NEW t \in Timers
          PROVE  Deadline'[t] = IF t \in fired' THEN NONE ELSE Deadline[t]
      <4>1. place'[t] = IF t \in fired' THEN NONE ELSE AfterCascade(t)
        BY <2>3 DEF Tick
      <4>2. Linked(t) => AfterCascade(t) # NONE
        BY CascadeDone, TimerWheelAssumption
      <4>3. ~Linked(t) => AfterCascade(t) = NONE
        BY DEF AfterCascade, Cascaded, Linked
      <4>4. Linked(t)' <=> Linked(t) /\ t \notin fired'
        <5>1. Linked(t)' <=> place'[t] # NONE
          BY DEF Linked
        <5> QED
          BY <4>1, <4>2, <4>3, <5>1
      <4> QED
        BY <3>2, <4>4 DEF Deadline
    <3>5. Deadline' = [t \in Timers |-> IF t \in fired' THEN NONE ELSE Deadline[t]]
      BY <3>4 DEF Deadline
    <3> DEFINE deadline == [t \in Timers |-> IF Linked(t) THEN timeout[t] ELSE NONE]
    <3>6. /\ fired' = {t \in Timers : deadline[t] = now}
          /\ deadline' = [t \in Timers |-> IF t \in fired' THEN NONE ELSE deadline[t]]
      BY <3>3, <3>5 DEF Deadline
    <3>7. Promise!Tick
      BY <3>2, <3>6 DEF Promise!Tick
    <3> QED
      BY <3>7 DEF Promise!Next
  <2>4. CASE ClockRuns
    BY <2>4 DEF ClockRuns, Deadline, Linked
  <2>5. CASE UNCHANGED timerVars
    BY <2>5 DEF timerVars, Deadline, Linked
  <2> QED
    BY <2>1, <2>2, <2>3, <2>4, <2>5 DEF TimerNext, Promise!Next
<1>3. WheelInv /\ [TimerNext]_timerVars
        => [Promise!Next]_<<now, [t \in Timers |-> IF Linked(t) THEN timeout[t] ELSE NONE], fired>>
  BY <1>2 DEF Deadline
<1> QED
  BY WheelInit, WheelStep, <1>1, <1>3, PTL DEF TimerSpec, ImplementsAlarm, Promise!Spec

-----------------------------------------------------------------------------
(* The router.                                                              *)

LEMMA MinOf ==
  ASSUME NEW S \in SUBSET Nat, S # {}
  PROVE  Min(S) \in S
<1>1. \E x \in S : \A y \in S : x =< y
  BY LeastNumber
<1> QED
  BY <1>1 DEF Min

(* A bounded set of numbers has a greatest element.                         *)
LEMMA GreatestNumber ==
  ASSUME NEW n \in Nat, NEW S \in SUBSET (0 .. n), S # {}
  PROVE  \E x \in S : \A y \in S : x >= y
<1> DEFINE T == {b \in Nat : n - b \in S}
<1>1. PICK y \in S : TRUE
  OBVIOUS
<1>2. y \in 0 .. n /\ n - y \in Nat /\ n - (n - y) = y
  BY <1>1
<1>3. T \in SUBSET Nat /\ n - y \in T
  BY <1>2
<1>4. PICK b \in T : \A c \in T : b <= c
  BY <1>3, LeastNumber
<1>5. n - b \in S /\ b \in Nat
  BY <1>4
<1>6. ASSUME NEW z \in S PROVE n - b >= z
  <2>1. z \in 0 .. n /\ n - z \in Nat /\ n - (n - z) = z
    OBVIOUS
  <2>2. n - z \in T
    BY <2>1
  <2> QED
    BY <1>4, <1>5, <2>1, <2>2
<1> QED
  BY <1>5, <1>6

LEMMA MaxOf ==
  ASSUME NEW n \in Nat, NEW S \in SUBSET (0 .. n), S # {}
  PROVE  Max(S) \in S
<1>1. \E x \in S : \A y \in S : x >= y
  BY GreatestNumber
<1> QED
  BY <1>1 DEF Max

Size(prefix) == 2^(W - prefix)

LEMMA SizeType ==
  ASSUME NEW prefix \in 0 .. W
  PROVE  Size(prefix) \in Nat \ {0}
<1>1. W - prefix \in Nat
  BY RouterAssumption
<1> QED
  BY <1>1, PowerType DEF Size

LEMMA AddrFacts ==
  /\ 0 \in Addr /\ Addr \subseteq Nat
  /\ \A a \in Addr, b \in Nat : b <= a => b \in Addr
  /\ 0 % 2^W = 0
<1>1. 2^W \in Nat \ {0}
  BY RouterAssumption, PowerType
<1>2. 0 % 2^W = 0
  <2>1. 2^W * 0 = 0
    BY <1>1
  <2> QED
    BY <1>1, <2>1, MultipleOf
<1> DEFINE n == 2^W
<1>3. n \in Nat \ {0} /\ Addr = 0 .. n - 1
  BY <1>1 DEF Addr
<1> HIDE DEF n
<1>4. 0 \in Addr /\ Addr \subseteq Nat
  BY <1>3
<1>5. \A a \in Addr, b \in Nat : b <= a => b \in Addr
  BY <1>3
<1> QED
  BY <1>2, <1>4, <1>5

(* addr & mask: the largest multiple of the table's size not above addr.    *)
LEMMA NetFacts ==
  ASSUME NEW a \in Addr, NEW prefix \in 1 .. W
  PROVE  /\ Net(a, prefix) \in Addr
         /\ \E k \in Nat : Net(a, prefix) = Size(prefix) * k
         /\ a = Net(a, prefix) + (a % Size(prefix))
         /\ a % Size(prefix) \in 0 .. Size(prefix) - 1
<1> DEFINE S == Size(prefix)
           k == a \div S
           r == a % S
<1>1. prefix \in 0 .. W /\ prefix # 0 /\ a \in Nat
  BY RouterAssumption, AddrFacts
<1>2. S \in Nat \ {0}
  BY <1>1, SizeType
<1>3. Net(a, prefix) = a - r
  BY <1>1 DEF Net, Size
<1>4. k \in Nat /\ r \in 0 .. S - 1 /\ a = S * k + r
  <2> HIDE DEF S
  <2> QED
    BY <1>1, <1>2, DivisionType
<1>5. S * k \in Nat
  BY <1>2, <1>4
<1> HIDE DEF S, k, r
<1>6. r \in Nat
  BY <1>2, <1>4
<1>7. Net(a, prefix) = S * k /\ a = Net(a, prefix) + r
  BY <1>3, <1>4, <1>5, <1>6
<1>8. S * k \in Addr
  BY <1>4, <1>5, <1>6, AddrFacts
<1> QED
  BY <1>4, <1>7, <1>8 DEF S, r

(* A network address is one for every longer prefix as well.                *)
LEMMA NetNested ==
  ASSUME NEW a \in Addr, NEW p \in 1 .. W, NEW q \in 1 .. W, p <= q,
         NEW k \in Nat, a = Size(p) * k
  PROVE  Net(a, q) = a
<1>1. /\ W - q \in Nat /\ q - p \in Nat /\ W - p = (W - q) + (q - p)
      /\ q \in 0 .. W /\ q # 0 /\ a \in Nat
  BY RouterAssumption, AddrFacts
<1> DEFINE f == 2^(q - p)
<1>2. Size(p) = Size(q) * f
  BY <1>1, PowerSum DEF Size
<1>3. f \in Nat /\ Size(q) \in Nat \ {0}
  BY <1>1, PowerType DEF Size
<1> HIDE DEF f
<1>4. a = Size(q) * (f * k) /\ f * k \in Nat
  BY <1>2, <1>3
<1>5. a % Size(q) = 0
  BY <1>3, <1>4, MultipleOf
<1> QED
  BY <1>1, <1>5 DEF Net, Size

LEMMA NetFixed ==
  ASSUME NEW a \in Addr, NEW prefix \in 1 .. W, NEW q \in 1 .. W, prefix <= q
  PROVE  Net(Net(a, prefix), q) = Net(a, prefix)
<1>1. PICK k \in Nat : Net(a, prefix) = Size(prefix) * k
  BY NetFacts
<1>2. Net(a, prefix) \in Addr
  BY NetFacts
<1> QED
  BY <1>1, <1>2, NetNested

(* Every number below the size of its table belongs to one address of the   *)
(* network, and the other way round.                                        *)
LEMMA NetPlace ==
  ASSUME NEW a \in Addr, NEW prefix \in 1 .. W, NEW i \in 0 .. Size(prefix) - 1
  PROVE  /\ Net(a, prefix) + i \in Addr
         /\ Net(Net(a, prefix) + i, prefix) = Net(a, prefix)
         /\ (Net(a, prefix) + i) % Size(prefix) = i
<1> DEFINE S == Size(prefix)
           n == Net(a, prefix)
           f == 2^prefix
<1>1. /\ prefix \in 0 .. W /\ prefix # 0 /\ prefix \in Nat /\ W - prefix \in Nat
      /\ W = (W - prefix) + prefix
  BY RouterAssumption
<1>2. S \in Nat \ {0} /\ f \in Nat /\ 2^W = S * f /\ 2^W \in Nat
  BY <1>1, SizeType, PowerType, PowerSum, RouterAssumption DEF Size
<1>3. PICK k \in Nat : n = S * k
  BY NetFacts
<1>4. n \in Addr /\ n < 2^W
  BY <1>2, NetFacts DEF Addr
<1> HIDE DEF S, n, f
<1>5. k < f
  <2> SUFFICES ASSUME ~(k < f) PROVE FALSE
    OBVIOUS
  <2>1. S * f <= S * k
    <3>1. CASE f = k
      BY <1>2, <3>1
    <3>2. CASE f < k
      <4>1. S * f + S <= S * k
        BY <1>2, <3>2, TimesLess
      <4>2. S * f \in Nat /\ S * k \in Nat
        BY <1>2
      <4> QED
        BY <1>2, <4>1, <4>2
    <3> QED
      BY <1>2, <3>1, <3>2
  <2> QED
    BY <1>2, <1>3, <1>4, <2>1
<1>6. S * k + S <= 2^W
  BY <1>2, <1>5, TimesLess
<1>7. S * k \in Nat /\ i \in 0 .. S - 1
  BY <1>2 DEF S
<1>8. n + i \in Nat /\ n + i < 2^W
  BY <1>2, <1>3, <1>6, <1>7
<1>9. n + i \in Addr
  BY <1>2, <1>8 DEF Addr
<1>10. (n + i) % S = i
  <2>1. i \in Int /\ 0 <= i /\ i < S /\ k \in Int /\ n + i = S * k + i
    BY <1>2, <1>3, <1>7
  <2> QED
    BY <1>2, <1>8, <2>1, Division
<1>11. Net(n + i, prefix) = n
  <2>1. Net(n + i, prefix) = (n + i) - ((n + i) % S)
    BY <1>1 DEF Net, S, Size
  <2> QED
    BY <1>3, <1>7, <1>10, <2>1
<1> QED
  BY <1>9, <1>10, <1>11 DEF n, S

-----------------------------------------------------------------------------
(* The ARP tables.                                                          *)

ArpEntry == [ip : Addr, mac : Macs \cup {NULL}]

IsTable(t) ==
  /\ t = [size |-> t.size, at |-> t.at]
  /\ t.size \in Nat \ {0}
  /\ t.at \in [0 .. t.size - 1 -> ArpEntry]

ArpTypes ==
  /\ localPortInfo \in [PortIds -> [ip : Addr, prefix : Prefixes]]
  /\ arps = [p \in PortIds |-> arps[p]]
  /\ \A p \in PortIds : arps[p] = NULL \/ IsTable(arps[p])
  /\ known \in [PortIds -> [Addr -> Macs \cup {NULL}] \cup {NULL}]

Base(p) == Net(localPortInfo[p].ip, localPortInfo[p].prefix)

(* Place i of the table holds what was last put for the address that        *)
(* belongs to it; address 0 has none.                                       *)
PlaceHolds(t, i, a, k) ==
  /\ t.at[i].ip = IF a # 0 /\ k[a] # NULL THEN a ELSE 0
  /\ t.at[i].ip # 0 => t.at[i].mac = k[a]

TableInv(p) ==
  /\ localPortInfo[p].prefix \in 1 .. W
  /\ arps[p].size = Size(localPortInfo[p].prefix)
  /\ \A i \in 0 .. arps[p].size - 1 : PlaceHolds(arps[p], i, Base(p) + i, known[p])
  /\ \A a \in Addr : known[p][a] # NULL => InTable(p, a)

ArpInv ==
  /\ ArpTypes
  /\ \A p \in PortIds : arps[p] # NULL /\ known[p] # NULL => TableInv(p)

LEMMA ArpKept ==
  ASSUME ArpInv, UNCHANGED <<localPortInfo, arps, known>>
  PROVE  ArpInv'
<1>1. ArpTypes'
  BY DEF ArpInv, ArpTypes
<1>2. \A p \in PortIds : arps'[p] # NULL /\ known'[p] # NULL => TableInv(p)'
  BY DEF ArpInv, TableInv, Base, InTable
<1> QED
  BY <1>1, <1>2 DEF ArpInv

(* The table after the write of one place.                                  *)
LEMMA PlaceWritten ==
  ASSUME ArpTypes, NEW p \in PortIds, arps[p] # NULL, NEW addr \in Addr,
         NEW e \in ArpEntry, SetArp(p, addr, e)
  PROVE  /\ IsTable(arps'[p]) /\ arps'[p].size = arps[p].size
         /\ addr % arps[p].size \in 0 .. arps[p].size - 1
         /\ \A i \in 0 .. arps[p].size - 1 :
              arps'[p].at[i] = IF i = addr % arps[p].size THEN e ELSE arps[p].at[i]
         /\ \A r \in PortIds : r # p => arps'[r] = arps[r]
         /\ arps' = [r \in PortIds |-> arps'[r]]
<1> DEFINE t == arps[p]
           x == addr % t.size
<1>1. IsTable(t)
  BY DEF ArpTypes
<1>2. x \in 0 .. t.size - 1
  <2>1. t.size \in Nat \ {0} /\ addr \in Nat
    BY <1>1, AddrFacts DEF IsTable
  <2> HIDE DEF t
  <2> QED
    BY <2>1, DivisionType
<1>3. arps' = [arps EXCEPT ![p].at[x] = e]
  BY DEF SetArp, ArpIndex
<1>4. arps = [r \in PortIds |-> arps[r]]
  BY DEF ArpTypes
<1>5. arps'[p] = [t EXCEPT !.at[x] = e] /\ arps' = [r \in PortIds |-> arps'[r]]
  BY <1>3, <1>4
<1>6. \A r \in PortIds : r # p => arps'[r] = arps[r]
  BY <1>3, <1>4
<1>7. /\ arps'[p] = [size |-> t.size, at |-> [t.at EXCEPT ![x] = e]]
  BY <1>1, <1>5 DEF IsTable
<1>8. /\ arps'[p].size = t.size /\ arps'[p].at = [t.at EXCEPT ![x] = e]
      /\ arps'[p] = [size |-> arps'[p].size, at |-> arps'[p].at]
  BY <1>7
<1> HIDE DEF x
<1>9. t.at \in [0 .. t.size - 1 -> ArpEntry] /\ t.size \in Nat \ {0}
  BY <1>1 DEF IsTable
<1> DEFINE u == [t.at EXCEPT ![x] = e]
<1>10. /\ u \in [0 .. t.size - 1 -> ArpEntry]
       /\ \A i \in 0 .. t.size - 1 : u[i] = IF i = x THEN e ELSE t.at[i]
  BY <1>2, <1>9
<1> HIDE DEF u
<1>11. IsTable(arps'[p])
  BY <1>8, <1>9, <1>10 DEF IsTable, u
<1>12. \A i \in 0 .. t.size - 1 : arps'[p].at[i] = IF i = x THEN e ELSE t.at[i]
  BY <1>8, <1>10 DEF u
<1> QED
  BY <1>2, <1>5, <1>6, <1>8, <1>11, <1>12 DEF x

(* The place of an address of the network, and the address of a place.      *)
LEMMA InTableFacts ==
  ASSUME ArpTypes, NEW p \in PortIds, TableInv(p)
  PROVE  /\ Base(p) \in Nat
         /\ \A a \in Addr : InTable(p, a) =>
              /\ a % arps[p].size \in 0 .. arps[p].size - 1
              /\ a = Base(p) + (a % arps[p].size)
         /\ \A i \in 0 .. arps[p].size - 1 :
              Base(p) + i \in Addr /\ (Base(p) + i) % arps[p].size = i
<1> DEFINE l == localPortInfo[p]
<1>1. l.ip \in Addr /\ l.prefix \in 1 .. W /\ arps[p].size = Size(l.prefix)
  BY DEF ArpTypes, TableInv
<1>2. Base(p) = Net(l.ip, l.prefix)
  BY DEF Base
<1>3. \A a : InTable(p, a) => Net(a, l.prefix) = Base(p)
  BY <1>2 DEF InTable
<1> HIDE DEF l
<1>4. Base(p) \in Nat
  BY <1>1, <1>2, NetFacts, AddrFacts
<1>5. ASSUME NEW a \in Addr, InTable(p, a)
      PROVE  /\ a % arps[p].size \in 0 .. arps[p].size - 1
             /\ a = Base(p) + (a % arps[p].size)
  BY <1>1, <1>3, <1>5, NetFacts
<1>6. ASSUME NEW i \in 0 .. arps[p].size - 1
      PROVE  Base(p) + i \in Addr /\ (Base(p) + i) % arps[p].size = i
  BY <1>1, <1>2, NetPlace
<1> QED
  BY <1>4, <1>5, <1>6

(* What put_arp and del_arp write for addr.                                 *)
Written(addr, m) ==
  IF m = NULL THEN [ip |-> 0, mac |-> NULL] ELSE [ip |-> addr, mac |-> m]

LEMMA ArpWritten ==
  ASSUME ArpInv, NEW p \in PortIds, NEW addr \in Addr, NEW m \in Macs \cup {NULL},
         SetArp(p, addr, Written(addr, m)), Learn(p, addr, m),
         UNCHANGED localPortInfo
  PROVE  ArpInv'
<1> DEFINE e == Written(addr, m)
<1>0. ArpTypes /\ e \in ArpEntry
  BY AddrFacts DEF ArpInv, Written, ArpEntry
<1>1. known' \in [PortIds -> [Addr -> Macs \cup {NULL}] \cup {NULL}]
  <2>1. known \in [PortIds -> [Addr -> Macs \cup {NULL}] \cup {NULL}]
    BY <1>0 DEF ArpTypes
  <2>2. CASE known[p] = NULL
    BY <2>1, <2>2 DEF Learn
  <2>3. CASE known[p] # NULL /\ InTable(p, addr)
    <3>1. known' = [known EXCEPT ![p][addr] = m] /\ known[p] \in [Addr -> Macs \cup {NULL}]
      BY <2>1, <2>3 DEF Learn
    <3>2. [known[p] EXCEPT ![addr] = m] \in [Addr -> Macs \cup {NULL}]
      BY <3>1
    <3> QED
      BY <2>1, <3>1, <3>2
  <2>4. CASE known[p] # NULL /\ ~InTable(p, addr)
    <3>1. known' = [known EXCEPT ![p] = NULL]
      BY <2>4 DEF Learn
    <3> QED
      BY <2>1, <3>1
  <2> QED
    BY <2>2, <2>3, <2>4
<1>2. \A r \in PortIds : r # p => known'[r] = known[r]
  BY <1>0 DEF ArpTypes, Learn
<1>3. /\ arps' = [r \in PortIds |-> arps'[r]]
      /\ \A r \in PortIds : r # p => arps'[r] = arps[r]
      /\ arps'[p] = NULL \/ IsTable(arps'[p])
  <2>1. CASE arps[p] = NULL
    <3>1. arps' = arps
      BY <2>1 DEF SetArp
    <3> QED
      BY <1>0, <2>1, <3>1 DEF ArpTypes
  <2>2. CASE arps[p] # NULL
    BY <1>0, <2>2, PlaceWritten
  <2> QED
    BY <2>1, <2>2
<1>4. ArpTypes'
  <2>1. \A r \in PortIds : arps'[r] = NULL \/ IsTable(arps'[r])
    BY <1>0, <1>3 DEF ArpTypes
  <2> QED
    BY <1>0, <1>1, <1>3, <2>1 DEF ArpTypes
<1>5. ASSUME NEW r \in PortIds, r # p, arps'[r] # NULL, known'[r] # NULL
      PROVE  TableInv(r)'
  <2>1. arps'[r] = arps[r] /\ known'[r] = known[r] /\ localPortInfo' = localPortInfo
    BY <1>2, <1>3, <1>5
  <2>2. TableInv(r)
    BY <1>5, <2>1 DEF ArpInv
  <2> QED
    BY <2>1, <2>2 DEF TableInv, Base, InTable
<1>6. ASSUME arps'[p] # NULL, known'[p] # NULL
      PROVE  TableInv(p)'
  <2>1. arps[p] # NULL
    BY <1>6 DEF SetArp
  <2>2. known[p] # NULL
    BY <1>6 DEF Learn
  <2>3. known[p] \in [Addr -> Macs \cup {NULL}]
    BY <1>0, <2>2 DEF ArpTypes
  <2>4. InTable(p, addr)
    <3> SUFFICES ASSUME ~InTable(p, addr) PROVE FALSE
      OBVIOUS
    <3>1. known' = [known EXCEPT ![p] = NULL]
      BY <2>2 DEF Learn
    <3> QED
      BY <1>0, <1>6, <3>1 DEF ArpTypes
  <2>5. known'[p] = [known[p] EXCEPT ![addr] = m]
    <3>1. known' = [known EXCEPT ![p][addr] = m]
      BY <2>2, <2>4 DEF Learn
    <3> QED
      BY <1>0, <3>1 DEF ArpTypes
  <2>6. \A a \in Addr : known'[p][a] = IF a = addr THEN m ELSE known[p][a]
    BY <2>3, <2>5
  <2>7. TableInv(p)
    BY <2>1, <2>2 DEF ArpInv
  <2> DEFINE n == arps[p].size
             x == addr % n
  <2>8. /\ arps'[p].size = n /\ x \in 0 .. n - 1
        /\ \A i \in 0 .. n - 1 : arps'[p].at[i] = IF i = x THEN e ELSE arps[p].at[i]
    BY <1>0, <2>1, PlaceWritten
  <2>9. /\ Base(p) \in Nat /\ addr = Base(p) + x
        /\ \A i \in 0 .. n - 1 : Base(p) + i \in Addr
    BY <1>0, <2>4, <2>7, InTableFacts
  <2>10. Base(p)' = Base(p) /\ localPortInfo' = localPortInfo
    BY DEF Base
  <2>11. ASSUME NEW i \in 0 .. n - 1
         PROVE  PlaceHolds(arps'[p], i, Base(p) + i, known'[p])
    <3>1. CASE i = x
      <4>1. arps'[p].at[i] = e /\ Base(p) + i = addr /\ known'[p][addr] = m
        BY <2>6, <2>8, <2>9, <3>1
      <4>2. e.ip = (IF addr # 0 /\ m # NULL THEN addr ELSE 0) /\ (e.ip # 0 => e.mac = m)
        BY DEF Written
      <4> HIDE DEF e
      <4> QED
        BY <4>1, <4>2 DEF PlaceHolds
    <3>2. CASE i # x
      <4>1. Base(p) + i # addr
        <5>1. x \in Int /\ i \in Int
          BY <2>8
        <5> HIDE DEF x
        <5> QED
          BY <2>9, <3>2, <5>1
      <4>2. arps'[p].at[i] = arps[p].at[i]
        BY <2>8, <3>2
      <4>3. known'[p][Base(p) + i] = known[p][Base(p) + i]
        BY <2>6, <2>9, <4>1
      <4>4. PlaceHolds(arps[p], i, Base(p) + i, known[p])
        BY <2>7 DEF TableInv
      <4> QED
        BY <4>2, <4>3, <4>4 DEF PlaceHolds
    <3> QED
      BY <3>1, <3>2
  <2>12. ASSUME NEW a \in Addr, known'[p][a] # NULL PROVE InTable(p, a)'
    <3>1. InTable(p, a)
      BY <2>4, <2>6, <2>7, <2>12 DEF TableInv
    <3> QED
      BY <2>10, <3>1 DEF InTable
  <2> QED
    BY <2>7, <2>8, <2>10, <2>11, <2>12 DEF TableInv
<1> QED
  BY <1>4, <1>5, <1>6 DEF ArpInv

LEMMA PutArpStep ==
  ASSUME ArpInv, NEW p \in PortIds, NEW addr \in Addr, NEW m \in Macs,
         PutArp(p, addr, m), UNCHANGED localPortInfo
  PROVE  ArpInv'
<1>1. Written(addr, m) = [ip |-> addr, mac |-> m]
  BY RouterAssumption DEF Written
<1> QED
  BY <1>1, ArpWritten DEF PutArp

LEMMA DelArpStep ==
  ASSUME ArpInv, NEW p \in PortIds, NEW addr \in Addr,
         DelArp(p, addr), UNCHANGED localPortInfo
  PROVE  ArpInv'
<1>1. Written(addr, NULL) = [ip |-> 0, mac |-> NULL]
  BY DEF Written
<1> QED
  BY <1>1, ArpWritten DEF DelArp

(* What the main core is doing.                                             *)
CmdInv ==
  \/ cmd = Idle
  \/ /\ cmd \in [pc : {"del", "set", "arp", "add", "find"},
                  op : {"ifconfig", "add", "del"}, port : PortIds,
                  ip : Addr, prefix : 1 .. W, gw : Addr]
     /\ cmd.pc = "arp" => localPortInfo[cmd.port] = [ip |-> cmd.ip, prefix |-> cmd.prefix]

LEMMA CmdTypes ==
  ASSUME CmdInv, cmd.pc # "idle"
  PROVE  /\ cmd \in [pc : {"del", "set", "arp", "add", "find"},
                     op : {"ifconfig", "add", "del"}, port : PortIds,
                     ip : Addr, prefix : 1 .. W, gw : Addr]
         /\ cmd.pc = "arp" => localPortInfo[cmd.port] = [ip |-> cmd.ip, prefix |-> cmd.prefix]
  BY DEF CmdInv, Idle

LEMMA PrefixType == 1 .. W \subseteq Prefixes
  BY RouterAssumption DEF Prefixes

LEMMA SetAddressStep ==
  ASSUME ArpInv, CmdInv, SetAddress
  PROVE  ArpInv' /\ CmdInv'
<1>1. /\ cmd.pc = "set" /\ arps' = arps
      /\ localPortInfo' = [localPortInfo EXCEPT ![cmd.port] =
                             [ip |-> cmd.ip, prefix |-> cmd.prefix]]
      /\ known' = [known EXCEPT ![cmd.port] = NULL]
      /\ cmd' = [cmd EXCEPT !.pc = "arp"]
  BY DEF SetAddress, Goto
<1>2. /\ cmd \in [pc : {"del", "set", "arp", "add", "find"},
                  op : {"ifconfig", "add", "del"}, port : PortIds,
                  ip : Addr, prefix : 1 .. W, gw : Addr]
  BY <1>1, CmdTypes
<1>3. /\ localPortInfo \in [PortIds -> [ip : Addr, prefix : Prefixes]]
      /\ known \in [PortIds -> [Addr -> Macs \cup {NULL}] \cup {NULL}]
  BY DEF ArpInv, ArpTypes
<1>4. [ip |-> cmd.ip, prefix |-> cmd.prefix] \in [ip : Addr, prefix : Prefixes]
  BY <1>2, PrefixType
<1>5. /\ localPortInfo' \in [PortIds -> [ip : Addr, prefix : Prefixes]]
      /\ known' \in [PortIds -> [Addr -> Macs \cup {NULL}] \cup {NULL}]
  BY <1>1, <1>2, <1>3, <1>4
<1>6. ArpTypes'
  BY <1>1, <1>5 DEF ArpInv, ArpTypes
<1>7. ASSUME NEW p \in PortIds, arps'[p] # NULL, known'[p] # NULL
      PROVE  TableInv(p)'
  <2>1. p # cmd.port
    BY <1>1, <1>2, <1>3, <1>7
  <2>2. /\ localPortInfo'[p] = localPortInfo[p] /\ known'[p] = known[p]
        /\ arps'[p] = arps[p]
    BY <1>1, <1>2, <1>3, <2>1
  <2>3. TableInv(p)
    BY <1>7, <2>2 DEF ArpInv
  <2> QED
    BY <2>2, <2>3 DEF TableInv, Base, InTable
<1>8. CmdInv'
  <2>1. cmd' \in [pc : {"del", "set", "arp", "add", "find"},
                  op : {"ifconfig", "add", "del"}, port : PortIds,
                  ip : Addr, prefix : 1 .. W, gw : Addr]
    BY <1>1, <1>2
  <2>2. cmd'.port = cmd.port /\ cmd'.ip = cmd.ip /\ cmd'.prefix = cmd.prefix
    BY <1>1, <1>2
  <2>3. localPortInfo'[cmd'.port] = [ip |-> cmd'.ip, prefix |-> cmd'.prefix]
    BY <1>1, <1>2, <1>3, <2>2
  <2> QED
    BY <2>1, <2>3 DEF CmdInv
<1> QED
  BY <1>6, <1>7, <1>8 DEF ArpInv

LEMMA EmptyTableFacts ==
  ASSUME NEW prefix \in 1 .. W
  PROVE  /\ IsTable(EmptyTable(prefix)) /\ EmptyTable(prefix).size = Size(prefix)
         /\ \A i \in 0 .. Size(prefix) - 1 : EmptyTable(prefix).at[i] = [ip |-> 0, mac |-> NULL]
<1>1. Size(prefix) \in Nat \ {0}
  <2>1. prefix \in 0 .. W
    BY PrefixType DEF Prefixes
  <2> QED
    BY <2>1, SizeType
<1>2. [ip |-> 0, mac |-> NULL] \in ArpEntry
  BY AddrFacts DEF ArpEntry
<1>3. EmptyTable(prefix) =
        [size |-> Size(prefix),
         at |-> [i \in 0 .. Size(prefix) - 1 |-> [ip |-> 0, mac |-> NULL]]]
  BY DEF EmptyTable, Size
<1> QED
  BY <1>1, <1>2, <1>3 DEF IsTable

LEMMA InitARP_TableStep ==
  ASSUME ArpInv, CmdInv, InitARP_Table
  PROVE  ArpInv' /\ CmdInv'
<1> DEFINE c == cmd.port
<1>1. PICK t \in {EmptyTable(cmd.prefix), NULL} : arps' = [arps EXCEPT ![c] = t]
  BY DEF InitARP_Table, NewTable
<1>2. /\ cmd.pc = "arp" /\ cmd' = [cmd EXCEPT !.pc = "add"]
      /\ known' = [known EXCEPT ![c] = [a \in Addr |-> NULL]]
      /\ localPortInfo' = localPortInfo
  BY DEF InitARP_Table, Goto
<1>3. /\ cmd \in [pc : {"del", "set", "arp", "add", "find"},
                  op : {"ifconfig", "add", "del"}, port : PortIds,
                  ip : Addr, prefix : 1 .. W, gw : Addr]
      /\ localPortInfo[c] = [ip |-> cmd.ip, prefix |-> cmd.prefix]
  BY <1>2, CmdTypes
<1>4. /\ known \in [PortIds -> [Addr -> Macs \cup {NULL}] \cup {NULL}]
      /\ arps = [p \in PortIds |-> arps[p]] /\ c \in PortIds
      /\ cmd.prefix \in 1 .. W /\ localPortInfo[c].prefix = cmd.prefix
  BY <1>3 DEF ArpInv, ArpTypes
<1>5. t = NULL \/ IsTable(t)
  BY <1>1, <1>4, EmptyTableFacts
<1> HIDE DEF c
<1>6. /\ arps' = [p \in PortIds |-> arps'[p]] /\ arps'[c] = t
      /\ \A p \in PortIds : p # c => arps'[p] = arps[p]
  BY <1>1, <1>4
<1>7. /\ known' \in [PortIds -> [Addr -> Macs \cup {NULL}] \cup {NULL}]
      /\ known'[c] = [a \in Addr |-> NULL]
      /\ \A p \in PortIds : p # c => known'[p] = known[p]
  BY <1>2, <1>4
<1>8. ArpTypes'
  <2>1. \A p \in PortIds : arps'[p] = NULL \/ IsTable(arps'[p])
    BY <1>5, <1>6 DEF ArpInv, ArpTypes
  <2> QED
    BY <1>2, <1>6, <1>7, <2>1 DEF ArpInv, ArpTypes
<1>9. ASSUME NEW p \in PortIds, arps'[p] # NULL, known'[p] # NULL
      PROVE  TableInv(p)'
  <2>1. CASE p # c
    <3>1. known'[p] = known[p] /\ arps'[p] = arps[p]
      BY <1>6, <1>7, <2>1
    <3>2. TableInv(p)
      BY <1>9, <3>1 DEF ArpInv
    <3> QED
      BY <1>2, <3>1, <3>2 DEF TableInv, Base, InTable
  <2>2. CASE p = c
    <3>1. t = EmptyTable(cmd.prefix)
      BY <1>1, <1>6, <1>9, <2>2
    <3>2. /\ arps'[p].size = Size(cmd.prefix)
          /\ \A i \in 0 .. Size(cmd.prefix) - 1 : arps'[p].at[i] = [ip |-> 0, mac |-> NULL]
      BY <1>4, <1>6, <2>2, <3>1, EmptyTableFacts
    <3>3. localPortInfo'[p].prefix = cmd.prefix /\ localPortInfo'[p].prefix \in 1 .. W
      BY <1>2, <1>4, <2>2
    <3>4. \A a \in Addr : known'[p][a] = NULL
      BY <1>7, <2>2
    <3>5. ASSUME NEW i \in 0 .. Size(cmd.prefix) - 1
          PROVE  PlaceHolds(arps'[p], i, Base(p)' + i, known'[p])
      <4>1. Base(p)' + i \in Addr
        <5>1. Base(p)' = Net(localPortInfo[p].ip, cmd.prefix) /\ localPortInfo[p].ip \in Addr
          BY <1>2, <1>4, <2>2 DEF Base, ArpInv, ArpTypes
        <5> QED
          BY <1>4, <5>1, NetPlace
      <4> QED
        BY <3>2, <3>4, <4>1 DEF PlaceHolds
    <3> QED
      BY <3>2, <3>3, <3>4, <3>5 DEF TableInv
  <2> QED
    BY <2>1, <2>2
<1>10. CmdInv'
  <2>1. cmd' \in [pc : {"del", "set", "arp", "add", "find"},
                  op : {"ifconfig", "add", "del"}, port : PortIds,
                  ip : Addr, prefix : 1 .. W, gw : Addr] /\ cmd'.pc = "add"
    BY <1>2, <1>3
  <2> QED
    BY <2>1 DEF CmdInv
<1> QED
  BY <1>8, <1>9, <1>10 DEF ArpInv

(* The tables give, and the arp command prints, what was last put.          *)
LEMMA ArpInvExact == ArpInv => ArpExact
<1> SUFFICES ASSUME ArpInv, NEW p \in PortIds, arps[p] # NULL, known[p] # NULL
             PROVE  /\ \A a \in Addr \ {0} : InTable(p, a) => GetArp(p, a) = known[p][a]
                    /\ DumpARP(p) = {[ip |-> a, mac |-> known[p][a]] :
                                       a \in {b \in Addr \ {0} : known[p][b] # NULL}}
  BY DEF ArpExact
<1> DEFINE t == arps[p]
           K == {b \in Addr \ {0} : known[p][b] # NULL}
           E(a) == [ip |-> a, mac |-> known[p][a]]
<1>1. ArpTypes /\ TableInv(p) /\ IsTable(t)
  BY DEF ArpInv, ArpTypes
<1>2. /\ Base(p) \in Nat
      /\ \A a \in Addr : InTable(p, a) =>
            a % t.size \in 0 .. t.size - 1 /\ a = Base(p) + (a % t.size)
      /\ \A i \in 0 .. t.size - 1 : Base(p) + i \in Addr
  BY <1>1, InTableFacts
<1>3. \A i \in 0 .. t.size - 1 : PlaceHolds(t, i, Base(p) + i, known[p])
  BY <1>1 DEF TableInv
<1>4. DOMAIN t.at = 0 .. t.size - 1 /\ \A i \in 0 .. t.size - 1 : t.at[i] \in ArpEntry
  BY <1>1 DEF IsTable
<1>5. \A a \in Addr : InTable(p, a) => PlaceHolds(t, a % t.size, a, known[p])
  BY <1>2, <1>3
<1>6. ASSUME NEW a \in Addr \ {0}, InTable(p, a) PROVE GetArp(p, a) = known[p][a]
  <2>1. GetArp(p, a) = IF t.at[a % t.size].ip = 0 THEN NULL ELSE t.at[a % t.size].mac
    BY DEF GetArp, ArpIndex
  <2>2. PlaceHolds(t, a % t.size, a, known[p])
    BY <1>5, <1>6
  <2> QED
    BY <2>1, <2>2 DEF PlaceHolds
<1>7. DumpARP(p) = {e \in {t.at[i] : i \in 0 .. t.size - 1} : e.ip # 0}
  BY <1>4 DEF DumpARP, Range
<1>8. ASSUME NEW i \in 0 .. t.size - 1, t.at[i].ip # 0
      PROVE  Base(p) + i \in K /\ t.at[i] = E(Base(p) + i)
  <2>1. /\ PlaceHolds(t, i, Base(p) + i, known[p])
        /\ Base(p) + i \in Addr /\ t.at[i] \in ArpEntry
    BY <1>2, <1>3, <1>4
  <2>2. /\ Base(p) + i # 0 /\ known[p][Base(p) + i] # NULL
        /\ t.at[i].ip = Base(p) + i /\ t.at[i].mac = known[p][Base(p) + i]
    BY <1>8, <2>1 DEF PlaceHolds
  <2>3. t.at[i] = [ip |-> t.at[i].ip, mac |-> t.at[i].mac]
    BY <2>1 DEF ArpEntry
  <2> QED
    BY <2>1, <2>2, <2>3
<1>9. ASSUME NEW a \in K
      PROVE  \E i \in 0 .. t.size - 1 : t.at[i].ip # 0 /\ t.at[i] = E(a)
  <2>1. InTable(p, a) /\ a \in Addr /\ a # 0 /\ known[p][a] # NULL
    BY <1>1 DEF TableInv
  <2> DEFINE i == a % t.size
  <2>2. i \in 0 .. t.size - 1 /\ a = Base(p) + i /\ PlaceHolds(t, i, a, known[p])
    BY <1>2, <1>5, <2>1
  <2>3. t.at[i].ip = a
    BY <2>1, <2>2 DEF PlaceHolds
  <2>4. t.at[i] = E(Base(p) + i)
    BY <1>8, <2>1, <2>2, <2>3
  <2> QED
    BY <2>1, <2>2, <2>3, <2>4
<1> HIDE DEF E, K, t
<1>10. DumpARP(p) = {E(a) : a \in K}
  BY <1>7, <1>8, <1>9
<1> QED
  BY <1>6, <1>10 DEF E, K

-----------------------------------------------------------------------------
(* The routing table and its index.                                         *)

Rules == Addr \X (1 .. W)
RuleOf(i) == <<route[i].ip, route[i].prefix>>

RouteTypes ==
  /\ route \in [Pos -> Route]
  /\ lpm \in [Rules -> Pos \cup {NULL}]
  /\ lock \in {"free", "write"}
  /\ accepted = NULL \/ accepted \subseteq Route

(* The stored routes have network addresses, no two the same, and are the   *)
(* accepted ones as long as no rule was left without its route.             *)
RoutesInv ==
  /\ \A i \in Pos : IsRoute(i) =>
       /\ route[i].prefix \in 1 .. W
       /\ \E k \in Nat : route[i].ip = Size(route[i].prefix) * k
  /\ \A i, j \in Pos : IsRoute(i) /\ IsRoute(j) /\ route[i].ip = route[j].ip => i = j
  /\ accepted # NULL => accepted = {route[i] : i \in {j \in Pos : IsRoute(j)}}

(* The index leads from the network of a route to its position, and from    *)
(* nothing else to anything.                                                *)
IndexInv ==
  accepted # NULL =>
    /\ \A r \in Rules : lpm[r] # NULL => IsRoute(lpm[r]) /\ r = RuleOf(lpm[r])
    /\ \A i \in Pos : IsRoute(i) => lpm[RuleOf(i)] = i

RouteInv == RouteTypes /\ RoutesInv /\ IndexInv

LEMMA RouteKept ==
  ASSUME RouteInv, UNCHANGED <<route, lpm, accepted>>, lock' \in {"free", "write"}
  PROVE  RouteInv'
<1>1. RouteTypes'
  BY DEF RouteInv, RouteTypes
<1>2. \A i : IsRoute(i)' <=> IsRoute(i)
  BY DEF IsRoute
<1>3. RoutesInv'
  BY <1>2 DEF RouteInv, RoutesInv
<1>4. IndexInv'
  BY <1>2 DEF RouteInv, IndexInv, RuleOf
<1> QED
  BY <1>1, <1>3, <1>4 DEF RouteInv

LEMMA RouteInit == InitRoutingTable /\ accepted = {} => RouteInv
<1> SUFFICES ASSUME InitRoutingTable, accepted = {} PROVE RouteInv
  OBVIOUS
<1>1. 0 \in Addr /\ 0 \in Prefixes /\ 0 \in PortIds
  BY AddrFacts, RouterAssumption DEF Prefixes, PortIds
<1>2. NoRoute \in Route
  BY <1>1 DEF NoRoute, Route
<1>3. RouteTypes
  BY <1>2 DEF RouteTypes, InitRoutingTable, Rules
<1>4. ASSUME NEW i \in Pos PROVE ~IsRoute(i)
  <2>1. route[i] = [ip |-> 0, prefix |-> 0, gw |-> 0, port |-> 0]
    BY DEF InitRoutingTable, NoRoute
  <2>2. route[i].port + route[i].gw + route[i].ip + route[i].prefix = 0
    BY <2>1
  <2> QED
    BY <2>2, AddrFacts DEF IsRoute
<1>5. RoutesInv
  BY <1>4 DEF RoutesInv
<1>6. \A r \in Rules : lpm[r] = NULL
  BY DEF InitRoutingTable, Rules
<1>7. IndexInv
  BY <1>4, <1>6 DEF IndexInv
<1> QED
  BY <1>3, <1>5, <1>7 DEF RouteInv

LEMMA AddsRuleFacts ==
  ASSUME CmdInv, NEW net, NEW pos \in Pos, AddsRule(net, pos)
  PROVE  /\ net \in Addr /\ cmd.prefix \in 1 .. W /\ cmd.gw \in Addr
         /\ <<net, cmd.prefix>> \in Rules
         /\ \E k \in Nat : net = Size(cmd.prefix) * k
         /\ ~IsRoute(pos)
         /\ \A i \in Pos : IsRoute(i) => route[i].ip # net
         /\ lpm' = [lpm EXCEPT ![<<net, cmd.prefix>>] = pos]
<1>1. /\ cmd.pc = "add" /\ net = Net(cmd.ip, cmd.prefix)
      /\ ~RouteExists(net) /\ FreePositions # {} /\ pos = Max(FreePositions)
      /\ lpm' = [lpm EXCEPT ![<<net, cmd.prefix>>] = pos]
  BY DEF AddsRule
<1>2. cmd.ip \in Addr /\ cmd.prefix \in 1 .. W /\ cmd.gw \in Addr
  <2>1. cmd.pc # "idle"
    BY <1>1
  <2>2. cmd \in [pc : {"del", "set", "arp", "add", "find"},
                  op : {"ifconfig", "add", "del"}, port : PortIds,
                  ip : Addr, prefix : 1 .. W, gw : Addr]
    BY <2>1, CmdTypes
  <2> QED
    BY <2>2
<1>3. net \in Addr /\ \E k \in Nat : net = Size(cmd.prefix) * k
  BY <1>1, <1>2, NetFacts
<1>4. ~IsRoute(pos)
  <2>1. FreePositions \in SUBSET (0 .. MaxRules)
    BY RouterAssumption DEF FreePositions, Pos
  <2>2. Max(FreePositions) \in FreePositions
    BY <1>1, <2>1, RouterAssumption, MaxOf
  <2> QED
    BY <1>1, <2>2 DEF FreePositions
<1>5. \A i \in Pos : IsRoute(i) => route[i].ip # net
  BY <1>1 DEF RouteExists
<1> QED
  BY <1>1, <1>2, <1>3, <1>4, <1>5 DEF Rules

LEMMA AddRouteNotLocalStep ==
  ASSUME RouteInv, CmdInv, NEW net, NEW pos \in Pos, AddRouteNotLocal(net, pos)
  PROVE  RouteInv'
<1>1. /\ AddsRule(net, pos) /\ lock' = "free" /\ accepted' = NULL /\ route' = route
  BY DEF AddRouteNotLocal, ReleaseOnError
<1>2. lpm' \in [Rules -> Pos \cup {NULL}]
  <2> DEFINE rule == <<net, cmd.prefix>>
  <2>1. rule \in Rules /\ lpm' = [lpm EXCEPT ![rule] = pos]
    BY <1>1, AddsRuleFacts
  <2> HIDE DEF rule
  <2> QED
    BY <2>1 DEF RouteInv, RouteTypes
<1>3. RouteTypes'
  BY <1>1, <1>2 DEF RouteInv, RouteTypes
<1>4. \A i : IsRoute(i)' <=> IsRoute(i)
  BY <1>1 DEF IsRoute
<1>5. RoutesInv'
  BY <1>1, <1>4 DEF RouteInv, RoutesInv
<1>6. IndexInv'
  BY <1>1 DEF IndexInv
<1> QED
  BY <1>3, <1>5, <1>6 DEF RouteInv

LEMMA LocalPortsType ==
  ASSUME NEW a
  PROVE  LocalPorts(a) \in SUBSET PortIds /\ LocalPorts(a) \in SUBSET Nat
  BY RouterAssumption DEF LocalPorts, PortIds

LEMMA AddRouteDoneStep ==
  ASSUME RouteInv, CmdInv, NEW net, NEW pos \in Pos, AddRouteDone(net, pos)
  PROVE  RouteInv'
<1> DEFINE new == NewRoute(net, cmd.prefix, cmd.gw)
           rule == <<net, cmd.prefix>>
<1>1. /\ AddsRule(net, pos) /\ OutPorts(net, cmd.gw) # {}
      /\ route' = [route EXCEPT ![pos] = new] /\ lock' = "free"
      /\ accepted' = IF accepted = NULL \/ ~IsRoute(pos)' THEN NULL ELSE accepted \cup {new}
  BY DEF AddRouteDone, NewRoute
<1>2. /\ net \in Addr /\ cmd.prefix \in 1 .. W /\ cmd.gw \in Addr
      /\ rule \in Rules
      /\ \E k \in Nat : net = Size(cmd.prefix) * k
      /\ ~IsRoute(pos)
      /\ \A i \in Pos : IsRoute(i) => route[i].ip # net
      /\ lpm' = [lpm EXCEPT ![rule] = pos]
  BY <1>1, AddsRuleFacts
<1>3. new \in Route /\ new.ip = net /\ new.prefix = cmd.prefix
  <2>1. Min(OutPorts(net, cmd.gw)) \in PortIds
    BY <1>1, LocalPortsType, MinOf DEF OutPorts
  <2> QED
    BY <1>2, <2>1, PrefixType DEF NewRoute, Route
<1> HIDE DEF new, rule
<1>4. /\ route \in [Pos -> Route] /\ lpm \in [Rules -> Pos \cup {NULL}]
      /\ accepted = NULL \/ accepted \subseteq Route
  BY DEF RouteInv, RouteTypes
<1>5. /\ route' \in [Pos -> Route] /\ route'[pos] = new
      /\ \A i \in Pos : i # pos => route'[i] = route[i]
  BY <1>1, <1>3, <1>4
<1>6. /\ lpm' \in [Rules -> Pos \cup {NULL}] /\ lpm'[rule] = pos
      /\ \A r \in Rules : r # rule => lpm'[r] = lpm[r]
  BY <1>2, <1>4
<1>7. RouteTypes'
  <2>1. accepted' = NULL \/ accepted' \subseteq Route
    BY <1>1, <1>3, <1>4
  <2> QED
    BY <1>1, <1>5, <1>6, <2>1 DEF RouteTypes
<1>8. \A i \in Pos : i # pos => (IsRoute(i)' <=> IsRoute(i))
  BY <1>5 DEF IsRoute
<1>9. RoutesInv'
  <2>1. ASSUME NEW i \in Pos, IsRoute(i)'
        PROVE  /\ route'[i].prefix \in 1 .. W
               /\ \E k \in Nat : route'[i].ip = Size(route'[i].prefix) * k
    <3>1. CASE i = pos
      BY <1>2, <1>3, <1>5, <3>1
    <3>2. CASE i # pos
      BY <1>5, <1>8, <2>1, <3>2 DEF RouteInv, RoutesInv
    <3> QED
      BY <3>1, <3>2
  <2>2. ASSUME NEW i \in Pos, NEW j \in Pos, IsRoute(i)', IsRoute(j)',
               route'[i].ip = route'[j].ip
        PROVE  i = j
    <3>1. CASE i # pos /\ j # pos
      BY <1>5, <1>8, <2>2, <3>1 DEF RouteInv, RoutesInv
    <3>2. CASE i = pos /\ j # pos
      BY <1>2, <1>3, <1>5, <1>8, <2>2, <3>2
    <3>3. CASE i # pos /\ j = pos
      BY <1>2, <1>3, <1>5, <1>8, <2>2, <3>3
    <3> QED
      BY <3>1, <3>2, <3>3
  <2>3. ASSUME accepted' # NULL
        PROVE  accepted' = {route'[i] : i \in {j \in Pos : IsRoute(j)'}}
    <3>1. accepted # NULL /\ IsRoute(pos)' /\ accepted' = accepted \cup {new}
      BY <1>1, <2>3
    <3>2. accepted = {route[i] : i \in {j \in Pos : IsRoute(j)}}
      BY <3>1 DEF RouteInv, RoutesInv
    <3>3. ASSUME NEW x PROVE x \in accepted' <=> \E i \in Pos : IsRoute(i)' /\ x = route'[i]
      <4>1. x \in accepted <=> \E i \in Pos : IsRoute(i) /\ x = route[i]
        BY <3>2
      <4>2. ASSUME x \in accepted PROVE \E i \in Pos : IsRoute(i)' /\ x = route'[i]
        <5>1. PICK i \in Pos : IsRoute(i) /\ x = route[i]
          BY <4>1, <4>2
        <5> QED
          BY <1>2, <1>5, <1>8, <5>1
      <4>3. ASSUME NEW i \in Pos, IsRoute(i)', x = route'[i], i # pos PROVE x \in accepted
        BY <1>5, <1>8, <4>1, <4>3
      <4> QED
        BY <1>5, <3>1, <4>2, <4>3
    <3> QED
      BY <3>3
  <2> QED
    BY <2>1, <2>2, <2>3 DEF RoutesInv
<1>10. IndexInv'
  <2> SUFFICES ASSUME accepted' # NULL
               PROVE  /\ \A r \in Rules : lpm'[r] # NULL =>
                           IsRoute(lpm[r])' /\ r = RuleOf(lpm[r])'
                      /\ \A i \in Pos : IsRoute(i)' => lpm'[RuleOf(i)'] = i
    BY DEF IndexInv
  <2>1. accepted # NULL /\ IsRoute(pos)'
    BY <1>1
  <2>2. /\ \A r \in Rules : lpm[r] # NULL => IsRoute(lpm[r]) /\ r = RuleOf(lpm[r])
        /\ \A i \in Pos : IsRoute(i) => lpm[RuleOf(i)] = i
    BY <2>1 DEF RouteInv, IndexInv
  <2>3. ASSUME NEW r \in Rules, lpm'[r] # NULL
        PROVE  IsRoute(lpm[r])' /\ r = RuleOf(lpm[r])'
    <3>1. CASE r = rule
      <4>1. lpm'[r] = pos /\ r = <<route'[pos].ip, route'[pos].prefix>>
        BY <1>3, <1>5, <1>6, <3>1 DEF rule
      <4>2. (lpm[r])' = pos
        BY <4>1
      <4> QED
        BY <2>1, <4>1, <4>2 DEF IsRoute, RuleOf
    <3>2. CASE r # rule
      <4>1. lpm'[r] = lpm[r] /\ lpm[r] \in Pos
        BY <1>4, <1>6, <2>3, <3>2
      <4>2. IsRoute(lpm[r]) /\ r = RuleOf(lpm[r])
        BY <2>2, <2>3, <4>1
      <4>3. lpm[r] # pos
        BY <1>2, <4>2
      <4>4. route'[lpm[r]] = route[lpm[r]]
        BY <1>5, <4>1, <4>3
      <4> QED
        BY <4>1, <4>2, <4>4 DEF IsRoute, RuleOf
    <3> QED
      BY <3>1, <3>2
  <2>4. ASSUME NEW i \in Pos, IsRoute(i)' PROVE lpm'[RuleOf(i)'] = i
    <3>1. CASE i = pos
      <4>1. RuleOf(i)' = rule
        BY <1>3, <1>5, <3>1 DEF RuleOf, rule
      <4> QED
        BY <1>6, <3>1, <4>1
    <3>2. CASE i # pos
      <4>1. IsRoute(i) /\ RuleOf(i)' = RuleOf(i) /\ lpm[RuleOf(i)] = i
        BY <1>5, <1>8, <2>2, <2>4, <3>2 DEF RuleOf
      <4>2. RuleOf(i) # rule
        BY <1>2, <4>1 DEF RuleOf, rule
      <4>3. RuleOf(i) \in Rules
        <5>1. route[i].ip \in Addr /\ route[i].prefix \in 1 .. W
          BY <1>4, <4>1 DEF Route, RouteInv, RoutesInv
        <5> QED
          BY <5>1 DEF RuleOf, Rules
      <4> QED
        BY <1>6, <4>1, <4>2, <4>3
    <3> QED
      BY <3>1, <3>2
  <2> QED
    BY <2>3, <2>4
<1> QED
  BY <1>7, <1>9, <1>10 DEF RouteInv

RouterInv == ArpInv /\ RouteInv /\ CmdInv

LEMMA CmdKept ==
  ASSUME CmdInv, UNCHANGED <<cmd, localPortInfo>>
  PROVE  CmdInv'
  BY DEF CmdInv, Idle

LEMMA RouterInit == Init => RouterInv
<1> SUFFICES ASSUME Init PROVE RouterInv
  OBVIOUS
<1>1. [ip |-> 0, prefix |-> 0] \in [ip : Addr, prefix : Prefixes]
  BY AddrFacts, RouterAssumption DEF Prefixes
<1>2. ArpTypes
  BY <1>1 DEF Init, ArpTypes
<1>3. \A p \in PortIds : arps[p] = NULL
  BY DEF Init
<1>4. ArpInv
  BY <1>2, <1>3 DEF ArpInv
<1>5. RouteInv
  BY RouteInit DEF Init
<1>6. CmdInv
  BY DEF Init, CmdInv
<1> QED
  BY <1>4, <1>5, <1>6 DEF RouterInv

LEMMA MainStepStep ==
  ASSUME RouterInv, MainStep
  PROVE  RouterInv'
<1>0. ArpInv /\ RouteInv /\ CmdInv
  BY DEF RouterInv
<1>1. CASE SetAddress
  <2>1. UNCHANGED <<route, lpm, lock, accepted>>
    BY <1>1 DEF SetAddress, routeVars
  <2>2. RouteInv'
    BY <1>0, <2>1, RouteKept DEF RouteInv, RouteTypes
  <2> QED
    BY <1>0, <1>1, <2>2, SetAddressStep DEF RouterInv
<1>2. CASE InitARP_Table
  <2>1. UNCHANGED <<route, lpm, lock, accepted>>
    BY <1>2 DEF InitARP_Table, routeVars
  <2>2. RouteInv'
    BY <1>0, <2>1, RouteKept DEF RouteInv, RouteTypes
  <2> QED
    BY <1>0, <1>2, <2>2, InitARP_TableStep DEF RouterInv
<1>3. ASSUME UNCHANGED <<localPortInfo, arps, known>>, cmd' = Idle, RouteInv'
      PROVE  RouterInv'
  <2>1. ArpInv'
    BY <1>0, <1>3, ArpKept
  <2>2. CmdInv'
    BY <1>3 DEF CmdInv, Idle
  <2> QED
    BY <1>3, <2>1, <2>2 DEF RouterInv
<1>4. CASE AddRouteFails
  <2>1. /\ UNCHANGED <<localPortInfo, arps, known>> /\ cmd' = Idle
        /\ UNCHANGED <<route, lpm, accepted>> /\ lock' = "free"
    BY <1>4 DEF AddRouteFails, arpVars, Return, ReleaseOnError
  <2>2. RouteInv'
    BY <1>0, <2>1, RouteKept
  <2> QED
    BY <1>3, <2>1, <2>2
<1>5. ASSUME NEW net, NEW pos \in Pos,
             AddRouteNotLocal(net, pos) \/ AddRouteDone(net, pos)
      PROVE  RouterInv'
  <2>1. AddsRule(net, pos)
    BY <1>5 DEF AddRouteNotLocal, AddRouteDone
  <2>2. UNCHANGED <<localPortInfo, arps, known>> /\ cmd' = Idle
    BY <2>1 DEF AddsRule, arpVars, Return
  <2>3. RouteInv'
    BY <1>0, <1>5, AddRouteNotLocalStep, AddRouteDoneStep
  <2> QED
    BY <1>3, <2>2, <2>3
<1>6. ASSUME UNCHANGED <<localPortInfo, arps, known, route, lpm, accepted>>,
             lock' \in {"free", "write"}, cmd.pc = "del",
             NEW pc \in {"set", "find"}, cmd' = [cmd EXCEPT !.pc = pc]
      PROVE  RouterInv'
  <2>1. ArpInv' /\ RouteInv'
    BY <1>0, <1>6, ArpKept, RouteKept
  <2>2. cmd \in [pc : {"del", "set", "arp", "add", "find"},
                  op : {"ifconfig", "add", "del"}, port : PortIds,
                  ip : Addr, prefix : 1 .. W, gw : Addr]
    <3>1. cmd.pc # "idle"
      BY <1>6
    <3> QED
      BY <1>0, <3>1, CmdTypes
  <2>3. /\ cmd' \in [pc : {"del", "set", "arp", "add", "find"},
                  op : {"ifconfig", "add", "del"}, port : PortIds,
                  ip : Addr, prefix : 1 .. W, gw : Addr]
        /\ cmd'.pc # "arp"
    BY <1>6, <2>2
  <2>4. CmdInv'
    BY <2>3 DEF CmdInv
  <2> QED
    BY <2>1, <2>4 DEF RouterInv
<1>7. CASE DelRouteFails
  <2>1. /\ UNCHANGED <<localPortInfo, arps, known, route, lpm, accepted>>
        /\ lock' = "free" /\ cmd.pc = "del"
        /\ cmd' = Idle \/ cmd' = [cmd EXCEPT !.pc = "set"]
    BY <1>7 DEF DelRouteFails, arpVars, Return, Goto, ReleaseOnError
  <2>2. CASE cmd' = Idle
    <3>1. RouteInv'
      BY <1>0, <2>1, RouteKept
    <3> QED
      BY <1>3, <2>1, <2>2, <3>1
  <2>3. CASE cmd' = [cmd EXCEPT !.pc = "set"]
    BY <1>6, <2>1, <2>3
  <2> QED
    BY <2>1, <2>2, <2>3
<1>8. CASE DelRouteFinds
  <2>1. /\ UNCHANGED <<localPortInfo, arps, known, route, lpm, accepted>>
        /\ lock' = "write" /\ cmd.pc = "del" /\ cmd' = [cmd EXCEPT !.pc = "find"]
    BY <1>8 DEF DelRouteFinds, arpVars, Goto
  <2> QED
    BY <1>6, <2>1
<1> QED
  BY <1>1, <1>2, <1>4, <1>5, <1>7, <1>8 DEF MainStep

LEMMA RouterStep == RouterInv /\ [Next]_vars => RouterInv'
<1> SUFFICES ASSUME RouterInv, [Next]_vars PROVE RouterInv'
  OBVIOUS
<1>0. ArpInv /\ RouteInv /\ CmdInv
  BY DEF RouterInv
<1>1. ASSUME UNCHANGED <<route, lpm, lock, accepted>>, ArpInv', CmdInv'
      PROVE  RouterInv'
  <2>1. RouteInv'
    BY <1>0, <1>1, RouteKept DEF RouteInv, RouteTypes
  <2> QED
    BY <1>1, <2>1 DEF RouterInv
<1>2. ASSUME NEW p \in PortIds, NEW a \in IfAddrs, IfconfigCommand(p, a)
      PROVE  RouterInv'
  <2>1. /\ UNCHANGED <<localPortInfo, arps, known, route, lpm, lock, accepted>>
        /\ cmd' = [pc |-> IF localPortInfo[p].ip # 0 THEN "del" ELSE "set",
                   op |-> "ifconfig", port |-> p, ip |-> a[1], prefix |-> a[2], gw |-> 0]
    BY <1>2 DEF IfconfigCommand, arpVars, routeVars
  <2>2. a[1] \in Addr /\ a[2] \in 1 .. W /\ 0 \in Addr
    BY RouterAssumption, AddrFacts
  <2>3. CmdInv'
    BY <2>1, <2>2 DEF CmdInv
  <2> QED
    BY <1>0, <1>1, <2>1, <2>3, ArpKept
<1>3. ASSUME NEW op \in {"add", "del"}, NEW n \in RouteNets, NEW gw \in Gateways,
             RouteCommand(op, n, gw)
      PROVE  RouterInv'
  <2>1. /\ UNCHANGED <<localPortInfo, arps, known, route, lpm, lock, accepted>>
        /\ cmd' = [pc |-> op, op |-> op, port |-> 0, ip |-> n[1], prefix |-> n[2],
                   gw |-> IF op = "add" THEN gw ELSE 0]
    BY <1>3 DEF RouteCommand, arpVars, routeVars
  <2>2. /\ n[1] \in Addr /\ n[2] \in 1 .. W /\ gw \in Addr /\ 0 \in Addr
        /\ 0 \in PortIds
    BY RouterAssumption, AddrFacts DEF PortIds
  <2>3. CmdInv'
    BY <2>1, <2>2 DEF CmdInv
  <2> QED
    BY <1>0, <1>1, <2>1, <2>3, ArpKept
<1>4. ASSUME NEW a \in Hosts, NEW m \in Macs \cup {NULL}, ArpCommand(a, m)
      PROVE  RouterInv'
  <2> DEFINE p == Min(LocalPorts(a))
  <2>1. /\ LocalPorts(a) # {} /\ UNCHANGED <<localPortInfo, cmd, route, lpm, lock, accepted>>
        /\ IF m = NULL THEN DelArp(p, a) ELSE PutArp(p, a, m)
    BY <1>4 DEF ArpCommand, routeVars
  <2>2. p \in PortIds /\ a \in Addr
    BY <2>1, LocalPortsType, MinOf, RouterAssumption
  <2> HIDE DEF p
  <2>3. ArpInv'
    BY <1>0, <2>1, <2>2, PutArpStep, DelArpStep
  <2> QED
    BY <1>0, <1>1, <2>1, <2>3, CmdKept
<1>5. ASSUME NEW p \in PortIds, NEW a \in Hosts, NEW m \in Macs, ArpPacket(p, a, m)
      PROVE  RouterInv'
  <2>1. /\ UNCHANGED <<localPortInfo, cmd, route, lpm, lock, accepted>> /\ PutArp(p, a, m)
        /\ a \in Addr
    BY <1>5, RouterAssumption DEF ArpPacket, routeVars
  <2>2. ArpInv'
    BY <1>0, <2>1, PutArpStep
  <2> QED
    BY <1>0, <1>1, <2>1, <2>2, CmdKept
<1>6. CASE MainStep
  BY <1>6, MainStepStep
<1>7. CASE UNCHANGED vars
  <2>1. UNCHANGED <<localPortInfo, arps, known, cmd, route, lpm, lock, accepted>>
    BY <1>7 DEF vars
  <2> QED
    BY <1>0, <1>1, <2>1, ArpKept, CmdKept
<1> QED
  BY <1>2, <1>3, <1>4, <1>5, <1>6, <1>7 DEF Next

(* The index answers with the position of the accepted route that has the   *)
(* longest prefix.                                                          *)
LEMMA LookupBest ==
  ASSUME RouteInv, accepted # NULL, NEW a \in Addr
  PROVE  /\ ~Covered(a) => LpmLookup(a) = NULL
         /\ Covered(a) =>
              /\ LpmLookup(a) \in Pos /\ IsRoute(LpmLookup(a))
              /\ route[LpmLookup(a)] = Best(a)
              /\ Best(a) \in accepted /\ Net(a, Best(a).prefix) = Best(a).ip
              /\ \A r \in accepted : Net(a, r.prefix) = r.ip => r.prefix <= Best(a).prefix
<1> DEFINE hits == {r \in LpmRules : Net(a, r[2]) = r[1]}
           long == CHOOSE r \in hits : \A s \in hits : s[2] <= r[2]
           good == {r \in accepted : Net(a, r.prefix) = r.ip}
<1>1. LpmLookup(a) = IF hits = {} THEN NULL ELSE lpm[long]
  BY DEF LpmLookup
<1>2. Best(a) = CHOOSE r \in good : \A s \in good : s.prefix <= r.prefix
  BY DEF Best
<1>3. Covered(a) <=> good # {}
  BY DEF Covered
<1>4. /\ accepted = {route[i] : i \in {j \in Pos : IsRoute(j)}}
      /\ \A i \in Pos : IsRoute(i) => route[i].prefix \in 1 .. W /\ lpm[RuleOf(i)] = i
      /\ \A i, j \in Pos : IsRoute(i) /\ IsRoute(j) /\ route[i].ip = route[j].ip => i = j
      /\ \A r \in Rules : lpm[r] # NULL => IsRoute(lpm[r]) /\ r = RuleOf(lpm[r])
  BY DEF RouteInv, RoutesInv, IndexInv
<1>5. /\ route \in [Pos -> Route] /\ lpm \in [Rules -> Pos \cup {NULL}]
      /\ accepted \subseteq Route
  BY DEF RouteInv, RouteTypes
<1>6. LpmRules = {r \in Rules : lpm[r] # NULL}
  BY <1>5 DEF LpmRules
<1>7. ASSUME NEW r \in hits
      PROVE  /\ r \in Rules /\ r[2] \in 0 .. W
             /\ lpm[r] \in Pos /\ IsRoute(lpm[r]) /\ r = RuleOf(lpm[r])
             /\ route[lpm[r]] \in good /\ route[lpm[r]].prefix = r[2]
  <2>1. r \in Rules /\ lpm[r] # NULL /\ Net(a, r[2]) = r[1]
    BY <1>6
  <2>2. r[2] \in 0 .. W
    BY <2>1, PrefixType DEF Rules, Prefixes
  <2>3. lpm[r] \in Pos /\ IsRoute(lpm[r]) /\ r = RuleOf(lpm[r])
    BY <1>4, <1>5, <2>1
  <2>4. r[1] = route[lpm[r]].ip /\ r[2] = route[lpm[r]].prefix
    BY <2>3 DEF RuleOf
  <2>5. route[lpm[r]] \in accepted
    BY <1>4, <2>3
  <2> QED
    BY <2>1, <2>2, <2>3, <2>4, <2>5
<1>8. ASSUME NEW i \in Pos, IsRoute(i), route[i] \in good
      PROVE  RuleOf(i) \in hits /\ RuleOf(i)[2] = route[i].prefix
  <2>1. /\ lpm[RuleOf(i)] = i /\ i # NULL /\ route[i].prefix \in 1 .. W
        /\ route[i].ip \in Addr
    BY <1>4, <1>5, <1>8, RouterAssumption DEF Route
  <2>2. RuleOf(i) \in Rules /\ RuleOf(i)[1] = route[i].ip /\ RuleOf(i)[2] = route[i].prefix
    BY <2>1 DEF RuleOf, Rules
  <2> QED
    BY <1>6, <1>8, <2>1, <2>2
<1>9. ASSUME NEW x \in good PROVE \E i \in Pos : IsRoute(i) /\ x = route[i]
  BY <1>4
<1> HIDE DEF hits, good, long
<1>10. ASSUME good = {} PROVE hits = {}
  BY <1>7, <1>10
<1>11. ASSUME good # {}
       PROVE  /\ LpmLookup(a) \in Pos /\ IsRoute(LpmLookup(a))
              /\ route[LpmLookup(a)] = Best(a)
              /\ Best(a) \in good /\ \A r \in good : r.prefix <= Best(a).prefix
  <2>1. hits # {}
    BY <1>8, <1>9, <1>11
  <2>2. \E r \in hits : \A s \in hits : s[2] <= r[2]
    <3> DEFINE L == {r[2] : r \in hits}
    <3>1. L \in SUBSET (0 .. W) /\ L # {} /\ W \in Nat
      BY <1>7, <2>1, RouterAssumption
    <3>2. PICK x \in L : \A y \in L : x >= y
      BY <3>1, GreatestNumber
    <3>3. PICK r \in hits : x = r[2]
      BY <3>2
    <3>4. ASSUME NEW s \in hits PROVE s[2] <= r[2]
      <4>1. s[2] \in L /\ s[2] \in 0 .. W /\ r[2] \in 0 .. W
        BY <1>7
      <4>2. r[2] >= s[2]
        BY <3>2, <3>3, <4>1
      <4> HIDE DEF L
      <4> QED
        BY <4>1, <4>2
    <3> QED
      BY <3>4
  <2>3. long \in hits /\ \A s \in hits : s[2] <= long[2]
    BY <2>2 DEF long
  <2> DEFINE n == lpm[long]
  <2>4. LpmLookup(a) = n
    BY <1>1, <2>1
  <2>5. /\ n \in Pos /\ IsRoute(n) /\ route[n] \in good /\ route[n].prefix = long[2]
    BY <1>7, <2>3
  <2> HIDE DEF n
  <2>6. ASSUME NEW x \in good PROVE x.prefix <= route[n].prefix
    <3>1. PICK i \in Pos : IsRoute(i) /\ x = route[i]
      BY <1>9
    <3> QED
      BY <1>8, <2>3, <2>5, <3>1
  <2>7. Best(a) \in good /\ \A s \in good : s.prefix <= Best(a).prefix
    BY <1>2, <2>5, <2>6
  <2>8. Best(a).prefix = route[n].prefix
    <3>1. Best(a).prefix <= route[n].prefix /\ route[n].prefix <= Best(a).prefix
      BY <2>5, <2>6, <2>7
    <3>2. Best(a) \in Route /\ route[n] \in Route
      BY <1>5, <2>5, <2>7 DEF good
    <3>3. Best(a).prefix \in Nat /\ route[n].prefix \in Nat
      BY <3>2, RouterAssumption DEF Route, Prefixes
    <3> QED
      BY <3>1, <3>3
  <2>9. Best(a).ip = route[n].ip
    BY <2>5, <2>7, <2>8 DEF good
  <2>10. PICK i \in Pos : IsRoute(i) /\ Best(a) = route[i]
    BY <1>9, <2>7
  <2>11. i = n
    BY <1>4, <2>5, <2>9, <2>10
  <2> QED
    BY <2>4, <2>5, <2>7, <2>10, <2>11
<1> QED
  BY <1>1, <1>3, <1>10, <1>11 DEF good

(* A route is the best one for its own network address: a longer rule that  *)
(* contains it would have the same address.                                 *)
LEMMA OwnNetwork ==
  ASSUME RouteInv, accepted # NULL, NEW i \in Pos, IsRoute(i)
  PROVE  route[i].ip \in Addr /\ Covered(route[i].ip) /\ Best(route[i].ip) = route[i]
<1> DEFINE a == route[i].ip
           p == route[i].prefix
<1>1. /\ accepted = {route[j] : j \in {k \in Pos : IsRoute(k)}}
      /\ \A j \in Pos : IsRoute(j) =>
           route[j].prefix \in 1 .. W /\ \E k \in Nat : route[j].ip = Size(route[j].prefix) * k
      /\ \A j, k \in Pos : IsRoute(j) /\ IsRoute(k) /\ route[j].ip = route[k].ip => j = k
  BY DEF RouteInv, RoutesInv
<1>2. a \in Addr /\ p \in 1 .. W
  BY <1>1 DEF RouteInv, RouteTypes, Route
<1>3. PICK k \in Nat : a = Size(p) * k
  BY <1>1
<1>4. \A q \in 1 .. W : p <= q => Net(a, q) = a
  <2> HIDE DEF a, p
  <2> QED
    BY <1>2, <1>3, NetNested
<1>5. Net(a, p) = a
  BY <1>2, <1>4
<1>6. route[i] \in accepted
  BY <1>1
<1>7. Covered(a)
  BY <1>5, <1>6 DEF Covered
<1>8. /\ Best(a) \in accepted /\ Net(a, Best(a).prefix) = Best(a).ip
      /\ p <= Best(a).prefix
  BY <1>2, <1>5, <1>6, <1>7, LookupBest
<1>9. PICK j \in Pos : IsRoute(j) /\ Best(a) = route[j]
  BY <1>1, <1>8
<1>10. Best(a).ip = a
  BY <1>1, <1>4, <1>8, <1>9
<1>11. j = i
  BY <1>1, <1>9, <1>10
<1> QED
  BY <1>2, <1>7, <1>9, <1>11

LEMMA RouteInvIndex == RouterInv => IndexExact
<1> SUFFICES ASSUME RouterInv PROVE IndexExact
  OBVIOUS
<1>0. ArpTypes /\ RouteTypes /\ RoutesInv /\ IndexInv
  BY DEF RouterInv, ArpInv, RouteInv
<1>1. TypeOK
  <2>1. ASSUME NEW p \in PortIds, arps[p] # NULL, NEW i \in DOMAIN arps[p].at
        PROVE  arps[p].at[i] \in [ip : Addr, mac : Macs \cup {NULL}]
    <3>1. arps[p].at \in [0 .. arps[p].size - 1 -> ArpEntry]
      BY <1>0, <2>1 DEF ArpTypes, IsTable
    <3> QED
      BY <3>1 DEF ArpEntry
  <2> QED
    BY <1>0, <2>1 DEF ArpTypes, RouteTypes, TypeOK, Rules
<1>2. ASSUME accepted # NULL, NEW i \in Pos
      PROVE  {r \in LpmRules : lpm[r] = i}
               = IF IsRoute(i) THEN {<<route[i].ip, route[i].prefix>>} ELSE {}
  <2>1. /\ \A r \in Rules : lpm[r] # NULL => IsRoute(lpm[r]) /\ r = RuleOf(lpm[r])
        /\ \A j \in Pos : IsRoute(j) => lpm[RuleOf(j)] = j
    BY <1>0, <1>2 DEF IndexInv
  <2>2. LpmRules = {r \in Rules : lpm[r] # NULL} /\ i # NULL
    BY <1>0, RouterAssumption DEF LpmRules, RouteTypes
  <2>3. CASE ~IsRoute(i)
    BY <2>1, <2>2, <2>3
  <2>4. CASE IsRoute(i)
    <3>1. RuleOf(i) \in Rules
      <4>1. route[i].ip \in Addr /\ route[i].prefix \in 1 .. W
        BY <1>0, <2>4 DEF RouteTypes, Route, RoutesInv
      <4> QED
        BY <4>1 DEF RuleOf, Rules
    <3>2. {r \in LpmRules : lpm[r] = i} = {RuleOf(i)}
      BY <2>1, <2>2, <2>4, <3>1
    <3> QED
      BY <2>4, <3>2 DEF RuleOf
  <2> QED
    BY <2>3, <2>4
<1> QED
  BY <1>1, <1>2 DEF IndexExact

LEMMA RouteInvLookup == RouterInv => LookupExact
<1> SUFFICES ASSUME RouterInv, accepted # NULL
             PROVE  /\ DumpRoute = accepted
                    /\ \A addr \in Addr :
                         LET a == IF Covered(addr) THEN addr ELSE 0
                         IN FindRoute(addr) = IF Covered(a)
                                                THEN [gw |-> Best(a).gw, port |-> Best(a).port]
                                                ELSE NULL
  BY DEF LookupExact
<1>0. /\ RouteInv /\ route \in [Pos -> Route]
      /\ accepted = {route[i] : i \in {j \in Pos : IsRoute(j)}}
  BY DEF RouterInv, RouteInv, RouteTypes, RoutesInv
<1>1. \A i \in Pos : i # NULL
  BY RouterAssumption
<1>2. ASSUME NEW addr \in Addr
      PROVE  LET a == IF Covered(addr) THEN addr ELSE 0
             IN FindRoute(addr) = IF Covered(a)
                                    THEN [gw |-> Best(a).gw, port |-> Best(a).port]
                                    ELSE NULL
  <2> DEFINE pos == IF LpmLookup(addr) # NULL THEN LpmLookup(addr) ELSE LpmLookup(0)
  <2>1. FindRoute(addr) = IF pos = NULL THEN NULL
                          ELSE [gw |-> route[pos].gw, port |-> route[pos].port]
    BY DEF FindRoute
  <2>2. CASE Covered(addr)
    <3>1. LpmLookup(addr) \in Pos /\ route[LpmLookup(addr)] = Best(addr)
      BY <1>0, <2>2, LookupBest
    <3> QED
      BY <1>1, <2>1, <2>2, <3>1
  <2>3. CASE ~Covered(addr)
    <3>1. LpmLookup(addr) = NULL
      BY <1>0, <2>3, LookupBest
    <3>2. 0 \in Addr
      BY AddrFacts
    <3>3. CASE Covered(0)
      <4>1. LpmLookup(0) \in Pos /\ route[LpmLookup(0)] = Best(0)
        BY <1>0, <3>2, <3>3, LookupBest
      <4> QED
        BY <1>1, <2>1, <2>3, <3>1, <3>3, <4>1
    <3>4. CASE ~Covered(0)
      <4>1. LpmLookup(0) = NULL
        BY <1>0, <3>2, <3>4, LookupBest
      <4> QED
        BY <2>1, <2>3, <3>1, <3>4, <4>1
    <3> QED
      BY <3>3, <3>4
  <2> QED
    BY <2>2, <2>3
<1>3. ASSUME NEW i \in Pos, IsRoute(i)
      PROVE  /\ FindRoute(route[i].ip) = [gw |-> route[i].gw, port |-> route[i].port]
             /\ FindRoute(route[i].ip) # NULL
  <2>1. /\ route[i].ip \in Addr /\ Covered(route[i].ip)
        /\ Best(route[i].ip) = route[i]
    BY <1>0, <1>3, OwnNetwork
  <2>2. FindRoute(route[i].ip) = [gw |-> route[i].gw, port |-> route[i].port]
    BY <1>2, <2>1
  <2>3. route[i].gw \in Addr /\ route[i].port \in PortIds
    BY <1>0 DEF Route
  <2> QED
    BY <2>2, <2>3, RouterAssumption
<1> DEFINE Line(i) == [ip |-> route[i].ip, prefix |-> route[i].prefix,
                       gw |-> FindRoute(route[i].ip).gw, port |-> FindRoute(route[i].ip).port]
<1>4. ASSUME NEW i \in Pos, IsRoute(i) PROVE Line(i) = route[i]
  <2>1. FindRoute(route[i].ip).gw = route[i].gw /\ FindRoute(route[i].ip).port = route[i].port
    <3> DEFINE f == FindRoute(route[i].ip)
    <3>1. f = [gw |-> route[i].gw, port |-> route[i].port]
      BY <1>3, <1>4
    <3> HIDE DEF f
    <3>2. f.gw = route[i].gw /\ f.port = route[i].port
      BY <3>1
    <3> QED
      BY <3>2 DEF f
  <2>2. route[i] = [ip |-> route[i].ip, prefix |-> route[i].prefix,
                    gw |-> route[i].gw, port |-> route[i].port]
    BY <1>0 DEF Route
  <2> QED
    BY <2>1, <2>2
<1>5. {j \in Pos : IsRoute(j) /\ FindRoute(route[j].ip) # NULL} = {j \in Pos : IsRoute(j)}
  BY <1>3
<1>6. DumpRoute = {Line(i) : i \in {j \in Pos : IsRoute(j)}}
  BY <1>5 DEF DumpRoute
<1> HIDE DEF Line
<1>7. DumpRoute = accepted
  BY <1>0, <1>4, <1>6
<1> QED
  BY <1>2, <1>7

(* The LPM table and the arrays of the routing table describe the same      *)
(* routes after any commands, until addRoute leaves a rule without a route. *)
THEOREM IndexSafety == Spec => []IndexExact
  BY RouterInit, RouterStep, RouteInvIndex, PTL DEF Spec

(* flowQoS_router_findRoute and flowQoS_router_dumpRoute give for every     *)
(* address the accepted route with the longest prefix, however nested the   *)
(* networks are, for every width of addresses.                              *)
THEOREM LookupSafety == Spec => []LookupExact
  BY RouterInit, RouterStep, RouteInvLookup, PTL DEF Spec

(* flowQoS_router_get_arp gives the mac that was last put for the address,  *)
(* whatever packets come while ifconfig changes the address and the table.  *)
THEOREM ArpSafety == Spec => []ArpExact
<1>1. RouterInv => ArpExact
  BY ArpInvExact DEF RouterInv
<1> QED
  BY RouterInit, RouterStep, <1>1, PTL DEF Spec
=============================================================================
