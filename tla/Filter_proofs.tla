--------------------------- MODULE Filter_proofs ---------------------------
(***************************************************************************)
(* The bounds of the time threshold for every choice of thresholds, steps  *)
(* and speeds, when the operations of the filter are atomic.               *)
(***************************************************************************)
EXTENDS Filter, TLAPS

FilterInv == TypeOK /\ TimeInBounds

(* The configured threshold lies within its bounds.                         *)
LEMMA FilterInit == Init => FilterInv
<1> SUFFICES ASSUME Init PROVE FilterInv
  OBVIOUS
<1>1. time \in Nat /\ time <= MaxTime /\ timeMin = time /\ MaxTime \in Nat
  BY FilterAssumption DEF Init
<1>2. enqueued \in 0 .. MaxEnqueued
  BY FilterAssumption DEF Init
<1>3. delta \in Deltas /\ speed \in Speeds
      /\ expired \in BOOLEAN /\ hwCongested \in [Cores -> BOOLEAN]
  BY DEF Init
<1>4. QED
  BY <1>1, <1>2, <1>3 DEF FilterInv, TypeOK, TimeInBounds

(* No operation of the filter moves the threshold out of its bounds.        *)
LEMMA FilterStep == FilterInv /\ [Next]_vars => FilterInv'
<1> SUFFICES ASSUME FilterInv, [Next]_vars PROVE FilterInv'
  OBVIOUS
<1>1. /\ time \in Nat /\ timeMin \in Nat /\ delta \in Nat
      /\ timeMin <= time /\ time <= MaxTime /\ MaxTime \in Nat
      /\ TypeOK
  BY FilterAssumption DEF FilterInv, TypeOK, TimeInBounds
<1>2. ASSUME NEW e \in 1 .. MaxElapsed, Tune(e)
      PROVE  FilterInv'
  <2>1. /\ Raised \in Nat /\ timeMin <= Raised /\ Raised <= MaxTime
    BY <1>1 DEF Raised, AtMost
  <2>2. /\ Lowered \in Nat /\ timeMin <= Lowered /\ Lowered <= MaxTime
    BY <1>1 DEF Lowered
  <2>3. time' \in {Raised, Lowered} /\ timeMin' = timeMin
    BY <1>2 DEF Tune
  <2>4. TimeInBounds' /\ time' \in Nat
    BY <2>1, <2>2, <2>3 DEF TimeInBounds
  <2>5. enqueued' \in 0 .. MaxEnqueued
    BY <1>2, FilterAssumption DEF Tune
  <2>6. expired' \in BOOLEAN /\ UNCHANGED <<timeMin, delta, speed, hwCongested>>
    BY <1>2 DEF Tune
  <2>7. TypeOK'
    BY <1>1, <2>4, <2>5, <2>6 DEF TypeOK
  <2>8. QED
    BY <2>4, <2>7 DEF FilterInv
<1>3. CASE Enqueue
  BY <1>1, <1>3, FilterAssumption DEF Enqueue, FilterInv, TypeOK, TimeInBounds
<1>4. CASE WindowElapses
  BY <1>1, <1>4 DEF WindowElapses, FilterInv, TypeOK, TimeInBounds
<1>5. ASSUME NEW k \in Cores, Congestion(k)
      PROVE  FilterInv'
  <2>1. Doubled \in Nat /\ timeMin <= Doubled /\ Doubled <= MaxTime
    BY <1>1 DEF Doubled, AtMost
  <2>2. QED
    BY <1>1, <1>5, <2>1 DEF Congestion, FilterInv, TypeOK, TimeInBounds
<1>6. ASSUME NEW k \in Cores, Relief(k)
      PROVE  FilterInv'
  BY <1>1, <1>6 DEF Relief, FilterInv, TypeOK, TimeInBounds
<1>7. ASSUME NEW t \in Thresholds, TuneThreshold(t)
      PROVE  FilterInv'
  <2>1. AtMost(t) \in Nat /\ AtMost(t) <= MaxTime
    BY <1>1, FilterAssumption DEF AtMost
  <2>2. QED
    BY <1>1, <1>7, <2>1 DEF TuneThreshold, FilterInv, TypeOK, TimeInBounds
<1>8. ASSUME NEW d \in Deltas, NEW v \in Speeds, TuneRate(d, v)
      PROVE  FilterInv'
  BY <1>1, <1>8 DEF TuneRate, FilterInv, TypeOK, TimeInBounds
<1>9. CASE UNCHANGED vars
  BY <1>1, <1>9 DEF vars, FilterInv, TypeOK, TimeInBounds
<1>10. QED
  BY <1>2, <1>3, <1>4, <1>5, <1>6, <1>7, <1>8, <1>9 DEF Next

(* CONN_OFFLOAD_TIME never leaves [CONN_OFFLOAD_TIME_MIN,                   *)
(* CONN_OFFLOAD_TIME_MAX] as long as its operations do not overlap (see     *)
(* AtomicUntilRaced of FilterRace.tla).                                     *)
THEOREM ThresholdBounds == Spec => []TimeInBounds
<1>1. FilterInv => TimeInBounds
  BY DEF FilterInv
<1>2. QED
  BY FilterInit, FilterStep, <1>1, PTL DEF Spec

(* A tuning follows the load of its window, by at most one step.            *)
THEOREM TuningFollows == Spec => ThresholdFollows
<1>1. FilterInv /\ [Next]_vars => [Follows]_vars
  <2> SUFFICES ASSUME FilterInv, Next PROVE Follows
    OBVIOUS
  <2>1. /\ time \in Nat /\ timeMin \in Nat /\ delta \in Nat /\ speed \in Nat
        /\ enqueued \in Nat /\ timeMin <= time /\ time <= MaxTime /\ MaxTime \in Nat
    BY FilterAssumption DEF FilterInv, TypeOK, TimeInBounds
  <2>2. ASSUME NEW e \in 1 .. MaxElapsed, Tune(e)
        PROVE  Follows
    <3>1. CASE enqueued \div e > speed
      <4>1. enqueued > speed
        <5>1. enqueued \div e <= enqueued /\ enqueued \div e \in Nat /\ e \in Nat \ {0}
          BY <2>1, FilterAssumption
        <5>2. QED
          BY <2>1, <3>1, <5>1
      <4>2. time' = Raised
        BY <2>2, <3>1 DEF Tune
      <4>3. Raised <= time + delta /\ Raised >= time /\ Raised \in Nat
        BY <2>1 DEF Raised, AtMost
      <4>4. QED
        BY <2>1, <4>1, <4>2, <4>3 DEF Follows
    <3>2. CASE ~(enqueued \div e > speed)
      <4>1. time' = Lowered /\ Lowered >= time - delta /\ Lowered <= time /\ Lowered \in Nat
        BY <2>1, <2>2, <3>2 DEF Tune, Lowered
      <4>2. QED
        BY <2>1, <4>1 DEF Follows
    <3>3. QED
      BY <3>1, <3>2
  <2>3. CASE ~\E e \in 1 .. MaxElapsed : Tune(e)
    BY <2>3 DEF Next, Enqueue, WindowElapses, Congestion, Relief,
                TuneThreshold, TuneRate, Follows
  <2>4. QED
    BY <2>2, <2>3
<1>2. QED
  BY FilterInit, FilterStep, <1>1, PTL DEF Spec, ThresholdFollows
=============================================================================
