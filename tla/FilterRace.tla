----------------------------- MODULE FilterRace -----------------------------
(***************************************************************************)
(* The ConnSched filter as several worker cores and the caller of          *)
(* flowQoS_conntrack_tune_filter run it.  `attr' in flowQoS_conntrack.c is *)
(* one plain static struct without lock or atomic, and the build is a      *)
(* debug build, so every access of the source is a load or a store of its  *)
(* own; the steps below are those accesses, but for two: the start of the  *)
(* window and the speed are tested in one step with the count, and the     *)
(* step is read with the threshold.  Every behaviour here is one of the    *)
(* code, not the other way round.  64-bit unsigned arithmetic is           *)
(* arithmetic modulo Word.                                                 *)
(***************************************************************************)
EXTENDS Integers

CONSTANTS
  Workers,
  Thresholds,   \* the values tune_filter may give the threshold
  Deltas,       \* the values it may give the step
  Speeds,       \* the values it may give MAX_OFFLOAD_SPEED
  MaxTime,      \* CONN_OFFLOAD_TIME_MAX
  Word,         \* 2^64
  MaxElapsed,   \* bound: windows that may pass between two tunings
  MaxEnqueued   \* bound: connections queued in one window

ASSUME FilterRaceAssumption ==
  /\ MaxTime \in Nat /\ Word \in Nat /\ 2 * MaxTime < Word
  /\ Thresholds \subseteq Nat /\ Deltas \subseteq Nat /\ Speeds \subseteq Nat
  /\ \A d \in Deltas : MaxTime + d < Word

VARIABLES
  time,         \* attr.CONN_OFFLOAD_TIME
  timeMin,      \* attr.CONN_OFFLOAD_TIME_MIN
  delta,        \* attr.CONN_OFFLOAD_TIME_DELTA
  speed,        \* attr.MAX_OFFLOAD_SPEED, per window
  enqueued,     \* attr.FILTER_WINDOW_ENQUEUED
  expired,      \* now - attr.FILTER_WINDOW_START >= window
  pc,           \* where each worker is
  reg,          \* what it loaded of the threshold
  seen,         \* what it loaded of the count
  hwCongested,  \* the flag of its scheduler
  cpc,          \* where the caller of tune_filter is
  creg,         \* what it loaded of the threshold
  raced         \* history: two operations on the same attribute overlapped

vars == <<time, timeMin, delta, speed, enqueued, expired, pc, reg, seen,
          hwCongested, cpc, creg, raced>>

(* What only tune_filter stores, and what only the workers do.              *)
settings == <<timeMin, delta, speed, cpc, creg>>
cores == <<enqueued, expired, pc, reg, seen, hwCongested>>

Init ==
  /\ time \in {t \in Thresholds : t <= MaxTime}
  /\ timeMin = time
  /\ delta \in Deltas
  /\ speed \in Speeds \ {0}
  /\ enqueued = 0
  /\ expired = FALSE
  /\ pc = [w \in Workers |-> "poll"]
  /\ reg = [w \in Workers |-> 0]
  /\ seen = [w \in Workers |-> 0]
  /\ hwCongested = [w \in Workers |-> FALSE]
  /\ cpc = "idle"
  /\ creg = 0
  /\ raced = FALSE

Goto(w, from, to) == pc[w] = from /\ pc' = [pc EXCEPT ![w] = to]

-----------------------------------------------------------------------------
(* flowQoS_filter_runtime_tune                                              *)

(* Tuning is on and the window over; the count is read and the rate         *)
(* compared.                                                                *)
TuneBegin(w, e) ==
  /\ speed # 0
  /\ expired
  /\ Goto(w, "poll", IF enqueued \div e > speed THEN "raise" ELSE "lower")
  /\ seen' = [seen EXCEPT ![w] = enqueued]
  /\ UNCHANGED <<time, enqueued, expired, reg, hwCongested>>

(* attr.CONN_OFFLOAD_TIME += DELTA: load ...                                *)
RaiseLoad(w) ==
  /\ Goto(w, "raise", "raise_store")
  /\ reg' = [reg EXCEPT ![w] = time]
  /\ UNCHANGED <<time, enqueued, expired, seen, hwCongested>>

(* ... and store.                                                           *)
RaiseStore(w) ==
  /\ Goto(w, "raise_store", "raise_clamp")
  /\ time' = (reg[w] + delta) % Word
  /\ UNCHANGED <<enqueued, expired, reg, seen, hwCongested>>

(* if (CONN_OFFLOAD_TIME > CONN_OFFLOAD_TIME_MAX)                           *)
ClampTest(w, from, atMax, done) ==
  /\ Goto(w, from, IF time > MaxTime THEN atMax ELSE done)
  /\ UNCHANGED <<time, enqueued, expired, reg, seen, hwCongested>>

(* CONN_OFFLOAD_TIME = CONN_OFFLOAD_TIME_MAX                                *)
ClampStore(w, from, done) ==
  /\ Goto(w, from, done)
  /\ time' = MaxTime
  /\ UNCHANGED <<enqueued, expired, reg, seen, hwCongested>>

(* if (CONN_OFFLOAD_TIME > CONN_OFFLOAD_TIME_MIN + DELTA)                   *)
LowerTest(w) ==
  /\ Goto(w, "lower", IF time > (timeMin + delta) % Word THEN "lower_load" ELSE "lower_min")
  /\ reg' = [reg EXCEPT ![w] = time]
  /\ UNCHANGED <<time, enqueued, expired, seen, hwCongested>>

(* CONN_OFFLOAD_TIME -= DELTA loads the threshold a second time.            *)
LowerLoad(w) ==
  /\ Goto(w, "lower_load", "lower_store")
  /\ reg' = [reg EXCEPT ![w] = time]
  /\ UNCHANGED <<time, enqueued, expired, seen, hwCongested>>

LowerStore(w) ==
  /\ Goto(w, "lower_store", "reset_count")
  /\ time' = (reg[w] - delta) % Word
  /\ UNCHANGED <<enqueued, expired, reg, seen, hwCongested>>

LowerMin(w) ==
  /\ Goto(w, "lower_min", "reset_count")
  /\ time' = timeMin
  /\ UNCHANGED <<enqueued, expired, reg, seen, hwCongested>>

ResetCount(w) ==
  /\ Goto(w, "reset_count", "reset_start")
  /\ enqueued' = 0
  /\ UNCHANGED <<time, expired, reg, seen, hwCongested>>

ResetStart(w) ==
  /\ Goto(w, "reset_start", "poll")
  /\ expired' = FALSE
  /\ UNCHANGED <<time, enqueued, reg, seen, hwCongested>>

-----------------------------------------------------------------------------
(* attr.FILTER_WINDOW_ENQUEUED++ of flowQoS_offload_conn                    *)
EnqueueLoad(w) ==
  /\ enqueued < MaxEnqueued
  /\ Goto(w, "poll", "enqueue_store")
  /\ seen' = [seen EXCEPT ![w] = enqueued]
  /\ UNCHANGED <<time, enqueued, expired, reg, hwCongested>>

EnqueueStore(w) ==
  /\ Goto(w, "enqueue_store", "poll")
  /\ enqueued' = seen[w] + 1
  /\ UNCHANGED <<time, expired, reg, seen, hwCongested>>

(* flowQoS_filter_congestion_cb, after the scheduler has set its flag.      *)
CongestionBegin(w) ==
  /\ ~hwCongested[w]
  /\ Goto(w, "poll", "double")
  /\ hwCongested' = [hwCongested EXCEPT ![w] = TRUE]
  /\ UNCHANGED <<time, enqueued, expired, reg, seen>>

DoubleLoad(w) ==
  /\ Goto(w, "double", "double_store")
  /\ reg' = [reg EXCEPT ![w] = time]
  /\ UNCHANGED <<time, enqueued, expired, seen, hwCongested>>

DoubleStore(w) ==
  /\ Goto(w, "double_store", "double_clamp")
  /\ time' = (2 * reg[w]) % Word
  /\ UNCHANGED <<enqueued, expired, reg, seen, hwCongested>>

Relief(w) ==
  /\ hwCongested[w]
  /\ pc[w] = "poll"
  /\ hwCongested' = [hwCongested EXCEPT ![w] = FALSE]
  /\ UNCHANGED <<time, enqueued, expired, pc, reg, seen>>

Worker(w) ==
  \/ \E e \in 1 .. MaxElapsed : TuneBegin(w, e)
  \/ RaiseLoad(w)
  \/ RaiseStore(w)
  \/ ClampTest(w, "raise_clamp", "raise_max", "reset_count")
  \/ ClampStore(w, "raise_max", "reset_count")
  \/ LowerTest(w)
  \/ LowerLoad(w)
  \/ LowerStore(w)
  \/ LowerMin(w)
  \/ ResetCount(w)
  \/ ResetStart(w)
  \/ EnqueueLoad(w)
  \/ EnqueueStore(w)
  \/ CongestionBegin(w)
  \/ DoubleLoad(w)
  \/ DoubleStore(w)
  \/ ClampTest(w, "double_clamp", "double_max", "poll")
  \/ ClampStore(w, "double_max", "poll")
  \/ Relief(w)

-----------------------------------------------------------------------------
(* flowQoS_conntrack_tune_filter: a negative argument keeps a value.        *)

CGoto(from, to) == cpc = from /\ cpc' = to

(* CONN_OFFLOAD_TIME = timeThresholdUs in cycles                            *)
SetTime(t) ==
  /\ CGoto("idle", "load_min")
  /\ time' = t
  /\ UNCHANGED <<timeMin, delta, speed, creg>>

KeepTime ==
  /\ CGoto("idle", "delta")
  /\ UNCHANGED <<time, timeMin, delta, speed, creg>>

(* CONN_OFFLOAD_TIME_MIN = CONN_OFFLOAD_TIME: load ...                      *)
LoadMin ==
  /\ CGoto("load_min", "store_min")
  /\ creg' = time
  /\ UNCHANGED <<time, timeMin, delta, speed>>

(* ... and store.                                                           *)
StoreMin ==
  /\ CGoto("store_min", "delta")
  /\ timeMin' = creg
  /\ UNCHANGED <<time, delta, speed, creg>>

SetDelta(d) ==
  /\ CGoto("delta", "speed")
  /\ delta' = d
  /\ UNCHANGED <<time, timeMin, speed, creg>>

SetSpeed(v) ==
  /\ CGoto("speed", "clamp_time")
  /\ speed' = v
  /\ UNCHANGED <<time, timeMin, delta, creg>>

ClampTime ==
  /\ CGoto("clamp_time", IF time > MaxTime THEN "time_max" ELSE "clamp_min")
  /\ UNCHANGED <<time, timeMin, delta, speed, creg>>

TimeToMax ==
  /\ CGoto("time_max", "clamp_min")
  /\ time' = MaxTime
  /\ UNCHANGED <<timeMin, delta, speed, creg>>

(* Mutant: only the threshold is clamped, not its minimum.                  *)
ClampMinForgotten ==
  /\ CGoto("clamp_min", "idle")
  /\ UNCHANGED <<time, timeMin, delta, speed, creg>>

ClampMin ==
  /\ CGoto("clamp_min", IF timeMin > MaxTime THEN "min_max" ELSE "idle")
  /\ UNCHANGED <<time, timeMin, delta, speed, creg>>

MinToMax ==
  /\ CGoto("min_max", "idle")
  /\ timeMin' = MaxTime
  /\ UNCHANGED <<time, delta, speed, creg>>

TuneFilter ==
  \/ \E t \in Thresholds : SetTime(t)
  \/ KeepTime
  \/ LoadMin
  \/ StoreMin
  \/ \E d \in Deltas : SetDelta(d)
  \/ \E v \in Speeds : SetSpeed(v)
  \/ ClampTime
  \/ TimeToMax
  \/ ClampMin
  \/ MinToMax

-----------------------------------------------------------------------------
WindowElapses ==
  /\ ~expired
  /\ expired' = TRUE
  /\ UNCHANGED <<time, settings, enqueued, pc, reg, seen, hwCongested>>

(* Between the first and the last access of an operation.                   *)
Doubling == {"double_store", "double_clamp", "double_max"}
Tuning == {"raise", "raise_store", "raise_clamp", "raise_max",
           "lower", "lower_load", "lower_store", "lower_min",
           "reset_count", "reset_start"}

TimeBusy(w) == pc[w] \in Tuning \cup Doubling
CountBusy(w) == pc[w] \in Tuning \cup {"enqueue_store"}

(* Two operations on the threshold, or on the count, are under way at once. *)
Clash ==
  \/ \E v, w \in Workers :
       v # w /\ ((TimeBusy(v) /\ TimeBusy(w)) \/ (CountBusy(v) /\ CountBusy(w)))
  \/ cpc # "idle" /\ (\E w \in Workers : TimeBusy(w))

Next ==
  /\ \/ \E w \in Workers : Worker(w) /\ UNCHANGED settings
     \/ TuneFilter /\ UNCHANGED cores
     \/ WindowElapses
  /\ raced' = (raced \/ Clash')

Spec == Init /\ [][Next]_vars

-----------------------------------------------------------------------------
(* While operations do not overlap, each takes effect when it returns, and  *)
(* until then the values it loaded are the current ones; a setting takes    *)
(* effect, clamped, when it is stored.                                      *)

Loaded == Doubling \cup (Tuning \ {"raise", "lower"})

AtMost(x) == IF x > MaxTime THEN MaxTime ELSE x

(* The value f has for the worker whose place p[w] is in S, x if there is   *)
(* none.                                                                    *)
Holding(p, S) == {w \in Workers : p[w] \in S}
HeldOr(p, S, f, x) ==
  IF Holding(p, S) = {} THEN x ELSE f[CHOOSE w \in Holding(p, S) : TRUE]

absTime == HeldOr(pc, Loaded, reg, IF cpc = "idle" THEN time ELSE AtMost(time))
absTimeMin ==
  IF cpc = "idle" THEN timeMin
  ELSE IF cpc \in {"load_min", "store_min"} THEN AtMost(time) ELSE AtMost(timeMin)
absEnqueued == HeldOr(pc, Tuning, seen, enqueued)
absCongested ==
  [w \in Workers |-> hwCongested[w] /\ pc[w] \notin Doubling \cup {"double"}]

Atomic == INSTANCE Filter WITH
  Cores       <- Workers,
  time        <- absTime,
  timeMin     <- absTimeMin,
  enqueued    <- absEnqueued,
  hwCongested <- absCongested

(* Until two operations on the threshold or on the count overlap, the loads *)
(* and stores of all the workers and of tune_filter add up to the           *)
(* operations of Filter.tla: flowQoS_filter_runtime_tune,                   *)
(* flowQoS_filter_congestion_cb, the counting in flowQoS_offload_conn and   *)
(* flowQoS_conntrack_tune_filter.  Nothing else the code interleaves, a     *)
(* doubling between the load and the store of a count, a setting in the     *)
(* middle of a connection being counted, loses an update.                   *)
AtomicUntilRaced == Atomic!Init /\ [][Atomic!Next \/ raced']_(Atomic!vars)
=============================================================================
