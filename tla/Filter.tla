------------------------------- MODULE Filter -------------------------------
(***************************************************************************)
(* The ConnSched filter of flowQoS_conntrack.c: the time threshold         *)
(* CONN_OFFLOAD_TIME a connection must have lived before it is queued for  *)
(* offloading, raised by its step when more connections were queued in the *)
(* last window than the hardware sustains, lowered by it when not, doubled *)
(* when the scheduler of a worker core reports pressure, and set by hand.  *)
(*                                                                         *)
(* Here each operation is one step.  FilterRace.tla has the loads and the  *)
(* stores the cores make of it, and says when they add up to these steps.  *)
(***************************************************************************)
EXTENDS Integers

CONSTANTS
  Cores,        \* the worker cores, each with a scheduler
  Thresholds,   \* the values tune_filter may give the threshold
  Deltas,       \* the values it may give the step
  Speeds,       \* the values it may give MAX_OFFLOAD_SPEED
  MaxTime,      \* CONN_OFFLOAD_TIME_MAX
  MaxElapsed,   \* bound: windows that may pass between two tunings
  MaxEnqueued   \* bound: connections queued in one window

ASSUME FilterAssumption ==
  /\ MaxTime \in Nat
  /\ Thresholds \subseteq Nat /\ Deltas \subseteq Nat /\ Speeds \subseteq Nat
  /\ Thresholds # {} /\ Deltas # {} /\ Speeds # {}
  /\ MaxElapsed \in Nat /\ MaxEnqueued \in Nat

VARIABLES
  time,        \* CONN_OFFLOAD_TIME
  timeMin,     \* CONN_OFFLOAD_TIME_MIN
  delta,       \* CONN_OFFLOAD_TIME_DELTA
  speed,       \* MAX_OFFLOAD_SPEED, per window
  enqueued,    \* FILTER_WINDOW_ENQUEUED
  expired,     \* now - FILTER_WINDOW_START >= window
  hwCongested  \* each scheduler's flag: its rising edge calls the filter

vars == <<time, timeMin, delta, speed, enqueued, expired, hwCongested>>

AtMost(x) == IF x > MaxTime THEN MaxTime ELSE x

(* flowQoS_conntrack_init_env, with the scheduler enabled.  MaxTime is      *)
(* raised to the configured threshold there, so the latter never exceeds.   *)
Init ==
  /\ time \in {t \in Thresholds : t <= MaxTime}
  /\ timeMin = time
  /\ delta \in Deltas
  /\ speed \in Speeds \ {0}
  /\ enqueued = 0
  /\ expired = FALSE
  /\ hwCongested = [k \in Cores |-> FALSE]

(* Mutant: no upper clamp.                                                  *)
RaisedUnclamped == time + delta

(* Mutant: doubled instead of moved by the step.                            *)
RaisedDoubles == AtMost(2 * time + delta)

(* The threshold after a window in which too many connections were queued.  *)
Raised == AtMost(time + delta)

(* Mutant: a threshold within a step of its minimum is left there.          *)
LoweredStuck == IF time > timeMin + delta THEN time - delta ELSE time

(* ... and after a window in which the hardware kept up.                    *)
Lowered == IF time > timeMin + delta THEN time - delta ELSE timeMin

(* flowQoS_filter_runtime_tune once the window is over: e windows passed    *)
(* since the last tuning.                                                   *)
Tune(e) ==
  /\ speed # 0
  /\ expired
  /\ time' = IF enqueued \div e > speed THEN Raised ELSE Lowered
  /\ enqueued' = 0
  /\ expired' = FALSE
  /\ UNCHANGED <<timeMin, delta, speed, hwCongested>>

(* flowQoS_offload_conn lets a connection through to the scheduler.         *)
Enqueue ==
  /\ enqueued < MaxEnqueued
  /\ enqueued' = enqueued + 1
  /\ UNCHANGED <<time, timeMin, delta, speed, expired, hwCongested>>

WindowElapses ==
  /\ ~expired
  /\ expired' = TRUE
  /\ UNCHANGED <<time, timeMin, delta, speed, enqueued, hwCongested>>

Doubled == AtMost(2 * time)

(* flowQoS_filter_congestion_cb, called on the rising edge of hwCongested.  *)
Congestion(k) ==
  /\ ~hwCongested[k]
  /\ hwCongested' = [hwCongested EXCEPT ![k] = TRUE]
  /\ time' = Doubled
  /\ UNCHANGED <<timeMin, delta, speed, enqueued, expired>>

(* The scheduler sees the occupancy below the watermark again.              *)
Relief(k) ==
  /\ hwCongested[k]
  /\ hwCongested' = [hwCongested EXCEPT ![k] = FALSE]
  /\ UNCHANGED <<time, timeMin, delta, speed, enqueued, expired>>

(* flowQoS_conntrack_tune_filter; a negative argument keeps a value.        *)
TuneThreshold(t) ==
  /\ time' = AtMost(t)
  /\ timeMin' = AtMost(t)
  /\ UNCHANGED <<delta, speed, enqueued, expired, hwCongested>>

TuneRate(d, v) ==
  /\ delta' = d
  /\ speed' = v
  /\ UNCHANGED <<time, timeMin, enqueued, expired, hwCongested>>

Next ==
  \/ \E e \in 1 .. MaxElapsed : Tune(e)
  \/ Enqueue
  \/ WindowElapses
  \/ \E k \in Cores : Congestion(k) \/ Relief(k)
  \/ \E t \in Thresholds : TuneThreshold(t)
  \/ \E d \in Deltas, v \in Speeds : TuneRate(d, v)

Spec == Init /\ [][Next]_vars

(* The clock runs, and the core polls: packets that are counted come in     *)
(* every window.                                                            *)
FairSpec ==
  /\ Spec
  /\ WF_vars(WindowElapses)
  /\ WF_vars(\E e \in 1 .. MaxElapsed : Tune(e))

-----------------------------------------------------------------------------
(* The attributes of the filter hold values their setters may give them.    *)
TypeOK ==
  /\ time \in Nat /\ timeMin \in Nat
  /\ delta \in Deltas /\ speed \in Speeds
  /\ enqueued \in 0 .. MaxEnqueued
  /\ expired \in BOOLEAN /\ hwCongested \in [Cores -> BOOLEAN]

(* "lower bound of dynamic time threshold" and "upper bound of dynamic time *)
(* threshold" (struct FlowQoS_CONN_ATTR in flowQoS_conntrack.c): no         *)
(* sequence of tunings, pressure reports and settings leaves them.          *)
TimeInBounds == timeMin <= time /\ time <= MaxTime

(* A tuning follows the load: the threshold rises only after a window with  *)
(* more connections than the speed allows, and goes neither up nor down by  *)
(* more than a step, whatever pressure reports and settings came before.    *)
Follows ==
  (expired /\ ~expired') =>
     /\ time' > time => enqueued > speed /\ time' <= time + delta
     /\ time' < time => time' >= time - delta

ThresholdFollows == [][Follows]_vars

(* After an overload has passed the filter opens again: if from some moment *)
(* on windows stay quiet, there is no pressure and tuning is on, the        *)
(* threshold comes back to its minimum.                                     *)
Reopens ==
  <>[](enqueued = 0 /\ (\A k \in Cores : ~hwCongested[k]) /\ delta > 0 /\ speed > 0) =>
    []<>(time = timeMin)
=============================================================================
