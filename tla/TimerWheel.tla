----------------------------- MODULE TimerWheel -----------------------------
(***************************************************************************)
(* flowQoS_timer.c: the hierarchical timing wheel of one core.             *)
(*                                                                         *)
(* A bucket is the set of the timers linked into it: the only callback of  *)
(* the program, flowQoS_conn_expire_sw_cb, touches no other timer, so the  *)
(* order in a bucket does not matter and a tick, callbacks included, is    *)
(* one step.  Every timer is one-shot (flowQoS_timer_add and _reset pass   *)
(* repeat 0), so timer_again does nothing.  The wrap of the 64-bit tick    *)
(* counter is out of reach.                                                *)
(***************************************************************************)
EXTENDS Integers

CONSTANTS
  Timers,
  NONE,
  TIMER_WHEEL_BITS,    \* a wheel has 2^TIMER_WHEEL_BITS buckets
  TIMER_WHEEL_COUNT,   \* number of wheels
  Timeouts,            \* the timeouts users ask for
  MaxTicks,            \* bound: how far the clock goes
  MaxLag               \* bound: ticks the wheel may be behind the clock

(* The ticks a bucket of wheel w stands for: timeout is shifted right by    *)
(* TIMER_WHEEL_BITS * w.                                                    *)
Span(w) == 2 ^ (TIMER_WHEEL_BITS * w)

TIMER_BUCKET_COUNT == 2 ^ TIMER_WHEEL_BITS
TIMER_MAX_TIMEOUT  == 2 ^ (TIMER_WHEEL_COUNT * TIMER_WHEEL_BITS) - 1

Wheels  == 0 .. TIMER_WHEEL_COUNT - 1
Buckets == 0 .. TIMER_BUCKET_COUNT - 1

ASSUME TimerWheelAssumption ==
  /\ TIMER_WHEEL_BITS \in Nat \ {0}
  /\ TIMER_WHEEL_COUNT \in Nat \ {0}
  /\ Timeouts \subseteq Nat
  /\ MaxTicks \in Nat /\ MaxLag \in Nat
  /\ NONE \notin Nat /\ NONE \notin Wheels \X Buckets

VARIABLES
  clock,    \* the tick periods that have begun since startStmp
  now,      \* timer_mgr->timeout, the tick that comes next
  timeout,  \* timer->timeout
  place,    \* the wheel and bucket each timer is linked into, or NONE
  fired     \* the timers whose callback the last tick has called

timerVars == <<clock, now, timeout, place, fired>>

TimerInit ==
  /\ clock = 0
  /\ now = 0
  /\ timeout = [t \in Timers |-> 0]
  /\ place = [t \in Timers |-> NONE]
  /\ fired = {}

TIMER_WHEEL_CUR_INDEX(w) == (now \div Span(w)) % TIMER_BUCKET_COUNT

(* The wheel for a timer that has T ticks left.                             *)
WheelOf(T) == CHOOSE w \in Wheels : T < Span(w + 1) /\ (w = 0 \/ T >= Span(w))

(* Mutant: the bucket does not turn with the wheel.                         *)
BucketForStill(T) ==
  <<WheelOf(T), (T \div Span(WheelOf(T))) % TIMER_BUCKET_COUNT>>

(* The bucket timer_start links a timer into.  The low digits of now and of *)
(* T are dropped before the two are added: a carry between them is lost.    *)
BucketFor(T) ==
  LET w == WheelOf(T)
  IN <<w, (TIMER_WHEEL_CUR_INDEX(w) + T \div Span(w)) % TIMER_BUCKET_COUNT>>

(* timer_start: T is refused when it is longer than the wheels reach.       *)
Start(t, T) ==
  IF T > TIMER_MAX_TIMEOUT
    THEN place' = [place EXCEPT ![t] = NONE] /\ UNCHANGED timeout
    ELSE /\ timeout' = [timeout EXCEPT ![t] = now + T]
         /\ place' = [place EXCEPT ![t] = BucketFor(T)]

Linked(t) == place[t] # NONE

(* flowQoS_timer_add, for a timer that is in no bucket.                     *)
Add(t, T) ==
  /\ ~Linked(t)
  /\ Start(t, T)
  /\ UNCHANGED <<clock, now, fired>>

(* flowQoS_timer_reset: timer_stop, then timer_start.                       *)
Reset(t, T) ==
  /\ Linked(t)
  /\ Start(t, T)
  /\ UNCHANGED <<clock, now, fired>>

(* flowQoS_timer_del                                                        *)
Del(t) ==
  /\ place' = [place EXCEPT ![t] = NONE]
  /\ UNCHANGED <<clock, now, timeout, fired>>

(* Mutant: no wheel is ever cascaded.                                       *)
CascadingNever == {}

(* The wheels timer_tick cascades: when wheel 0 comes round, wheel 1, and   *)
(* each further one when the one below it is at its bucket 0.               *)
Cascading ==
  {w \in Wheels \ {0} : \A v \in 0 .. w - 1 : TIMER_WHEEL_CUR_INDEX(v) = 0}

(* timer_cascade takes the timers out of the current bucket of each.        *)
Cascaded(t) ==
  /\ Linked(t)
  /\ place[t][1] \in Cascading
  /\ place[t][2] = TIMER_WHEEL_CUR_INDEX(place[t][1])

(* Mutant: the timers of the bucket are dropped when they have nothing left.*)
AfterCascadeDrops(t) ==
  IF Cascaded(t) THEN IF timeout[t] = now THEN NONE ELSE BucketFor(timeout[t] - now)
                 ELSE place[t]

(* ... and links them again for what they have left.                        *)
AfterCascade(t) ==
  IF Cascaded(t) THEN BucketFor(timeout[t] - now) ELSE place[t]

(* timer_tick, called by flowQoS_timer_tick when its period has begun: at   *)
(* most one tick per pass of the worker's loop.                             *)
Tick ==
  /\ now < clock
  /\ fired' = {t \in Timers : AfterCascade(t) = <<0, TIMER_WHEEL_CUR_INDEX(0)>>}
  /\ place' = [t \in Timers |-> IF t \in fired' THEN NONE ELSE AfterCascade(t)]
  /\ now' = now + 1
  /\ UNCHANGED <<clock, timeout>>

(* Time passes; the core may be busy elsewhere for up to MaxLag periods.    *)
ClockRuns ==
  /\ clock < MaxTicks
  /\ clock - now < MaxLag
  /\ clock' = clock + 1
  /\ UNCHANGED <<now, timeout, place, fired>>

TimerNext ==
  \/ \E t \in Timers, T \in Timeouts : Add(t, T) \/ Reset(t, T)
  \/ \E t \in Timers : Del(t)
  \/ Tick
  \/ ClockRuns

TimerSpec == TimerInit /\ [][TimerNext]_timerVars

(* The worker calls flowQoS_timer_tick in every pass of its loop.           *)
TimerFairSpec == TimerSpec /\ WF_timerVars(Tick) /\ WF_timerVars(ClockRuns)

-----------------------------------------------------------------------------
(* A timer is in no bucket or in one of the wheels, and the wheel is never  *)
(* ahead of the clock.                                                      *)
TimerTypeOK ==
  /\ clock \in 0 .. MaxTicks
  /\ now \in 0 .. clock
  /\ timeout \in [Timers -> Nat]
  /\ place \in [Timers -> {NONE} \cup (Wheels \X Buckets)]
  /\ fired \subseteq Timers

(* assert(timer->timeout >= timer_mgr->timeout) in timer_cascade: no timer  *)
(* is still in a wheel when its tick has passed, so that the unsigned       *)
(* difference does not wrap.                                                *)
CascadeAssertion ==
  /\ TimerTypeOK
  /\ \A t \in Timers : Cascaded(t) => timeout[t] >= now

(* The wheels do what Alarm promises: whatever turns, carries and cascades  *)
(* a timer goes through, its callback runs in exactly the tick it was set   *)
(* to, and in no other.                                                     *)
Promise == INSTANCE Alarm WITH
  Longest  <- TIMER_MAX_TIMEOUT,
  deadline <- [t \in Timers |-> IF Linked(t) THEN timeout[t] ELSE NONE]
ImplementsAlarm == Promise!Spec

(* A timer nobody deletes or sets again does not stay in the wheels: none   *)
(* is linked for the same tick for ever (ticks within the horizon).         *)
Fires ==
  \A t \in Timers, d \in 0 .. MaxTicks - 1 :
    ~ <>[](Linked(t) /\ timeout[t] = d)
=============================================================================
