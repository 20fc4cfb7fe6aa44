------------------------------- MODULE Alarm -------------------------------
(***************************************************************************)
(* What flowQoS_timer.h promises its users: a timer set to T fires with    *)
(* the tick that comes T ticks later, once, unless it is deleted or set    *)
(* again before.  TimerWheel.tla implements this.                          *)
(***************************************************************************)
EXTENDS Naturals

CONSTANTS Timers, Timeouts, Longest, NONE

VARIABLES
  now,       \* the tick that comes next
  deadline,  \* the tick each timer is set to, or NONE
  fired      \* the timers whose callback the last tick has called

Init ==
  /\ now = 0
  /\ deadline = [t \in Timers |-> NONE]
  /\ fired = {}

Set(t, T) ==
  /\ deadline' = [deadline EXCEPT ![t] = IF T <= Longest THEN now + T ELSE NONE]
  /\ UNCHANGED <<now, fired>>

Cancel(t) ==
  /\ deadline' = [deadline EXCEPT ![t] = NONE]
  /\ UNCHANGED <<now, fired>>

Tick ==
  /\ fired' = {t \in Timers : deadline[t] = now}
  /\ deadline' = [t \in Timers |-> IF t \in fired' THEN NONE ELSE deadline[t]]
  /\ now' = now + 1

Next ==
  \/ \E t \in Timers, T \in Timeouts : Set(t, T)
  \/ \E t \in Timers : Cancel(t)
  \/ Tick

Spec == Init /\ [][Next]_<<now, deadline, fired>>
=============================================================================
