------------------------------ MODULE Deadlines ------------------------------
(***************************************************************************)
(* What a set of one-shot timers promises, with time that never wraps: a   *)
(* timer that was armed fires at most once per arming, never before its    *)
(* timeout has passed, and never more than Slack after it.                 *)
(***************************************************************************)
EXTENDS Integers

CONSTANTS Timers, Timeouts, Slack

VARIABLES armed,    \* the timers that owe a callback
          age,      \* age[i]: milliseconds since i was armed
          timeout   \* timeout[i]: what i was last armed with

vars == <<armed, age, timeout>>

Init ==
  /\ armed = {}
  /\ age = [i \in Timers |-> 0]
  /\ timeout = [i \in Timers |-> 0]

\* Time does not pass while a timer is overdue by the whole slack.
Tick ==
  /\ \A i \in armed : age[i] < timeout[i] + Slack
  /\ age' = [i \in Timers |-> IF i \in armed THEN age[i] + 1 ELSE 0]
  /\ UNCHANGED <<armed, timeout>>

Start(i, t) ==
  /\ armed' = armed \cup {i}
  /\ age' = [age EXCEPT ![i] = 0]
  /\ timeout' = [timeout EXCEPT ![i] = t]

Reset(i) ==
  /\ i \in armed
  /\ age' = [age EXCEPT ![i] = 0]
  /\ UNCHANGED <<armed, timeout>>

Disarm(i) ==
  /\ armed' = armed \ {i}
  /\ age' = [age EXCEPT ![i] = 0]
  /\ UNCHANGED timeout

Stop(i) == Disarm(i)
Fire(i) == i \in armed /\ age[i] >= timeout[i] /\ Disarm(i)

Next ==
  \/ Tick
  \/ \E i \in Timers :
       \/ Reset(i) \/ Stop(i) \/ Fire(i)
       \/ \E t \in Timeouts : Start(i, t)

Spec == Init /\ [][Next]_vars
=============================================================================
