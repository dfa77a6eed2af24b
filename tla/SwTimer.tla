------------------------------- MODULE SwTimer -------------------------------
(***************************************************************************)
(* Services/sw_timer over Bsp/systick_bsp: one-shot timers on a tick that  *)
(* wraps.  sw_timer_process samples the tick once and then visits the      *)
(* table; the interrupt goes on counting meanwhile, and a callback may arm *)
(* timers (its own: that is how the code makes one periodic).              *)
(*                                                                         *)
(* Modelled are the steps of the pass, each callback's own timer calls,    *)
(* and the calls of the main loop between two passes.  A timer is its slot *)
(* of g_timer_table.                                                       *)
(***************************************************************************)
EXTENDS Integers

CONSTANTS N,          \* SW_TIMER_MAX_TIMERS, 8 in the code
          W,          \* number of values of the tick, 2^32 in the code
          Timeouts,   \* timeouts the callers use
          MaxLag,     \* bound: ticks from one pass of the main loop to the next
          MayArm      \* MayArm[i]: the timers the callback of i arms

Slots == 1 .. N

\* A timer nobody visits for a whole turn of the tick looks young again: the
\* loop's lag and the timeouts must stay well within one turn.
ASSUME TimerAssumption ==
  /\ N \in Nat \ {0} /\ W \in Nat /\ MaxLag \in Nat
  /\ Timeouts \subseteq Nat
  /\ 2 * MaxLag < W
  /\ \A t \in Timeouts : t + 2 * MaxLag < W
  /\ MayArm \in [Slots -> SUBSET Slots]

VARIABLES
  tick,        \* uwTick
  created,     \* how many slots of g_timer_table are taken
  is_active, start_tick, timeout_ms,   \* the fields of each timer
  pc,          \* the main loop: elsewhere, visiting a slot, in a callback
  index, now,  \* locals of sw_timer_process
  lag,         \* ticks since the last sw_timer_process took its sample
  age          \* history: ticks since a timer was armed, which the code knows
               \* only modulo W

loop   == <<pc, index, now>>
timers == <<is_active, start_tick, timeout_ms, age>>
vars   == <<tick, created, timers, loop, lag>>

Init ==
  /\ tick \in 0 .. W - 1
  /\ created = 0
  /\ is_active = [i \in Slots |-> FALSE]
  /\ start_tick = [i \in Slots |-> 0]
  /\ timeout_ms = [i \in Slots |-> 0]
  /\ pc = "idle" /\ index = 0 /\ now = 0
  /\ lag = 0
  /\ age = [i \in Slots |-> 0]

-----------------------------------------------------------------------------
\* Unsigned arithmetic of the tick.
Incremented(t) == IF t + 1 = W THEN 0 ELSE t + 1
Minus(a, b)    == IF a >= b THEN a - b ELSE a - b + W

\* HAL_IncTick, in the SysTick interrupt: between any two steps of the loop.
Tick ==
  /\ lag < MaxLag
  /\ tick' = Incremented(tick)
  /\ lag' = lag + 1
  /\ age' = [i \in Slots |-> IF is_active[i] THEN age[i] + 1 ELSE 0]
  /\ UNCHANGED <<created, is_active, start_tick, timeout_ms, loop>>

-----------------------------------------------------------------------------
Create ==
  /\ pc = "idle" /\ created < N
  /\ created' = created + 1
  /\ is_active' = [is_active EXCEPT ![created + 1] = FALSE]
  /\ start_tick' = [start_tick EXCEPT ![created + 1] = 0]
  /\ timeout_ms' = [timeout_ms EXCEPT ![created + 1] = 0]
  /\ UNCHANGED <<tick, loop, lag, age>>

\* Who may call sw_timer_start and sw_timer_reset, and for which timer.
MayCall(i) ==
  /\ i <= created
  /\ \/ pc = "idle"
     \/ pc = "callback" /\ i \in MayArm[index]

\* Arming with the sample of the pass that ran last, instead of the tick.
StartFromSample(i, t) ==
  /\ MayCall(i)
  /\ start_tick' = [start_tick EXCEPT ![i] = now]
  /\ timeout_ms' = [timeout_ms EXCEPT ![i] = t]
  /\ is_active' = [is_active EXCEPT ![i] = TRUE]
  /\ age' = [age EXCEPT ![i] = 0]
  /\ UNCHANGED <<tick, created, loop, lag>>

Start(i, t) ==
  /\ MayCall(i)
  /\ start_tick' = [start_tick EXCEPT ![i] = tick]
  /\ timeout_ms' = [timeout_ms EXCEPT ![i] = t]
  /\ is_active' = [is_active EXCEPT ![i] = TRUE]
  /\ age' = [age EXCEPT ![i] = 0]
  /\ UNCHANGED <<tick, created, loop, lag>>

Reset(i) ==
  /\ MayCall(i) /\ is_active[i]
  /\ start_tick' = [start_tick EXCEPT ![i] = tick]
  /\ age' = [age EXCEPT ![i] = 0]
  /\ UNCHANGED <<tick, created, is_active, timeout_ms, loop, lag>>

Stop(i) ==
  /\ i <= created /\ pc # "visit"
  /\ is_active' = [is_active EXCEPT ![i] = FALSE]
  /\ age' = [age EXCEPT ![i] = 0]
  /\ UNCHANGED <<tick, created, start_tick, timeout_ms, loop, lag>>

-----------------------------------------------------------------------------
(* sw_timer_process *)

\* Comparing ticks instead of their difference: wrong once the tick wraps.
HasExpiredUnwrapped(i) == now >= start_tick[i] + timeout_ms[i]
HasExpired(i) == Minus(now, start_tick[i]) >= timeout_ms[i]

ProcessBegins ==
  /\ pc = "idle"
  /\ pc' = "visit" /\ index' = 1 /\ now' = tick
  /\ lag' = 0
  /\ UNCHANGED <<tick, created, timers>>

\* On to the next slot, or out of the loop.
Advance ==
  IF index < N THEN pc' = "visit" /\ index' = index + 1 /\ UNCHANGED now
               ELSE pc' = "idle" /\ index' = 0 /\ now' = 0

MustFire == index <= created /\ is_active[index] /\ HasExpired(index)

VisitPasses ==
  /\ pc = "visit" /\ ~MustFire
  /\ Advance
  /\ UNCHANGED <<tick, created, timers, lag>>

\* The timer goes inactive before its callback runs, so that the callback can
\* arm it again.
VisitFires ==
  /\ pc = "visit" /\ MustFire
  /\ is_active' = [is_active EXCEPT ![index] = FALSE]
  /\ age' = [age EXCEPT ![index] = 0]
  /\ pc' = "callback"
  /\ UNCHANGED <<tick, created, start_tick, timeout_ms, index, now, lag>>

CallbackReturns ==
  /\ pc = "callback"
  /\ Advance
  /\ UNCHANGED <<tick, created, timers, lag>>

Process == ProcessBegins \/ VisitPasses \/ VisitFires \/ CallbackReturns

-----------------------------------------------------------------------------
Next ==
  \/ Tick \/ Create \/ Process
  \/ \E i \in Slots :
       \/ Reset(i) \/ Stop(i)
       \/ \E t \in Timeouts : Start(i, t)

Spec == Init /\ [][Next]_vars

-----------------------------------------------------------------------------
TypeOK ==
  /\ tick \in 0 .. W - 1 /\ now \in 0 .. W - 1
  /\ created \in 0 .. N
  /\ is_active \in [Slots -> BOOLEAN]
  /\ start_tick \in [Slots -> 0 .. W - 1]
  /\ timeout_ms \in [Slots -> Timeouts \cup {0}]
  /\ pc \in {"idle", "visit", "callback"}
  /\ index \in IF pc = "idle" THEN {0} ELSE Slots
  /\ lag \in 0 .. MaxLag
  /\ age \in [Slots -> 0 .. W - 1]

\* The subtraction of ticks is the true age of every armed timer, whichever
\* side of a wrap it was armed on.
AgesAgree ==
  \A i \in Slots : is_active[i] => /\ i <= created
                                   /\ Minus(tick, start_tick[i]) = age[i]

\* The slots the pass in progress, if any, has still to visit.
Unvisited(i) ==
  \/ pc = "visit" /\ index <= i
  \/ pc = "callback" /\ index < i

\* The sample of a pass is `lag` ticks old; a timer it has still to visit was
\* armed before the sample and is not yet overdue by a whole lag at it; one it
\* has visited had not expired at the sample, or was armed after it.
PassIsConsistent ==
  /\ pc # "idle" => Minus(tick, now) = lag
  /\ \A i \in Slots : is_active[i] =>
       IF Unvisited(i)
       THEN lag <= age[i] /\ age[i] - lag <= timeout_ms[i] + MaxLag
       ELSE age[i] <= timeout_ms[i] + lag

\* At every moment of a pass, every armed timer is as old as the tick says,
\* and the sample tells the expired ones from the others.
TimersConsistent == AgesAgree /\ PassIsConsistent

IInv == TypeOK /\ TimersConsistent

\* What the program's own callbacks keep to, and sw_timer.h does not ask for:
\* a callback arms no timer that the pass has still to visit.
ArmsNoLater == \A i \in Slots : MayArm[i] \subseteq 1 .. i

\* Across wraps of the tick, ticks inside a pass, and callbacks that arm
\* timers: nothing fires early, nothing fires twice for one arming, and nothing
\* fires later than two lags after it was due.
Abstract == INSTANCE Deadlines
              WITH Timers <- Slots, Slack <- 2 * MaxLag,
                   armed <- {i \in Slots : is_active[i]}, timeout <- timeout_ms

ImplementsDeadlines == Abstract!Spec
=============================================================================
