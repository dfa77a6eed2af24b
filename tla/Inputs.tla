------------------------------- MODULE Inputs -------------------------------
(***************************************************************************)
(* Bsp/switch, Bsp/joystick and Bsp/user_button: keys sampled in the       *)
(* SysTick interrupt, debounced by a shift register of samples, their      *)
(* presses latched there and taken by the main loop.  The six keys are the *)
(* same code twice over; Keys stands for any of them.                      *)
(*                                                                         *)
(* A switch's is_active and the key's g_is_pressed are set together and    *)
(* are one variable.  The last five variables are history: what a player   *)
(* did to the contact, told without the shift register.                    *)
(***************************************************************************)
EXTENDS Integers

CONSTANTS Keys,
          Samples   \* SWITCH_DEBOUNCE_SAMPLES: 32

ASSUME SamplesAssumption == Samples \in Nat \ {0}

VARIABLES
  history,     \* history[k]: the latest samples of k, the newest first
  is_pressed,  \* g_is_pressed, and is_active of the switch behind it
  is_latched,  \* g_is_press_latched
  contact,     \* contact[k]: the latest sample of k
  steady,      \* steady[k]: how many samples it has been the same, up to Samples
  is_down,     \* is_down[k]: closed for a window since it was last open for one
  presses,     \* presses[k]: presses made and not handed over yet, up to 2
  since        \* since[k]: samples since the loop last asked, up to 2 windows

keyVars == <<history, is_pressed, is_latched, contact, steady, is_down, presses, since>>

Window == 1 .. Samples

\* SWITCH_HISTORY_STABLE_ACTIVE and SWITCH_HISTORY_STABLE_INACTIVE
StableActive   == [i \in Window |-> TRUE]
StableInactive == [i \in Window |-> FALSE]

KeysInit ==
  /\ history = [k \in Keys |-> StableInactive]
  /\ is_pressed = [k \in Keys |-> FALSE]
  /\ is_latched = [k \in Keys |-> FALSE]
  /\ contact = [k \in Keys |-> FALSE]
  /\ steady = [k \in Keys |-> Samples]
  /\ is_down = [k \in Keys |-> FALSE]
  /\ presses = [k \in Keys |-> 0]
  /\ since = [k \in Keys |-> 0]

-----------------------------------------------------------------------------
(* switch_get_debounced_state *)

\* A new sample comes in at one end and the oldest leaves at the other.
Shifted(h, level) == [i \in Window |-> IF i = 1 THEN level ELSE h[i - 1]]

\* A switch that lets go at the first open sample: a bounce is a release.
DebouncedHastily(h, was) ==
  IF h = StableActive THEN TRUE ELSE IF h[1] THEN was ELSE FALSE

\* A mixed register holds the last debounced state.
Debounced(h, was) ==
  CASE h = StableActive   -> TRUE
    [] h = StableInactive -> FALSE
    [] OTHER              -> was

-----------------------------------------------------------------------------
(* The history: a press is a contact closed for a whole window after it    *)
(* was last open for a whole window.                                       *)

Lower(a, b) == IF a < b THEN a ELSE b

SteadyNow(k, level) == IF level = contact[k] THEN Lower(steady[k] + 1, Samples) ELSE 1
DownNow(k, level) == IF SteadyNow(k, level) = Samples THEN level ELSE is_down[k]
IsPress(k, level) == DownNow(k, level) /\ ~is_down[k]

Watch(level) ==
  /\ contact' = level
  /\ steady' = [k \in Keys |-> SteadyNow(k, level[k])]
  /\ is_down' = [k \in Keys |-> DownNow(k, level[k])]
  /\ presses' = [k \in Keys |->
       IF IsPress(k, level[k]) THEN Lower(presses[k] + 1, 2) ELSE presses[k]]
  /\ since' = [k \in Keys |-> Lower(since[k] + 1, 2 * Samples)]

\* joystick_poll and user_button_poll, with the contacts at level.
PollKeys(level) ==
  /\ history' = [k \in Keys |-> Shifted(history[k], level[k])]
  /\ is_pressed' = [k \in Keys |-> Debounced(history'[k], is_pressed[k])]
  /\ is_latched' = [k \in Keys |-> is_latched[k] \/ (is_pressed'[k] /\ ~is_pressed[k])]
  /\ Watch(level)

-----------------------------------------------------------------------------
(* joystick_take_press and user_button_take_press: read and clear with the *)
(* interrupt held off.                                                     *)

Handed(k) ==
  /\ presses' = [presses EXCEPT ![k] = IF is_latched[k] THEN 0 ELSE @]
  /\ since' = [since EXCEPT ![k] = 0]

\* Without the critical section a poll may latch a press between the two.
TakePressUnguarded(k) ==
  /\ \/ UNCHANGED <<history, is_pressed, contact, steady, is_down>>
     \/ /\ Shifted(history[k], TRUE) = StableActive /\ ~is_pressed[k]
        /\ history' = [history EXCEPT ![k] = StableActive]
        /\ is_pressed' = [is_pressed EXCEPT ![k] = TRUE]
        /\ contact' = [contact EXCEPT ![k] = TRUE]
        /\ steady' = [steady EXCEPT ![k] = Samples]
        /\ is_down' = [is_down EXCEPT ![k] = TRUE]
  /\ is_latched' = [is_latched EXCEPT ![k] = FALSE]
  /\ presses' = [presses EXCEPT ![k] =
       IF is_down'[k] # is_down[k] THEN 1 ELSE IF is_latched[k] THEN 0 ELSE @]
  /\ since' = [since EXCEPT ![k] = 0]

TakePress(k) ==
  /\ is_latched' = [is_latched EXCEPT ![k] = FALSE]
  /\ Handed(k)
  /\ UNCHANGED <<history, is_pressed, contact, steady, is_down>>

-----------------------------------------------------------------------------
(* The invariant behind Interrupt!PressesAccounted, key by key.  The       *)
(* register holds the run of equal samples and the sample before it; what  *)
(* is told of the key by the code and by the history is then the same; and *)
(* time has passed for every step of a press that is not the first.        *)

KeysTypeOK ==
  /\ history \in [Keys -> [Window -> BOOLEAN]]
  /\ is_pressed \in [Keys -> BOOLEAN] /\ is_latched \in [Keys -> BOOLEAN]
  /\ contact \in [Keys -> BOOLEAN] /\ is_down \in [Keys -> BOOLEAN]
  /\ steady \in [Keys -> Window]
  /\ presses \in [Keys -> 0 .. 2]
  /\ since \in [Keys -> 0 .. 2 * Samples]

RegisterIsRun(k) ==
  /\ \A i \in 1 .. steady[k] : history[k][i] = contact[k]
  /\ steady[k] < Samples => history[k][steady[k] + 1] # contact[k]

TimeHasPassed(k) ==
  /\ steady[k] = Samples => is_down[k] = contact[k]
  /\ presses[k] > 0 /\ is_down[k] /\ ~contact[k] => since[k] >= steady[k]
  /\ presses[k] > 0 /\ ~is_down[k] =>
       since[k] >= Samples + (IF contact[k] THEN steady[k] ELSE 0)
  /\ presses[k] > 1 => since[k] = 2 * Samples

KeyInv(k) ==
  /\ RegisterIsRun(k)
  /\ is_pressed[k] <=> is_down[k]
  /\ is_latched[k] <=> presses[k] > 0
  /\ TimeHasPassed(k)

KeysInv == KeysTypeOK /\ \A k \in Keys : KeyInv(k)
=============================================================================
