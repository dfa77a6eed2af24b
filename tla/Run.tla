-------------------------------- MODULE Run --------------------------------
(***************************************************************************)
(* What a run of the game promises (game.h, FR-006, FR-007, FR-021,        *)
(* FR-027), with no maze and no ghosts: lives are only lost, pellets only  *)
(* come back with a new level, and a run is over when its lives are spent  *)
(* or its last level is cleared, whichever comes first.                    *)
(***************************************************************************)
EXTENDS Integers, FiniteSets

CONSTANTS Pellets, StartingLives, Levels

VARIABLES
  state,   \* "IDLE", "RUNNING", "OVER", "WON"
  lives, level,
  pellets  \* those not yet eaten

vars == <<state, lives, level, pellets>>

Init == state = "IDLE" /\ lives = 0 /\ level = 1 /\ pellets = Pellets

Start ==
  /\ state' = "RUNNING"
  /\ lives' = StartingLives /\ level' = 1 /\ pellets' = Pellets

Eat ==
  /\ state = "RUNNING"
  /\ \E p \in pellets : pellets' = pellets \ {p}
  /\ UNCHANGED <<state, lives, level>>

Die ==
  /\ state = "RUNNING"
  /\ lives' = lives - 1
  /\ state' = IF lives = 1 THEN "OVER" ELSE "RUNNING"
  /\ UNCHANGED <<level, pellets>>

Clear ==
  /\ state = "RUNNING" /\ pellets = {} /\ level < Levels
  /\ level' = level + 1 /\ pellets' = Pellets
  /\ UNCHANGED <<state, lives>>

Win ==
  /\ state = "RUNNING" /\ pellets = {} /\ level = Levels
  /\ state' = "WON"
  /\ UNCHANGED <<lives, level, pellets>>

Next == Start \/ Eat \/ Die \/ Clear \/ Win

Spec == Init /\ [][Next]_vars
=============================================================================
