-------------------------------- MODULE Steps --------------------------------
(***************************************************************************)
(* What the rules of the game need to know of how Pacman and a ghost walk: *)
(* Game's steps for one ghost, with any reachable cell as the next one.    *)
(***************************************************************************)
EXTENDS Reach

CONSTANTS PacmanStart, Pen

VARIABLES
  home,   \* where this ghost starts
  pacman, ghost, is_in_house, is_waiting_in_house

stepVars == <<home, pacman, ghost, is_in_house, is_waiting_in_house>>

PlaceBoth ==
  /\ pacman' = PacmanStart /\ ghost' = home
  /\ is_in_house' = (home \in House)
  /\ is_waiting_in_house' = (home \in House)
  /\ UNCHANGED home

StepsInit ==
  /\ pacman = PacmanStart /\ ghost = home
  /\ is_in_house = (home \in House)
  /\ is_waiting_in_house = (home \in House)

PacmanSteps ==
  /\ pacman' \in PacmanReach(pacman)
  /\ UNCHANGED <<home, ghost, is_in_house, is_waiting_in_house>>

\* One step of a ghost; the gate shuts behind it.
GhostSteps ==
  /\ ~is_waiting_in_house /\ ghost # pacman
  /\ ghost' \in GhostReach(ghost, is_in_house)
  /\ is_in_house' = (is_in_house /\ ghost' \in House)
  /\ UNCHANGED <<home, pacman, is_waiting_in_house>>

Release ==
  /\ is_waiting_in_house' = FALSE
  /\ UNCHANGED <<home, pacman, ghost, is_in_house>>

\* Only where it meets Pacman is a ghost sent home.
GoesToPen ==
  /\ ghost = pacman
  /\ ghost' = Pen /\ is_in_house' = TRUE /\ is_waiting_in_house' = FALSE
  /\ UNCHANGED <<home, pacman>>

StepsNext == PacmanSteps \/ GhostSteps \/ Release \/ GoesToPen \/ PlaceBoth

StepsSafety == StepsInit /\ [][StepsNext]_stepVars

\* A released ghost never stands still for good.
StepsSpec == StepsSafety /\ WF_stepVars(GhostSteps)
=============================================================================
