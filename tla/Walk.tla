--------------------------------- MODULE Walk ---------------------------------
(***************************************************************************)
(* How Pacman and one ghost walk: App/pacman, App/ghost, App/ghost_path    *)
(* and App/agent, called as App/game calls them, a step of one of them at  *)
(* a time, in any order.  The player asks for any direction at any time;   *)
(* the mode of the ghost changes at any time; the other ghosts are where   *)
(* Blinky happens to be and a life lost to one of them.                    *)
(***************************************************************************)
EXTENDS Playfield, Sequences

CONSTANTS
  Walkers,       \* bound: the ghosts to look at
  BlinkyCells    \* bound: where Blinky may be when another ghost looks for him

PINKY_LOOK_AHEAD == 4
INKY_LOOK_AHEAD == 2
CLYDE_SHY_DISTANCE == 8
Modes == {"SCATTER", "CHASE", "FRIGHTENED"}

ASSUME WalkAssumption ==
  /\ Walkers \subseteq Ghosts /\ Walkers # {}
  /\ BlinkyCells \subseteq Cells /\ BlinkyCells # {}

VARIABLES
  personality,
  pacman, facing, queued_direction,     \* his cell, direction and intent
  ghost, heading,                       \* its cell and direction
  is_in_house, is_waiting_in_house, mode,
  came_from,                            \* history: the ghost's cell before its last step
  asked                                 \* history: the last direction asked for

Nowhere == <<-1, -1>>

pacmanVars == <<pacman, facing, queued_direction, asked>>
houseFlags == <<is_in_house, is_waiting_in_house>>
ghostVars  == <<personality, ghost, heading, houseFlags, mode, came_from>>
walkVars   == <<pacmanVars, ghostVars>>

-----------------------------------------------------------------------------
(* Pacman *)

\* pacman_may_step
MayStep(c, d) == d # "NONE" /\ IsWalkable(Step(c, d)) /\ Step(c, d) \notin Gate

\* pacman_is_stuck
IsStuck == ~MayStep(pacman, queued_direction) /\ ~MayStep(pacman, facing)

Goes(d) == facing' = d /\ pacman' = Step(pacman, d)

\* A meeting is settled before anything else happens.
HasMet == ghost = pacman

\* pacman_set_intent.  The mutant takes up only what can be done at once.
SetIntentIfPossible(d) ==
  /\ ~HasMet
  /\ queued_direction' = IF MayStep(pacman, d) THEN d ELSE queued_direction
  /\ asked' = d
  /\ UNCHANGED <<pacman, facing, ghostVars>>
SetIntent(d) ==
  /\ ~HasMet
  /\ queued_direction' = d
  /\ asked' = d
  /\ UNCHANGED <<pacman, facing, ghostVars>>

\* pacman_advance
PacmanAdvances ==
  /\ ~HasMet
  /\ \/ MayStep(pacman, queued_direction) /\ Goes(queued_direction)
     \/ ~MayStep(pacman, queued_direction) /\ MayStep(pacman, facing) /\ Goes(facing)
     \/ IsStuck /\ UNCHANGED <<pacman, facing>>
  /\ UNCHANGED <<queued_direction, asked, ghostVars>>

-----------------------------------------------------------------------------
(* ghost_get_target *)

InkyTarget(blinky) ==
  LET pivot == CellAhead(pacman, facing, INKY_LOOK_AHEAD)
  IN  <<2 * pivot[1] - blinky[1], 2 * pivot[2] - blinky[2]>>

ClydeTarget ==
  IF SquaredDistance(ghost, pacman) >= CLYDE_SHY_DISTANCE * CLYDE_SHY_DISTANCE
  THEN pacman ELSE ScatterTarget("CLYDE")

Hunted(blinky) ==
  CASE personality = "BLINKY" -> pacman
    [] personality = "PINKY"  -> CellAhead(pacman, facing, PINKY_LOOK_AHEAD)
    [] personality = "INKY"   -> InkyTarget(blinky)
    [] OTHER                  -> ClydeTarget

\* The mutant has no thought of leaving first.
TargetAnywhere(blinky) ==
  IF mode = "SCATTER" THEN ScatterTarget(personality) ELSE Hunted(blinky)
Target(blinky) ==
  IF is_in_house THEN HouseExit
  ELSE IF mode = "SCATTER" THEN ScatterTarget(personality)
  ELSE Hunted(blinky)

-----------------------------------------------------------------------------
(* ghost_path: the open step that is closest to the target, or furthest    *)
(* from Pacman, the first of equals in this order; the way back only where *)
(* there is no other.                                                      *)

CandidateOrder == <<"NORTH", "WEST", "SOUTH", "EAST">>

MayGo(d) ==
  /\ IsWalkable(Step(ghost, d))
  /\ is_in_house \/ Step(ghost, d) \notin Gate

Candidates(forbidden) ==
  {i \in 1 .. 4 : MayGo(CandidateOrder[i]) /\ CandidateOrder[i] # forbidden}

Cost(i, reference) == SquaredDistance(Step(ghost, CandidateOrder[i]), reference)
IsBetter(a, b) == IF mode = "FRIGHTENED" THEN a > b ELSE a < b

IsChoice(i, candidates, reference) ==
  \A j \in candidates :
    /\ ~IsBetter(Cost(j, reference), Cost(i, reference))
    /\ j < i => IsBetter(Cost(i, reference), Cost(j, reference))

\* Where it goes from here, and whether it goes at all.
GoesTo(d) ==
  /\ heading' = d
  /\ ghost' = Step(ghost, d)
  /\ came_from' = ghost
Rests == UNCHANGED <<ghost, heading, came_from>>

\* prv_find_step, with agent_step for what it returns.  The mutant does not go
\* back even where there is no other way.
TakesStepNeverBack(reference, forbidden) ==
  LET candidates == Candidates(forbidden)
  IN  \/ \E i \in candidates : IsChoice(i, candidates, reference) /\ GoesTo(CandidateOrder[i])
      \/ candidates = {} /\ Rests
TakesStep(reference, forbidden) ==
  LET candidates == Candidates(forbidden)
  IN  \/ \E i \in candidates : IsChoice(i, candidates, reference) /\ GoesTo(CandidateOrder[i])
      \/ /\ candidates = {}
         /\ IF forbidden # "NONE" /\ MayGo(forbidden) THEN GoesTo(forbidden) ELSE Rests

\* ghost_advance and, once it is out, ghost_note_left_house.
GhostAdvances ==
  /\ ~HasMet /\ ~is_waiting_in_house
  /\ IF mode = "FRIGHTENED"
     THEN TakesStep(pacman, Opposite(heading))
     ELSE \E blinky \in BlinkyCells : TakesStep(Target(blinky), Opposite(heading))
  /\ is_in_house' = (is_in_house /\ ghost' \in House)
  /\ UNCHANGED <<pacmanVars, personality, is_waiting_in_house, mode>>

-----------------------------------------------------------------------------
(* What the game does with them between two steps *)

\* ghost_set_mode: a change of destination and nothing else.  The mutant makes
\* the arcade's reversal.
SetModeReversing(m) ==
  /\ ~HasMet
  /\ mode' = m
  /\ heading' = IF m # mode THEN Opposite(heading) ELSE heading
  /\ UNCHANGED <<pacmanVars, personality, ghost, houseFlags, came_from>>
SetMode(m) ==
  /\ ~HasMet
  /\ mode' = m
  /\ UNCHANGED <<pacmanVars, personality, ghost, heading, houseFlags, came_from>>

ReleaseFromHouse ==
  /\ ~HasMet
  /\ is_waiting_in_house /\ is_waiting_in_house' = FALSE
  /\ UNCHANGED <<pacmanVars, personality, ghost, heading, is_in_house, mode, came_from>>

\* ghost_send_to_pen, where a frightened ghost has met Pacman.
SendToPen ==
  /\ HasMet /\ mode = "FRIGHTENED"
  /\ ghost' = GhostStart["PINKY"] /\ heading' = "NONE" /\ came_from' = Nowhere
  /\ is_in_house' = TRUE /\ is_waiting_in_house' = FALSE
  /\ mode' = "SCATTER"
  /\ UNCHANGED <<pacmanVars, personality>>

\* pacman_reset and ghost_reset, where he has met a ghost that was not, or
\* has met another, or cleared the level.
PlaceEntities ==
  /\ HasMet => mode # "FRIGHTENED"
  /\ pacman' = PacmanStart /\ facing' = "NONE" /\ queued_direction' = "NONE"
  /\ asked' = "NONE"
  /\ ghost' = GhostStart[personality] /\ heading' = "NONE" /\ came_from' = Nowhere
  /\ is_in_house' = (GhostStart[personality] \in House)
  /\ is_waiting_in_house' = (GhostStart[personality] \in House)
  /\ mode' = "SCATTER"
  /\ UNCHANGED personality

-----------------------------------------------------------------------------
Init ==
  /\ personality \in Walkers
  /\ pacman = PacmanStart /\ facing = "NONE"
  /\ queued_direction = "NONE" /\ asked = "NONE"
  /\ ghost = GhostStart[personality] /\ heading = "NONE" /\ came_from = Nowhere
  /\ is_in_house = (GhostStart[personality] \in House)
  /\ is_waiting_in_house = (GhostStart[personality] \in House)
  /\ mode = "SCATTER"

Next ==
  \/ \E d \in Directions : SetIntent(d)
  \/ PacmanAdvances \/ GhostAdvances
  \/ \E m \in Modes : SetMode(m)
  \/ ReleaseFromHouse \/ SendToPen \/ PlaceEntities

\* While a run goes on each tick gives a ghost time to move, and a meeting is
\* settled before the next step.
Fairness ==
  /\ WF_walkVars(GhostAdvances)
  /\ WF_walkVars(HasMet /\ (SendToPen \/ PlaceEntities))

Spec == Init /\ [][Next]_walkVars /\ Fairness

-----------------------------------------------------------------------------
\* The invariant behind the properties below: the flag of the ghost and the
\* cell it stands on agree, Pacman is never in the house, the ghost came from
\* behind, and what Pacman is queued to do is what was asked of him last.
BehindTheGate ==
  /\ is_in_house <=> ghost \in House
  /\ is_waiting_in_house => is_in_house
  /\ pacman \notin House

CameFromBehind ==
  came_from = IF heading = "NONE" THEN Nowhere ELSE Step(ghost, Opposite(heading))

WalkInv ==
  /\ personality \in Ghosts /\ mode \in Modes
  /\ pacman \in Cells \ Walls /\ facing \in Facings /\ queued_direction \in Facings
  /\ ghost \in Cells \ Walls /\ heading \in Facings
  /\ is_in_house \in BOOLEAN /\ is_waiting_in_house \in BOOLEAN
  /\ asked = queued_direction
  /\ BehindTheGate /\ CameFromBehind

-----------------------------------------------------------------------------
\* Whatever they decide, Pacman and the ghosts take the steps that Game lets
\* them take and no other: a ghost that is released never stands still, dead
\* ends included; the gate is open to the one on its way out only; Pacman
\* never gets into the house.
AsInGame == INSTANCE Steps WITH
  home <- GhostStart[personality],
  Pen <- GhostStart["PINKY"]
ImplementsSteps == AsInGame!StepsSpec

\* A ghost never steps back to where it came from unless there is no other way,
\* whatever became of its mode meanwhile (ghost.c: no exemption at all).
WaysOn == Neighbours[ghost] \ (IF is_in_house THEN {} ELSE Gate)
NoTurningBack ==
  [][came_from' = ghost /\ ghost' = came_from => WaysOn = {came_from}]_walkVars

\* A turn asked for too early is made at the first cell where it is open, and
\* until then he goes on as he was going.
TurnIsKept ==
  [][pacman' # pacman /\ asked' = asked /\ asked # "NONE" =>
       \/ pacman' = Step(pacman, asked)
       \/ ~MayStep(pacman, asked) /\ pacman' = Step(pacman, facing)]_walkVars

\* Every ghost that is let go finds its way out of the house, provided the
\* frightened windows end: a window is opened by a power pellet, and a level
\* has four.  In one it flees, as far as the house goes.
FindsItsWayOut ==
  <>[](mode # "FRIGHTENED") =>
    []((is_in_house /\ ~is_waiting_in_house) => <>(~is_in_house \/ is_waiting_in_house))
=============================================================================
