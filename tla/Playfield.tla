------------------------------ MODULE Playfield ------------------------------
(***************************************************************************)
(* The maze as a step sees it (App/playfield): a grid that wraps around at *)
(* all its edges, walls, the ghost house and its gate.  The pellets are    *)
(* Game's business.                                                        *)
(***************************************************************************)
EXTENDS Integers

CONSTANTS
  Width, Height,   \* PLAYFIELD_WIDTH and PLAYFIELD_HEIGHT
  Walls,           \* cells
  House, Gate,     \* cells; the gate counts as house, and so do the starts in it
  PacmanStart,
  GhostStart       \* GhostStart[g], of each of the Ghosts

Ghosts == {"BLINKY", "PINKY", "INKY", "CLYDE"}
Cells == (0 .. Width - 1) \X (0 .. Height - 1)

Directions == {"NORTH", "WEST", "SOUTH", "EAST"}
Facings == Directions \cup {"NONE"}

\* prv_wrap_coordinate and playfield_wrap_cell; % is never negative here.
Wrap(x, y) == <<x % Width, y % Height>>

\* agent_get_cell_ahead and prv_cell_ahead: n times playfield_step.
CellAhead(c, d, n) ==
  CASE d = "NORTH" -> Wrap(c[1], c[2] - n)
    [] d = "SOUTH" -> Wrap(c[1], c[2] + n)
    [] d = "WEST"  -> Wrap(c[1] - n, c[2])
    [] d = "EAST"  -> Wrap(c[1] + n, c[2])
    [] OTHER       -> Wrap(c[1], c[2])

Step(c, d) == CellAhead(c, d, 1)

\* playfield_get_opposite_direction
Opposite(d) ==
  CASE d = "NORTH" -> "SOUTH"
    [] d = "SOUTH" -> "NORTH"
    [] d = "WEST"  -> "EAST"
    [] d = "EAST"  -> "WEST"
    [] OTHER       -> "NONE"

\* playfield_get_squared_distance, as the crow flies and not around the edges.
SquaredDistance(c, d) ==
  (c[1] - d[1]) * (c[1] - d[1]) + (c[2] - d[2]) * (c[2] - d[2])

\* playfield_get_scatter_target: outside the maze, never reached.
ScatterTarget(g) ==
  CASE g = "BLINKY" -> <<Width - 3, -3>>
    [] g = "PINKY"  -> <<2, -3>>
    [] g = "INKY"   -> <<Width - 1, Height + 1>>
    [] OTHER        -> <<0, Height + 1>>

\* playfield_get_house_exit
HouseExit == GhostStart["BLINKY"]

IsWalkable(c) == c \notin Walls

OpenNeighbours(c) == {n \in {Step(c, d) : d \in Directions} : IsWalkable(n)}

Neighbours == [c \in Cells |-> IF IsWalkable(c) THEN OpenNeighbours(c) ELSE {}]

\* What the unit tests check of the drawn maze, and the generator ensures.
ASSUME PlayfieldAssumption ==
  /\ Width \in Nat /\ Width > 2 /\ Height \in Nat /\ Height > 2
  /\ Walls \subseteq Cells
  /\ Gate \subseteq House /\ House \subseteq Cells \ Walls
  /\ \A c \in House \ Gate : OpenNeighbours(c) \subseteq House
  /\ PacmanStart \in Cells \ (Walls \cup House)
  /\ GhostStart \in [Ghosts -> Cells \ Walls]
  /\ GhostStart["BLINKY"] \notin House
  /\ \A g \in Ghosts \ {"BLINKY"} : GhostStart[g] \in House \ Gate
  /\ \A c \in Cells \ Walls : OpenNeighbours(c) \ Gate # {}
=============================================================================
