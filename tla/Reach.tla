-------------------------------- MODULE Reach --------------------------------
(***************************************************************************)
(* Which cells a step can lead to, whoever decides on it.  Game plays on   *)
(* no more than this; Playfield says where it comes from and Walk which of *)
(* these cells Pacman and the ghosts really choose.                        *)
(***************************************************************************)
EXTENDS Integers

CONSTANTS
  Neighbours,   \* Neighbours[c]: the walkable cells next to cell c
  House, Gate   \* cells; the gate counts as house (prv_load_rows)

Cells == DOMAIN Neighbours

ASSUME ReachAssumption ==
  /\ Neighbours \in [Cells -> SUBSET Cells]
  /\ \A c, d \in Cells : d \in Neighbours[c] <=> c \in Neighbours[d]
  /\ Gate \subseteq House /\ House \subseteq Cells
  /\ \A c \in House \ Gate : Neighbours[c] \subseteq House

\* Pacman goes on, turns or stands against a wall, and never passes the gate.
PacmanReach(c) == {c} \cup (Neighbours[c] \ Gate)

\* A ghost goes on, through the gate only on its way out.
GhostReach(c, is_in_house) == Neighbours[c] \ (IF is_in_house THEN {} ELSE Gate)
=============================================================================
