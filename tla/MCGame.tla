------------------------------- MODULE MCGame -------------------------------
(* A small maze for TLC: a ring of five cells, 1 - 2 - 3 - 4 - 5 - 1, with
   Blinky starting on 1 and Pacman on 3, and next to 1 the gate 6 of a house
   two cells deep, 7 and 8.  Two levels; at the second a power pellet is only
   points, as it is at the real game's last ones. *)
EXTENDS Game

MCStartsInHouse == {1}
MCNeighbours == <<{2, 5, 6}, {1, 3}, {2, 4}, {3, 5}, {4, 1}, {1, 7}, {6, 8}, {7}>>
MCHouse == {6, 7, 8}
MCGate == {6}
MCGhostStart == [g \in 0 .. 1 |-> IF g = 0 THEN 1 ELSE 8]
MCPellets == {2, 4, 5}
MCPower == {4}
MCFrightenedTicks == <<3, 0>>
MCPhaseTicks == <<1, 1>>
MCElroy == <<1, 0>>
MCDotLimit == <<[g \in 0 .. 1 |-> 0], [g \in 0 .. 1 |-> 0]>>
MCIdleLimit == <<2, 1>>
MCGlobalRelease == [g \in {1} |-> 2]
MCConfigs == {[has_ghosts |-> TRUE, has_power_pellets |-> TRUE],
              [has_ghosts |-> TRUE, has_power_pellets |-> FALSE],
              [has_ghosts |-> FALSE, has_power_pellets |-> TRUE]}
=============================================================================
