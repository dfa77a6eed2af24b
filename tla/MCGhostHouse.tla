---------------------------- MODULE MCGhostHouse ----------------------------
(* A small instance of GhostHouse for TLC: all four ghosts, the shape of the
   level table kept (Pinky never waits, Inky only at the first level, Clyde
   up to the second), every figure scaled down. *)
EXTENDS GhostHouse

MCStartsInHouse == {1, 2, 3}
MCDotLimit == <<[g \in 0 .. 3 |-> IF g < 2 THEN 0 ELSE g - 1],
                [g \in 0 .. 3 |-> IF g < 3 THEN 0 ELSE 1],
                [g \in 0 .. 3 |-> 0]>>
MCIdleLimit == <<2, 2, 2>>
MCGlobalRelease == [g \in 1 .. 3 |-> IF g = 1 THEN 1 ELSE IF g = 2 THEN 3 ELSE 4]
=============================================================================
