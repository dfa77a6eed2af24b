------------------------------- MODULE MCWalk -------------------------------
(* A maze for TLC: the arcade's ghost house, as wide and as high as it is,
   with its gate; a corridor around the maze through a tunnel in each
   direction, which cross; and one dead end.

       0123456789A
     0 ....b......     b: Blinky's start      P: Pacman's
     1 .###DD###.#     D: the gate            (9, 1): the dead end
     2 .#hhhhhh####
     3 .#ihphch####
     4 P#hhhhhh####
     5 .##########
     6 .##########     *)
EXTENDS Walk

MCGate == {<<4, 1>>, <<5, 1>>}
MCHouse == MCGate \cup ((2 .. 7) \X (2 .. 4))
MCCorridor == ((0 .. 10) \X {0}) \cup ({0} \X (0 .. 6)) \cup {<<9, 1>>}
MCWalls == ((0 .. 10) \X (0 .. 6)) \ (MCHouse \cup MCCorridor)
MCGhostStart == [BLINKY |-> <<4, 0>>, PINKY |-> <<4, 3>>, INKY |-> <<2, 3>>, CLYDE |-> <<6, 3>>]
MCPacmanStart == <<0, 4>>
MCBlinkyCells == {<<10, 0>>, <<0, 6>>}
=============================================================================
