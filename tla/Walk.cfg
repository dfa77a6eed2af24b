CONSTANTS
  Width = 11
  Height = 7
  Walls <- MCWalls
  House <- MCHouse
  Gate <- MCGate
  PacmanStart <- MCPacmanStart
  GhostStart <- MCGhostStart
  Walkers = {"BLINKY", "PINKY", "INKY", "CLYDE"}
  BlinkyCells <- MCBlinkyCells
SPECIFICATION Spec
PROPERTY ImplementsSteps
PROPERTY NoTurningBack
PROPERTY TurnIsKept
PROPERTY FindsItsWayOut
