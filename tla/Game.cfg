CONSTANTS
  N = 2
  StartsInHouse <- MCStartsInHouse
  Levels = 2
  DotLimit <- MCDotLimit
  DotJitter = 0
  IdleLimit <- MCIdleLimit
  MsJitter = 0
  GlobalRelease <- MCGlobalRelease
  StartingLives = 2
  TotalPellets = 3
  Neighbours <- MCNeighbours
  House <- MCHouse
  Gate <- MCGate
  PacmanStart = 3
  GhostStart <- MCGhostStart
  Pellets <- MCPellets
  Power <- MCPower
  FrightenedTicks <- MCFrightenedTicks
  PhaseTicks <- MCPhaseTicks
  Elroy <- MCElroy
  MaxPacmanSteps = 1
  MaxGhostSteps = 2
  Configs <- MCConfigs
SPECIFICATION Spec
INVARIANT MeetingsSettled
INVARIANT HouseFlagsAgree
INVARIANT WindowAgrees
INVARIANT EventsFitOneTick
PROPERTY ImplementsRun
CHECK_DEADLOCK FALSE
