CONSTANTS
  N = 4
  StartsInHouse <- MCStartsInHouse
  Levels = 3
  DotLimit <- MCDotLimit
  DotJitter = 1
  IdleLimit <- MCIdleLimit
  MsJitter = 1
  GlobalRelease <- MCGlobalRelease
  StartingLives = 3
  TotalPellets = 6
SPECIFICATION HouseSpec
INVARIANT ReleasedInOrder
INVARIANT WaitersNotDue
PROPERTY HandedBackEmpty
PROPERTY NobodyLockedIn
CHECK_DEADLOCK FALSE
