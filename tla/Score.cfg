CONSTANTS
  Games = {"played", "root"}
  PelletPoints = 1
  PowerPelletPoints = 5
  FirstGhostPoints = 20
  ChainLength = 2
  MaxPerTick = 2
  InboxCapacity = 2
  MaxPublished = 4
SPECIFICATION Spec
INVARIANT TotalIsWorth
