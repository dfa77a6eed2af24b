CONSTANTS
  Cells = {"start", "corner", "tunnel"}
  StartCell = "start"
  Levels = 2
SPECIFICATION Spec
INVARIANT FieldIsTheMaze
INVARIANT SearchIsOfThisRun
INVARIANT LoopIsTheMachines
INVARIANT MenuIsShown
INVARIANT ScoreIsOffered
PROPERTY FramesKeepComing
