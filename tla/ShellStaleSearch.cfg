CONSTANTS
  Cells = {"start", "corner", "tunnel"}
  StartCell = "start"
  Levels = 2
SPECIFICATION Spec
INVARIANT RootedWhereHeStands
