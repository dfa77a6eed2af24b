CONSTANTS
  Characters = {a, b}
  Capacity = 3
  Nothing = Nothing
  Keys = {"CENTER"}
  Order <- KeyOrder
  Samples = 2
SPECIFICATION BoardSpec
INVARIANT PressesAccounted
PROPERTY ImplementsFifo
PROPERTY OverrunClears
PROPERTY PressIsAnswered
