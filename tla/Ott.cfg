CONSTANTS
  Tables = {"classic", "random"}
  Places = 2
  MaxScore = 2
  QuadWords = 3
  RecordParts = 2
  MaxOffers = 3
  TestCount = 2
  ScoreTest = 1
  TableOrder <- InOrder
  Written <- Triples
SPECIFICATION OttSpec
INVARIANT RamIsStored
INVARIANT KeepsTheBest
INVARIANT NothingInvented
INVARIANT TestLeavesTables
PROPERTY TestRunsOnce
