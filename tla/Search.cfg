SPECIFICATION Spec
CONSTANTS
  Branches = 2
  MaxDepth = 2
  Budgets = {2, 5, 11}
  Slices = {1, 4}
  Walks = {0, 2}
  Trees <- MCTrees
INVARIANT AnswerIsLegal
INVARIANT CompleteIsBest
INVARIANT SlicesDoNotShow
PROPERTY ThinkReturns
PROPERTY TurnsRunOut
