CONSTANTS
  N = 2
  W = 8
  Timeouts = {0, 1, 3}
  MaxLag = 2
  MayArm <- MCMayArmOwn
SPECIFICATION Spec
INVARIANT TimersConsistent
PROPERTY ImplementsDeadlines
