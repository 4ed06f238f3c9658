SPECIFICATION Spec
CONSTANTS
  N = 3
  Total = 3
INVARIANTS
  RunsOnce
  CommandsAreAwaited
  CountIsTrue
  NoOrphans
PROPERTIES
  FailureEndsRun
  WorkersExit
CHECK_DEADLOCK FALSE
