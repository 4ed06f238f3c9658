\* Three tasks: one on the bus, two behind it.
CONSTANTS
  Words = 1
  Access <- MCAccess
  Value <- MCValue
  CellWidth = {1, 2, 4}
  MaxTasks = 3

SPECIFICATION FairSpec
INVARIANTS HeadOnBus LoadsInProgramOrder ExpectationsExact QuietMemory
PROPERTY Drains
\* A failed expectation aborts the test program.
CHECK_DEADLOCK FALSE
