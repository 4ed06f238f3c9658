\* Memory cells of 64 bits.
CONSTANTS
  Words = 1
  Access <- MCCellAccess
  Value <- MCValue
  CellWidth = {8}
  MaxTasks = 2

SPECIFICATION Spec
INVARIANT CellHoldsItsType
\* A failed expectation aborts the test program.
CHECK_DEADLOCK FALSE
