\* 4-bit registers with 2-bit word forms; one word of memory and two stores,
\* enough for one to cover or meet another in part.
CONSTANTS
  H = 2
  ResetCn = {2}
  MulResetCn = {1, 3}
  Words = 1
  MaxStores = 2
  Value <- MCValue
  Image <- MCImage

SPECIFICATION PartsSpec
INVARIANTS UnitsTypeOK LoopInvariants
PROPERTIES ImplementsDivUnit ImplementsMulUnit ImplementsByteMemory
