\* The same memory, made from an image of 4 or of 8 bytes.
CONSTANTS
  H = 2
  ResetCn = {2}
  MulResetCn = {1, 3}
  Words = 1
  MaxStores = 1
  Value <- MCValue
  Image <- MCImage

SPECIFICATION ImageSpec
INVARIANT ImageIsLoaded
