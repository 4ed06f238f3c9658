SPECIFICATION Spec
CONSTANTS
  Half = 3
  Ascii = {0, 1}
  Stores <- RunStores
  MaxTyped = 3
  MaxStores = 2
  MaxResets = 1
INVARIANTS
  InputInOrder
  OutputOnce
  MonitorIsFair
PROPERTIES
  LoadsRepeat
  InputIsServed
CHECK_DEADLOCK FALSE
