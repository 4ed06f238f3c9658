\* A memory of two beats of two bytes; bursts of one and two, from both beats,
\* aligned and not.
SPECIFICATION BridgeSpec
CONSTANTS
  BeatBytes = 2
  Beats = {1, 2}
  AddrTop = 4
  Addrs = {0, 1, 3}
  Data = {d1, d2}
  NoData = none
INVARIANTS
  BurstsWellFormed
PROPERTIES
  BridgeImplementsCBus
  BridgeServes
