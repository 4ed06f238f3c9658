SPECIFICATION SharedSpec
CONSTANTS
  BeatBytes = 2
  Beats = {1, 2, 4}
  AddrTop = 8
  Addrs = {0, 1, 4, 6}
  Data = {d1, d2}
  NoData = none
  NUM_INPUTS = 3
  PortRequests <- MCPortRequests
INVARIANTS
  SanityChecks
PROPERTIES
  ImplementsCBus
  Served
  BusHasOneMaster
  EachPortIsABus
  OnlyHigherStarves
