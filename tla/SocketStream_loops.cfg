SPECIFICATION StreamFairSpec
CHECK_DEADLOCK FALSE
CONSTANTS
  Fibers = {f, g}
  NoBuf = nullptr
  Created = "connected"
  ShutdownStatus = {"OK", "ENOTCONN"}
  ReadSizes = {1}
  LoopSizes = {0, 2}
  MaxCalls = 2
  OverlapClose = FALSE
INVARIANTS
  LoopIsContiguous
PROPERTIES
  ImplementsStream
  HandleClosedOnce
  ExactlyFills
  LossOnlyAtEnd
  LoopEnds
  BothDirectionsClose
