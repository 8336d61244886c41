SPECIFICATION Spec
CONSTANTS
  Fibers = {f, g}
  NoBuf = nullptr
  Created = "connected"
  ShutdownStatus = {"OK", "ENOTCONN"}
  ReadSizes = {1}
  MaxCalls = 1
  OverlapClose = FALSE
INVARIANTS
  BrokenConnectionIsClosed
