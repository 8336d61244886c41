SPECIFICATION FairSpec
CHECK_DEADLOCK FALSE
CONSTANTS
  Fibers = {f, g}
  NoBuf = nullptr
  Created = "idle"
  ShutdownStatus = {"OK", "ENOTCONN"}
  ReadSizes = {1}
  MaxCalls = 3
  OverlapClose = FALSE
INVARIANTS
  CloseCompletes
  FreedAfterClose
PROPERTIES
  HandleClosedOnce
  CloseReleasesAll
  EndOfStreamEndsRead
