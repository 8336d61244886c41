SPECIFICATION Spec
CONSTANTS
  Fibers = {f, g}
  NoBuf = nullptr
  Created = "idle"
  ShutdownStatus = {"OK", "ENOTCONN"}
  ReadSizes = {1}
  MaxCalls = 1
  OverlapClose = TRUE
PROPERTIES
  ConnectOnlyWhileOpen
