SPECIFICATION Spec
CONSTANTS
  Fibers = {f, g}
  NoBuf = nullptr
  Created = "connected"
  ShutdownStatus = {"OK", "ENOTCONN", "ENOBUFS"}
  ReadSizes = {0, 2}
  MaxCalls = 3
  OverlapClose = TRUE
SYMMETRY Symmetry
INVARIANTS
  TypeOK
  OneReader
  BufferOutlivesRead
  DataAccounted
PROPERTIES
  ImplementsStream
