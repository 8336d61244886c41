SPECIFICATION FairSpec
CHECK_DEADLOCK FALSE
CONSTANTS
  Fibers = {f, g, h}
  Names = {name}
  Addresses = {addr}
  Unset = unset
  AddrinfoStatus = {"OK", "EAI_NONAME"}
  MaxCalls = 2
  MaxArrivals = 2
INVARIANTS
  TypeOK
  PendingIsExact
  NoSleepThroughConnection
  FreedAfterClose
PROPERTIES
  CloseReleasesAcceptors
  ConnectionAccepted
  ImplementsQueue
