SPECIFICATION Spec
CONSTANTS
  Fibers = {f, g}
  Names = {name}
  Addresses = {addr, addr2}
  Unset = unset
  AddrinfoStatus = {"OK", "EAI_ADDRFAMILY"}
  MaxCalls = 2
  MaxArrivals = 1
INVARIANTS
  AddressIsBound
