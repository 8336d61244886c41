SPECIFICATION ThreadSpec
CHECK_DEADLOCK FALSE
CONSTANTS
  Main = m
  Fibers = {m, f}
  Dispatcher = dispatcher
  Threads = {t}
  MsTicks = 1
  MaxSleep = 0
  Spinners = {}
  MaxOps = 2
  MaxNow = 0
INVARIANTS
  NotifyWhileAlive
