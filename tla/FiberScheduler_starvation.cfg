SPECIFICATION FairSpec
CHECK_DEADLOCK FALSE
CONSTANTS
  Main = m
  Fibers = {m, f}
  Dispatcher = dispatcher
  Threads = {t}
  MsTicks = 1
  MaxSleep = 0
  Spinners = {f}
  MaxOps = 2
  MaxNow = 0
PROPERTIES
  IoRuns
