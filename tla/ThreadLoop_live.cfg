SPECIFICATION ThreadFairSpec
CHECK_DEADLOCK FALSE
CONSTANTS
  Main = m
  Fibers = {m, f}
  Dispatcher = dispatcher
  Threads = {t}
  MsTicks = 2
  MaxSleep = 1
  Spinners = {m, f}
  MaxOps = 0
  MaxNow = 5
INVARIANTS
  EachContextOnce
  LoopClosedIdle
PROPERTIES
  ExitCompletes
  NoOvertaking
  ReadyRuns
  SleeperRuns
  IoRunsWhenPolled
