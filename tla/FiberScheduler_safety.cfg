SPECIFICATION Spec
CONSTANTS
  Main = m
  Fibers = {m, f, g}
  Dispatcher = dispatcher
  Threads = {t, u}
  MsTicks = 2
  MaxSleep = 2
  Spinners = {}
  MaxOps = 2
  MaxNow = 5
SYMMETRY Symmetry
INVARIANTS
  TypeOK
  NoLostWakeup
  NeverParkedOverReady
  TimerCoversSleepers
  TimerStaysInFrame
PROPERTIES
  ImplementsAbstract
