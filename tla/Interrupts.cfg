CONSTANTS
  MinCycles = 4
  MaxOver = 13
  PorchCycles = 20
  DisplayCycles = 160
  Blank = 2
  Display = 4
  Lines = {0, 3, 4, 9}
  MAX_TIMERS = 2
  Selectable = 2
  Timeouts = {0, 3}
  Tick = 2
  Word = 8
  Steps = 5
SPECIFICATION InterruptsSpec
INVARIANTS CpuKeepsTime NmiReachesItsVector
PROPERTIES FramesAreCounted StrayInterruptsEnd TimersInterrupt ProgramGoesOn
CHECK_DEADLOCK FALSE
