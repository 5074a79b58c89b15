CONSTANTS
  MAX_TIMERS = 3
  NSec = 1
  TIME_NEVER = 1000
  Durations = {0, 3}
  Periods = {0, 2}
  RefreshPeriod = 3
  Tags = {1}
  MaxTime = 5
  MaxTimerOps = 5
  SampNMax = 10376
  Samples = 3
  Noise <- MCNoise
  Songs <- MCSongs
  Pokes <- MCPokes
  MaxPokes = 1
  MaxCalls = 3
SPECIFICATION DevicesSpec
INVARIANTS TimersKeepTheirTime SoundsAsClocked
PROPERTIES LoopEnds
CHECK_DEADLOCK FALSE
