CONSTANTS
  IrqVector = 255
  Programs <- MCPrograms
  Listed <- MCListed
  Operands <- MCOperands
  STEP = 48
  UpdateStep = 3
  PsgSongs <- MCPsgSongs
  PsgWrites <- MCPsgWrites
  PortReads = {7}
  Lengths = {2}
  MaxPsgOps = 2
  MAX_BREAKPOINTS = 2
  MonitorPrograms <- MCMonitorPrograms
  MonitorStarts <- MCMonitorStarts
  Typed = {545, 560}
SPECIFICATION CoresSpec
INVARIANTS HacksAgree ProgramsAreResumed ArithmeticAgrees PsgSoundsAsTicked
PROPERTIES ListsWhatRuns StopsWhereAsked
CHECK_DEADLOCK FALSE
