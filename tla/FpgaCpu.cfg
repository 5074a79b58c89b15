CONSTANTS
  SignedOffset = TRUE
  ResetClocks = 8
  TimerCount = 2
  resolution = 1
  BAUD_DIV = 40
  BAUD_DIV_CAP = 20
  RecvBuffer = 3
  Programs <- MCPrograms
SPECIFICATION RunSpec
INVARIANT InstructionsAgree
PROPERTY ProgramsEnd
CHECK_DEADLOCK FALSE
