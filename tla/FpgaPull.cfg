CONSTANTS
  SignedOffset = TRUE
  ResetClocks = 8
  TimerCount = 2
  resolution = 1
  BAUD_DIV = 40
  BAUD_DIV_CAP = 20
  RecvBuffer = 3
  Programs <- DescribedPrograms
SPECIFICATION RunSpec
INVARIANT PullsTakeWhatWasPushed
CHECK_DEADLOCK FALSE
