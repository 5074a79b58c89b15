CONSTANTS
  BlockData = 2
  RingSize = 5
  MaxBytes = 7
  Sector = 3
  MaxLength = 8
  MaxSize = 10
SPECIFICATION LoadSpec
INVARIANTS ReadsWhatWasAsked UploadArrives
PROPERTY LoadsEnd
CHECK_DEADLOCK FALSE
