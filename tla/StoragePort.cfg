CONSTANTS
  Byte = {0, 1, 2}
  Requests <- MCRequests
  Answers <- MCAnswers
  Leaves <- MCLeaves
  CmdSize = 3
  RetSize = 3
SPECIFICATION FairSpec
INVARIANTS NoConcurrentAccess DecodesWhatWasSent ReplyIsAnswer
PROPERTIES ImplementsService OnlyALostProceedHangs
CHECK_DEADLOCK FALSE
