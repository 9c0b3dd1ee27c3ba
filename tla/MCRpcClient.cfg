SPECIFICATION MCSpec
CONSTANTS
  HasOpenSSL = TRUE
  UseTls = FALSE
  RxCap = 3
  TxCap = 2
  HdrLen = 2
  BodyLen = 1
  ScratchLen = 2
  MinHeadroom = 1
  MaxScratch = 4
  MaxRetries = 1
  BatchLen = 1
  Frames = {"len", "chunked"}
  Timeouts = {"finite"}
  MaxStart = 2
INVARIANTS
  AnswerIsOurs
  CleanMeansDrained
  SendsBounded
  OneLiveCopy
  DeadConnectionIsSilent
PROPERTIES
  CallsReturn
  ContractKept
CHECK_DEADLOCK FALSE
