SPECIFICATION MCSpec
CONSTANTS
  HasOpenSSL = TRUE
  UseTls = FALSE
  RxCap = 3
  TxCap = 2
  HdrLen = 2
  BodyLen = 1
  ScratchLen = 2
  MinHeadroom = 1
  MaxScratch = 4
  MaxRetries = 1
  BatchLen = 1
  Frames = {"len", "chunked", "none"}
  Timeouts = {"finite", "negative"}
  MaxStart = 2
INVARIANTS
  BodyIntact
CHECK_DEADLOCK FALSE
