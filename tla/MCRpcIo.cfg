SPECIFICATION MCSpec
CONSTANTS
  HasOpenSSL = TRUE
  UseTls = TRUE
  RxCap = 2
  TxCap = 2
  TxUnits = {q}
  RxUnits = {r}
  MaxSent = 3
  MaxStream = 4
INVARIANTS
  TypeOK
  RingsInBounds
  ResourcesOwned
  ReadyIsUsable
  NothingSentBeforeReady
PROPERTIES
  ErrorReported
  ErrorIsFinal
