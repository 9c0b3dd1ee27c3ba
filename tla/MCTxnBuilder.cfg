SPECIFICATION MCSpec
CONSTANTS
  Keys = {f, p, q, r}
  None = None
  Payer = f
  Prog = p
  Other = q
  Bytes = {"w", "x", "y", "z"}
  Instructions <- MCInstructions
  AcctMax = 3
  InstrMax = 2
  SigMax = 2
  Mtu = 24
  SigSz = 1
  KeySz = 1
  MaxFailed = 1
INVARIANTS
  TypeOK
  Recorded
  RoundTrip
  PermissionsKept
  FeePayerFirst
  ValidUnlessPayerRuns
  SizeHonest
CHECK_DEADLOCK FALSE
