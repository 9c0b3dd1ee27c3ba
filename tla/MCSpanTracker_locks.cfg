SPECIFICATION MCSpec
CONSTANTS
  Threads = {t1, t2, t3}
  Spans = {s1, s2}
  None = None
  MaxDepth = 1
  MaxStack = 1
SYMMETRY Symmetry
INVARIANTS
  JamNeedsCloseOrStats
CHECK_DEADLOCK FALSE
