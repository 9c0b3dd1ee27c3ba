SPECIFICATION MCSpec
CONSTANTS
  Threads = {t1, t2}
  Spans = {s1, s2}
  None = None
  MaxDepth = 1
  MaxStack = 1
PROPERTIES
  CloseTakesEffect
CHECK_DEADLOCK FALSE
