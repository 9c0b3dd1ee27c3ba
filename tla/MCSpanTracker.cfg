SPECIFICATION MCSpec
CONSTANTS
  Threads = {t1, t2}
  Spans = {s1, s2}
  None = None
  MaxDepth = 2
  MaxStack = 3
SYMMETRY Symmetry
INVARIANTS
  LifoExact
  EnteredIsTracked
CHECK_DEADLOCK FALSE
