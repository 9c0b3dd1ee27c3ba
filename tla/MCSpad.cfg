SPECIFICATION MCSpec
CONSTANTS
  Procs = {p}
  MemMax = 5
  FrameMax = 2
  Sizes = {0, 1, 2}
  Alignments = {0, 1, 2, 3}
  DefaultAlign = 2
  MaxGuards = 3
  MaxUsed = 7
INVARIANTS
  TypeOK
  InBounds
  AllocationsDisjoint
