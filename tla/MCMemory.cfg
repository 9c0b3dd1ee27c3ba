SPECIFICATION MCSpec
CONSTANTS
  WProcs = {wp1, wp2}
  Gaddrs = {g1, g2}
  Tags = {1, 2}
  AllocMax = 2
  ShProcs = {sp1, sp2}
  Names = {"region"}
  Regions = {r1, r2}
  JoinMax = 2
  SThreads = {st1, st2}
  Allocators = {a1, a2}
  FrameIds = {f1, f2, f3}
  SFrameMax = 2
  DraftMax = 1
  Buffers = {b1, b2}
  FileMax = 3
  FrameBound = 2
  Supported = {"raw", "lz4"}
  CProcs = {cp1, cp2}
  CSegs = {"s1", "s2"}
  JoinsMax = 1
  EpochMax = 2
  Cap = 2
  TVals = {1, 2}
  Strs = {str1, str2, str3}
  Vallocs = {v1, v2}
  VBlocks = {vb1, vb2}
  Sizes = {0, 1}
  ProgAlign = 4
  FootMax = 2
  AddrMax = 5
  RawMax = 40
  Programs = {"p1", "p2"}
  HeapLimit = 1
  CuLimit = 2
INVARIANTS
  HandlesOwn
  ScratchSound
  ClockOwned
  StorageSound
CHECK_DEADLOCK FALSE
