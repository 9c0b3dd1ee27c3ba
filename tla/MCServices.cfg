SPECIFICATION MCSpec
CONSTANTS
  Conns = {1, 2}
  Blocks = {b1, b2, b3}
  CountMod = 256
  QConns = {q1, q2}
  NetCtxs = {n1, n2, n3}
  Streams = {1, 2}
  Requests = {rq1, rq2}
  Depth = 2
  Payloads = {pl1, pl2}
  RingMod = 8
  TileCnt = 4
  WorkerMax = 3
  TaskMax = 7
  LaneMax = 2
  LThreads = {"t1", "t2"}
  LevelsUsed = {1, 4}
  TrThreads = {"t1", "t2"}
  EventFields = {"message", "a"}
  Customs = {"a"}
  JKeys <- MCJKeys
  Leaves = {"null", "nul"}
  Width = 2
  NodesMax = 6
  Mantissa = 8
  ScanKeys <- MCScanKeys
  ScanLeaves <- MCScanLeaves
  ScanWidth = 2
  StaticMax = 2
  TableMax = 1
  RefMax = 1
  TextMax = 5
  BytesMax = 7
  ZFrames <- MCZFrames
  FramesMax = 2
  ChunkSize = 2
  HeaderMin = 2
  OutputMax = 6
  PbRoom = 6
  FieldMax = 3
  StringMax = 3
  TPaths = {"a", "b"}
  PodMax = 2
  PathMax = 3
  MinSize = 7
  SizeBound = 9
  DataHeader = 2
  CodeHeader = 3
  NodeSize = 1
  NodesBound = 2
  RootSize = 1
  SigSize = 1
  BumpMax = 3
  MaxSeeds = 2
  MaxSeedLen = 1
  BatchMax = 2
  CountWidth = 4
  EdBatch = 5
  Words = {"--k", "--l", "v"}
  OptKeys = {"--k", "--l"}
  ArgMax = 4
  Bits = 4
  ByteBits = 2
  ListMax = 4
  Octets = {0, 9, 10, 11, 15, 16, 31, 32, 127, 128, 167, 168, 172, 192}
  SysCrates = {"base64", "ed25519", "json", "nanopb", "sbpf", "shred", "toml", "txn",
    "zstd", "svm", "bits", "checkpt", "clock", "env", "log", "math", "net", "scratch",
    "shmem", "spad", "tile", "tmpl", "tpool", "valloc", "wksp", "grpc", "http", "quic", "rpc",
    "builders"}
  EditMax = 1
INVARIANTS
  HttpSound
  TransportsSound
  SharesExact
  RuntimeSound
  CodecsFaithful
  ScansFaithful
  BuildCoherent
PROPERTIES
  CallsEnd
CHECK_DEADLOCK FALSE
