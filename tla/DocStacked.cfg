SPECIFICATION MCSpec
CONSTANTS
  Device = {"vda", "vda1", "vdb", "vdb1", "vdc", "dm"}
  NoDevice = NoDevice
  Mapped = {"dm"}
  Inst <- MCInst
  Text = {"", "s1", "s2", "w1"}
  Ident <- MCIdent
  SectorBytes = 1
  MaxInt64 = 7
  MinimumLiveAvailableBytes = 4
  ValidLabel = {"vda", "vda1", "vdb", "vdb1", "vdc", "dm"}
  ValidText = {"", "s1", "s2", "w1"}
  Inode = {"i1", "i2"}
  NoInode = NoInode
  Chunk = {"a", "b", "Z"}
  MaxFile = 2
  Magic = "Z"
  ZOut <- MCZOut
  ZFault <- MCZFault
  NoToken = NoToken
  ValidDigest <- MCDigests
  TargetName = "vda"
  ImagePath <- MCImagePath
  Topologies <- LiveTopologies
  MountTables <- StackedMounts
  SwapTables <- NoSwaps
  Nodes <- LiveNodes
  Kernels <- Root
  Requests <- LiveRequests
  Unreadable = {}
  PollAttempts = 2
  MaxCalls = 2
  MaxMoves = 0
  Images = {}
  StartImage <- MCStart
INVARIANT LiveSourceInMemory
