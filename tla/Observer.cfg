SPECIFICATION MCSpec
CONSTANTS
  Device = {"a", "b", "c", "d"}
  NoDevice = NoDevice
  Mapped = {"d"}
  Inst <- MCInst
  Text = {""}
  Ident <- MCIdent
  SectorBytes = 1
  MaxInt64 = 7
  MinimumLiveAvailableBytes = 4
  ValidLabel = {"a", "b", "c", "d"}
  ValidText = {""}
  ValidDigest = {}
  Topologies <- MCTopologies
  MountTables <- MCMountTables
  SwapTables <- MCSwapTables
  SourcePaths <- MCSourcePaths
INVARIANTS WalkComputesRelated NamesCoverStorage
INVARIANTS ObsTypeOK StableUseReported  SnapshotWhenStill NoDeviceTwice
PROPERTIES WalkEnds ObservationEnds
