SPECIFICATION MCSpec
CONSTANTS
  Caller = {"c1", "c2"}
  Old = "old"
  NoFile = NoFile
  Dest = "image"
  Temp = {"t1", "t2"}
  NameReuse = TRUE
  Chunk = {"a", "b"}
  MaxFile = 4
  MaxInt64 = 7
  Request <- TwoImages
  Response <- MCResponse
  OldContent <- MCOld
  Timeout = {0, 1}
  defaultHTTPTimeout = 1
INVARIANTS TypeOK DestinationComplete SuccessSurvives PartialsRemoved DiskUseBounded
PROPERTIES PublishesAtomically StageReturns
