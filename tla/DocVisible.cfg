SPECIFICATION MCSpec
CONSTANTS
  Caller = {"c1"}
  Old = "old"
  NoFile = NoFile
  Dest = "image"
  Temp = {"t1"}
  NameReuse = TRUE
  Chunk = {"a", "b"}
  MaxFile = 4
  MaxInt64 = 7
  Request <- OneChunk
  Response <- OneChunkResponse
  OldContent <- MCOld
  Timeout = {1}
  defaultHTTPTimeout = 1
INVARIANT FailurePreservesDestination
