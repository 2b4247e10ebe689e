SPECIFICATION MCSpec
CONSTANTS
  Inode = {i1, i2}
  NoInode = NoInode
  Chunk = {"a", "b", "Z", "end"}
  MaxFile = 3
  Magic = "Z"
  ZOut <- MCZOut
  ZFault <- MCZFault
  MaxChanges = 2
INVARIANTS TypeOK ExactImage StreamsVerifiedFile BoundedAndReported SizeErrorIsReal
PROPERTY WriteReturns
