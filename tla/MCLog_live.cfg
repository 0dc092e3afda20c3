\* Overlapping log_write calls included.
CONSTANTS
  Proc = {p1, p2}
  Block = {b0, b1, b2}
  Block0 = b0
  Val = {v1}
  LOGSIZE = 8
  MAXOPBLOCKS = 4
  nlog = 8
  OpBlocks = 1
SPECIFICATION FairSpec
INVARIANTS CommitQuiescent SleeperHasWaker
PROPERTY SleeperIsWoken
