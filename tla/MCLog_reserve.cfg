\* param.h and mkfs.c scaled down: LOGSIZE is three times MAXOPBLOCKS, the
\* on-disk log has LOGSIZE blocks, and operations use their whole reservation.
CONSTANTS
  Proc = {p1, p2, p3}
  Block = {b0, b1, b2, b3}
  Block0 = b0
  Val = {v1}
  LOGSIZE = 3
  MAXOPBLOCKS = 1
  nlog = 3
  OpBlocks = 1
SYMMETRY Symmetry
CONSTRAINT NoRaceYet
SPECIFICATION Spec
INVARIANT NoPanic
