\* Two concurrent operations of two blocks each.
CONSTANTS
  Proc = {p1, p2}
  Block = {b0, b1, b2}
  Block0 = b0
  Val = {v1, v2}
  LOGSIZE = 8
  MAXOPBLOCKS = 4
  nlog = 8
  OpBlocks = 2
SYMMETRY Symmetry
CONSTRAINT NoRaceYet
SPECIFICATION Spec
INVARIANT ModifiedIsPinned
PROPERTY AtomicUnlessRaced
