\* Two operations whose log_write calls may overlap.
CONSTANTS
  Proc = {p1, p2}
  Block = {b0, b1, b2}
  Block0 = b0
  Val = {v1, v2}
  LOGSIZE = 8
  MAXOPBLOCKS = 4
  nlog = 8
  OpBlocks = 2
SYMMETRY Symmetry
SPECIFICATION Spec
PROPERTY AtomicSpec
