SPECIFICATION Spec
CONSTANTS
  Proc = {p1, p2}
  NoProc = none
  Byte = {b1}
  PIPESIZE = 2
  UMAX = 4
  Length = {1, 3}
SYMMETRY Symmetry
INVARIANTS SleepJustified
