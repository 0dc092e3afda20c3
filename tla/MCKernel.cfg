CONSTANTS
  Family = {p1, p2}
  p1 = p1
  NoProc = noproc
  Proc = {t1, t2}
  Images <- MCImages
  Increments <- MCIncrements
  Naps = {0, 1}
  INPUT_BUF = 2
  UMAX = 4
  Plain = {"x", "y"}
  Sizes = {1, 2}
  Char = {"a", "b"}
  Lengths = {2}
  Cpus = {c0, c1, c2}
  bsp = c0
  NoCpu = nocpu
SPECIFICATION KernelSpec
SYMMETRY Symmetry
CONSTRAINT NoOverlap
INVARIANTS AddressSpacesSound LockingSound RingSound TerminalSound StacksSound FilesSound
PROPERTIES ForkCopies CommittedIsQueue
