\* kill of a pid that no process has, then fork.
CONSTANTS
  Slot = {init, s1, s2}
  initproc = init
  NoProc = null
  IO = io
  NCPU = 2
  MaxPid = 3
SYMMETRY Symmetry
SPECIFICATION Spec
INVARIANT KilledWasTarget
