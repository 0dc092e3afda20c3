\* Two forks, one processor, fair scheduling.  The invariants are proved for
\* any number of slots, processors and forks.
CONSTANTS
  Slot = {init, s1, s2}
  initproc = init
  NoProc = null
  IO = io
  NCPU = 1
  MaxPid = 3
SPECIFICATION FairSpec
INVARIANTS TypeOK HasLiveParent WaitSleeperJustified EmbryoOwned PidsDistinct
PROPERTY OrphanReaped
