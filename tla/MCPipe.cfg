\* Two processes that can hold both ends, and calls longer than the pipe.
CONSTANTS
  Proc = {p1, p2}
  NoProc = none
  Byte = {b1, b2}
  PIPESIZE = 2
  UMAX = 4
  Length = {1, 3}
SPECIFICATION FairSpec
INVARIANTS TypeOK NoUseAfterFree SleepJustifiedUnlessAborted
PROPERTIES IsFifo EndOfFile BlockedIsWoken
