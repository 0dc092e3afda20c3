CONSTANTS
  Proc = {p1, p2}
  NoProc = noproc
  Handle = {p1, p2}
  Owner <- MCOwner
  Rank <- MCRank
  Pointer = {first, second}
  Sector = {s1, s2, s3}
  NoSector = nosector
  Val = {v1, v2}
  Lost = lost
  NBUF = 2
  MaxPinned = 1
SPECIFICATION SystemSpec
SYMMETRY Symmetry
CONSTRAINT NoRaceYet
INVARIANTS CacheSound NoLogPanic ImageSound HeapSound ParsesLine JobsSound StringsSound
PROPERTIES BuffersSuffice NestedReads IsOneCopy
