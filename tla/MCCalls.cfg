\* Two processes and two names for the file system; a program with one division,
\* its handler with another, and a stack for two nested handlers.
CONSTANTS
  Proc = {p1, p2}
  NoProc = noproc
  Name = {a, b}
  NoName = noname
  Dot = dot
  DotDot = dotdot
  Val = {v1, v2}
  Start = start
  Resume = a74
  MainNext = {a74}
  HandlerNext = {h1}
  Handler = handler_addr
  HandlerBody = handler_body
  Restorer = restorer_addr
  RestorerBody = restorer_body
  None = none
  Dead = dead
  StackTop = 18
SPECIFICATION CallsSpec
SYMMETRY Symmetry
CONSTRAINT LostAtMostOne
INVARIANTS HandlersOwn InodesSound NamesSound UnlinksNeverCross
PROPERTIES HandlerReturns
