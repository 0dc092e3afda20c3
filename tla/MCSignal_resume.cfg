SPECIFICATION Spec
CONSTANTS
  Val = {v1, v2}
  Start = start
  Resume = a74
  MainNext = {a74, a90}
  HandlerNext = {}
  Handler = handler_addr
  HandlerBody = handler_body
  Restorer = restorer_addr
  RestorerBody = restorer_body
  None = none
  Dead = dead
  StackTop = 18
SYMMETRY Symmetry
PROPERTY ResumesAfterFault
