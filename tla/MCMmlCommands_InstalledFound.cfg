SPECIFICATION Spec
CONSTANTS
  MaxUser = 2
  MaxCmd = 2
  MsgLimit = 1
  MinNum <- MinusOne
  StrayNum = 1
  Names = {n1, n2}
  Bufs = {b1, b2}
INVARIANT InstalledFound
