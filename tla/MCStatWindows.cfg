SPECIFICATION Spec
CONSTANTS
  StatNum = 2
  WinNum = 2
  PipeNum = 2
  CtrlNum = 1
  MinCount = 0
  Bufs = {b1}
  Apps = {a1}
  Conns = {c1, c2}
INVARIANTS WindowOwned BufferOnce
PROPERTY DataArrives
