SPECIFICATION Spec
CONSTANTS
  WndNum = 1
  WinNum = 1
  PipeNum = 2
  CtrlNum = 2
  MissNum = 1
  Bufs = {b1}
  Apps = {a1}
  Conns = {c1}
PROPERTY PauseHolds
