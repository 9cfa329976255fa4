SPECIFICATION Spec
CONSTANTS
  WndNum = 2
  WinNum = 1
  PipeNum = 1
  CtrlNum = 1
  MissNum = 1
  Bufs = {b1}
  Apps = {a1}
  Conns = {c1, c2, c3}
INVARIANTS WindowsMatch BufferPlaces ConnectionFits ReleaseCanEnd
SYMMETRY Perms
