SPECIFICATION FairSpec
CHECK_DEADLOCK FALSE
CONSTANTS
  x = x
  y = y
  z = z
  m1 = m1
  m2 = m2
  int = int
  ext = ext
  None = None
  Absent = Absent
  Vars = {x, y, z}
  Modules = {m1, m2}
  SrcNames = {int, ext}
  Items <- MCItems
  Contents <- MCContents
  ConfigSrc <- MCConfigSrc
  Actions <- MCActions
  MaxFigure = 3
INVARIANTS LookupSound
PROPERTIES ImplementsControl ScriptsEnd
