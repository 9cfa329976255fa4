CONSTANTS
  ld = ld  fw = fw  st = st  q = q  r = r  bad = bad
  idLd = idLd  idFw = idFw  idQ = idQ  idR = idR  idBad = idBad
  cFw = cFw  cShared = cShared  cOwn = cOwn
  Static <- MCStatic
  File <- MCFile
  ModidOf <- MCModidOf
  MaxPluginNum = 4
  NoModule = NoModule
  LoaderModule = ld
  FwModule = fw
  Clsid <- MCClsid
  FwClsid = cFw
  ClassesOf <- MCClassesOf
  LevelOf <- MCLevelOf
  DomainCovers <- MCDomainCovers
  Rejected = {bad}
  NoEntry = NoEntry
CHECK_DEADLOCK FALSE
SPECIFICATION FairSpec
INVARIANTS UniqueModid CountExact LibraryBalance ClsmapOwned NoDangling ListSound OneEntry
PROPERTIES RegistrantStays InitReaches LoopEnds
