SPECIFICATION CachesSpec
CONSTANTS
  Dwords = 2
  RamLines = 2
  RomLines = 1
  MaxOps = 4
  Masters = {l2, bfs}
  None = None
  CLines = {la, lb}
  Ways = {wa}
  Beats = 2
  Ids = {i1, i2}
  FifoDepth = 1
  MaxWrites = 1
  Nil = Nil
SYMMETRY CacheSym
CONSTRAINT NoCacheFault
INVARIANTS
  EveryWaitHasAnAnswer
  CopiesAreLatest
  LoadsAreCoherent
  LoadsAreInOnePlace
