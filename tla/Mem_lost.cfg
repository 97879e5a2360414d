SPECIFICATION MemSpec
CONSTANTS
  Dwords = 2
  RamLines = 1
  RomLines = 0
  MaxOps = 2
  Masters = {l2, bfs}
  None = None
SYMMETRY Sym
INVARIANT NackedIsRetried
