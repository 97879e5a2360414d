\* Two loads and two stores in flight, on the two words of one block; the bases
\* of the stores may come late.  A load of the whole block comes alone.
SPECIFICATION LsqSpec
CONSTANTS
  N = 2
  LqSize = 2
  Window = 3
  w1 = w1
  w2 = w2
  Addrs = {w1, w2}
  Blocks = {{w1, w2}}
  Widths = {"word", "block"}
  Mark = 1
  Late = {"sbase"}
SYMMETRY WordSymmetry
INVARIANTS
  LoadsSeeProgramOrder
  MemoryIsArchitectural
  AgesAreProgramOrder
  AddressesAreOwn
