\* An lbcmp whose byte is still to come.
SPECIFICATION LsqSpec
CONSTANTS
  N = 2
  LqSize = 2
  Window = 2
  w1 = w1
  Addrs = {w1}
  Blocks = {{w1}}
  Widths = {"block"}
  Mark = 0
  Late = {"lop2"}
INVARIANT IssuedLoadsHaveOperands
