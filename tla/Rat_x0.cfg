\* A load to x0 and a reader of x0.
SPECIFICATION RatSpec
CONSTANTS
  N = 2
  Kinds = {"load"}
  Regs = {1}
  Programs <- LoadsAndZero
  Vals = {0, 1}
INVARIANT ZeroReadsAsZero
