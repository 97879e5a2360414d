\* Three entries: several writers of one register in flight, waiting operands,
\* flushes.  One value is marked, the others are 0.
SPECIFICATION RatSpec
CONSTANTS
  N = 3
  Kinds = {"load", "jalr", "store", "csr"}
  Regs = {1}
  Programs <- Mixed
  Vals = {0, 1}
INVARIANTS
  OperandsAreArchitectural
  WaitersHaveProducers
  CsrOperandReady
