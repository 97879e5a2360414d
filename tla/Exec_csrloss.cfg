\* A write of ml2stat waits for the l2 fifo while younger instructions run.
SPECIFICATION ExecFairSpec
CONSTANTS
  N = 4
  Kinds = {"alu", "csr"}
  RsEntries = 1
  CsrClasses = {"l2"}
  Programs = {{"alu", "csr"}}
PROPERTY KeepsRetiring
