\* Three entries.  The results of loads and of branches that redirect, of long
\* and short instructions, forwarded link addresses and csr results meet on
\* the bus.
SPECIFICATION ExecFairSpec
CONSTANTS
  N = 3
  Kinds = {"alu", "br", "csr", "jalr", "load"}
  RsEntries = 2
  CsrClasses = {"bfs"}
  Programs = {{"br", "load"}, {"alu", "jalr"}, {"jalr", "csr"}}
INVARIANTS
  EveryResultHasAPlace
PROPERTIES
  ImplementsRob
  BusServesAll
