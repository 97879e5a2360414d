\* Safety, refinement and liveness: a three-entry ring, five kinds of instruction.
SPECIFICATION FairSpec
CONSTANTS
  N = 3
  Kinds = {"jalr", "store", "csr", "br", "errst"}
INVARIANTS
  TypeOK
  NothingLost
  ResultsHaveOwners
  RetiresFinished
  StoresMatch
  CsrNonSpeculative
  StoreHoldIsReal
PROPERTIES
  ImplementsWindow
  KeepsRetiring
