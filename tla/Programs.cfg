\* Four slots, of which the last load factor leaves one free; three nodes, a ring
\* of three and twice as many edges to try, as in the programs.  Cycles of five
\* units against DRAM periods below and above them, two of them in reset; 16
\* stands for 2^32.
SPECIFICATION Spec
CONSTANTS
  Cap = 4
  Vals = {1, 2, 3}
  Far = {9}
  PHashes = {0, 1}
  Hashes <- AllHashes
  Targets <- TwoTargets
  Samples = 2
  GSize = 3
  NMax = 3
  EdgeCt = 6
  Queries <- TwoQueries
  Dumps <- SomeDumps
  ClkUnit = 5
  Periods = {2, 3, 7}
  Junk = {0, 1, 13}
  ClkWrap = 16
  ResetTicks = 2
  LastTick = 7
  LastEdge = 7
  LineBeats = 2
  MainRows = 1
  BufRows = 4
  MaxAsked = 2
  MaxMarks = 14
  Plain = plain
  Special = special
  NoNode = nonode
INVARIANTS
  SizeIsContent
  FoundIsReachable
  PathIsShortest
  MemfileIsGraph
  DumpFollowsRanges
  DramKeepsTime
  VpiClockInPhase
  NodesAreSearched
PROPERTIES
  ImplementsSet
  Finishes
  SearchesEnd
\* All the programs end, and so does what a fault of the accelerator leaves of a search.
CHECK_DEADLOCK FALSE
