\* A ring of two, and the kinds that report differently. Fetch with a buffer of three
\* entries, all programs of three words, and one bit of history.
SPECIFICATION FrontSpec
CONSTANTS
  N = 2
  Kinds = {"load", "store", "csr", "jalr", "errst"}
  BufSize = 3
  MemWords = 3
  Codes <- AllCodes
  HistLen = 1
  MaxFlight = 1
INVARIANTS
  TraceIsOwn
  InflightNearWindow
  FetchesPath
  HistoryIsPath
PROPERTY
  FetchKeepsOffering
\* The simulation ends.
CHECK_DEADLOCK FALSE
