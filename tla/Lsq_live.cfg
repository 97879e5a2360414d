\* Two loads and two stores on one word, so that every load waits for every older
\* store; values do not matter.
SPECIFICATION LsqFairSpec
CONSTANTS
  N = 2
  LqSize = 2
  Window = 3
  w1 = w1
  Addrs = {w1}
  Blocks = {{w1}}
  Widths = {"word"}
  Mark = 0
  Late = {}
PROPERTY LoadsComplete
