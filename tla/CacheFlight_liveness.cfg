SPECIFICATION FairSpec
CONSTANTS
  c1 = c1
  c2 = c2
  r1 = r1
  r2 = r2
  k1 = k1
  k2 = k2
  NoRun = NoRun
  Callers = {c1, c2}
  Keys = {k1}
  Runs = {r1}
  Limit = 1
  MaxBatch = 1
  MaxVersion = 1
  Writable = {}
  NegativeCaching = FALSE
PROPERTIES EveryRequestReturns
