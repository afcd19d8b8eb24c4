SPECIFICATION Spec
CONSTANTS
  c1 = c1
  c2 = c2
  r1 = r1
  r2 = r2
  k1 = k1
  k2 = k2
  NoRun = NoRun
  Callers = {c1, c2}
  Keys = {k1, k2}
  Runs = {r1, r2}
  Limit = 2
  MaxBatch = 2
  MaxVersion = 1
  Writable = {k1}
  NegativeCaching = TRUE
SYMMETRY Symmetry
CONSTRAINT Focus
INVARIANTS FlightsServed SlotsAccounted MissesExplained
