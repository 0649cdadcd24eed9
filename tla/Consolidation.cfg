SPECIFICATION Spec

CONSTANTS
  w1 = w1
  w2 = w2
  c1 = c1
  c2 = c2
  c3 = c3
  r1 = r1
  r2 = r2
  r3 = r3
  k1 = k1
  k2 = k2
  printA = printA
  printB = printB
  Workers = {w1, w2}
  Cards = {c1, c2, c3}
  Runs = {r1, r2, r3}
  Collections = {k1, k2}
  Prints = {printA, printB}
  PrintOf <- MCPrintOf
  CollectionOf <- MCCollectionOf
  None = None
  MaxCrashes = 1

SYMMETRY WorkerSymmetry

INVARIANT ConsolidationInv
INVARIANT NothingCountedTwice
PROPERTY KeepsPromise
