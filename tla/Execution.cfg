SPECIFICATION Spec

CONSTANTS
  c1 = c1
  c2 = c2
  r1 = r1
  r2 = r2
  u1 = u1
  w1 = w1
  w2 = w2
  printA = printA
  printB = printB
  Workers = {w1, w2}
  Runs = {r1}
  Users = {u1}
  Owner <- MCOwner
  Cards = {c1}
  StartBin <- MCStartBin
  PrintOf <- MCPrintOf
  Bins <- MCBins
  Prints = {printA}
  BlankPrints = {}
  Amounts = {1}
  FlaggedRuns = {r1}
  RefreshedPrints = {}
  Null = Null
  NoRow = NoRow
  None = None
  Infeasible = Infeasible
  PlanOf <- MCPlan
  MaxEvents = 1
  MaxPlans = 1
  MaxCrashes = 0

SYMMETRY WorkerSymmetry

INVARIANT ExecutionInv
INVARIANT SuccessPrefix
INVARIANT BinMatchesLog
PROPERTY KeepsProgress
