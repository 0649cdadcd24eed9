SPECIFICATION FairSpec

CONSTANTS
  c1 = c1
  c2 = c2
  r1 = r1
  r2 = r2
  u1 = u1
  w1 = w1
  w2 = w2
  printA = printA
  printB = printB
  Workers = {w1, w2}
  Runs = {r1}
  Users = {u1}
  Owner <- MCOwner
  Cards = {c1, c2}
  StartBin <- MCStartBin
  PrintOf <- MCPrintOf
  Bins <- MCBins
  Prints = {printA, printB}
  BlankPrints = {}
  Amounts = {1, 2}
  FlaggedRuns = {}
  RefreshedPrints = {printA}
  Null = Null
  NoRow = NoRow
  None = None
  Infeasible = Infeasible
  PlanOf <- MCTightPlan
  MaxEvents = 0
  MaxPlans = 1
  MaxCrashes = 0

INVARIANT PricingInv
INVARIANT PlanPriced
PROPERTY SnapshotFrozen
PROPERTY RequestAnswered
