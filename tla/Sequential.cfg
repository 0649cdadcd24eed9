SPECIFICATION RetrySpec

CONSTANTS
  c1 = c1
  c2 = c2
  r1 = r1
  r2 = r2
  u1 = u1
  w1 = w1
  w2 = w2
  printA = printA
  printB = printB
  Workers = {w1}
  Runs = {r1}
  Users = {u1}
  Owner <- MCOwner
  Cards = {c1, c2}
  StartBin <- MCStartBin
  PrintOf <- MCPrintOf
  Bins <- MCBins
  Prints = {printA, printB}
  BlankPrints = {}
  Amounts = {1}
  FlaggedRuns = {r1}
  RefreshedPrints = {}
  Null = Null
  NoRow = NoRow
  None = None
  Infeasible = Infeasible
  PlanOf <- MCPlan
  MaxEvents = 3
  MaxPlans = 2
  MaxCrashes = 2

INVARIANT TypeOK
INVARIANT CompleteMeansPlaced
INVARIANT FailureExplained
PROPERTY LegalTransitions
PROPERTY MotionOnlyWhileExecuting
PROPERTY StagedCardsAreThere
PROPERTY MovesOnce
PROPERTY ResumeResolves
