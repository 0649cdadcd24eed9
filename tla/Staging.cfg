SPECIFICATION Spec

CONSTANTS
  None = None
  Infeasible = Infeasible
  Cards <- MCCards
  Configs <- MCConfigs
  BinOrders <- FullOrders
  Capacities <- FullCapacities

CHECK_DEADLOCK FALSE

INVARIANT TopIsPlannedCard
