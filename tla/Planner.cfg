SPECIFICATION Spec

CONSTANTS
  None = None
  Infeasible = Infeasible
  Cards <- MCCards
  Configs <- MCConfigs
  BinOrders <- StagedOrders
  Capacities <- StagedCapacities

CHECK_DEADLOCK FALSE

INVARIANT TypeOK
INVARIANT ProvisionComplete
INVARIANT ProvisionSound
INVARIANT BinsSorted
INVARIANT GroupsTogether
INVARIANT TopIsPlannedCard
INVARIANT PlacedAsAnnounced
