SPECIFICATION SimFairSpec
CONSTANTS
  Configs <- MCConfigs
  NoTarget = NoTarget
  MaxEvents = 2
  MaxPerTick = 2
INVARIANTS MetricsSound FinalCountsExact
PROPERTIES GrowThenFreeze SimulationFinishes
CHECK_DEADLOCK FALSE
