SPECIFICATION Spec
CONSTANTS
  InvalidStateException = InvalidStateException
  configuration_error = configuration_error
  wrong_input_given = wrong_input_given
  internal_error = internal_error
  Configs <- MCConfigs
  Overlaps <- MCOverlaps
  RefineSteps = 1
  MaxLevel = 9
INVARIANTS
  SearchFinds
  PeriodicNeighbours
  WalksOverAllViewsAgree
  BoundariesAreCovered
  LevelsAreShared
CHECK_DEADLOCK FALSE
