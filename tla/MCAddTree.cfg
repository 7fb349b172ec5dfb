SPECIFICATION Spec
CONSTANTS
  WIDTH = 8
  Configs <- MCConfigs
  Samples <- MCSamples
INVARIANTS TypeOK SumOfItsOwnInputs BusesKeepTheSum
