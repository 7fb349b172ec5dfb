SPECIFICATION Spec
CONSTANTS
  LOGQ = 2
  NUM_INPUTS = 3
  Q_VALUE = 3
  PowerUp = 0
  Configs <- MCConfigs
  Samples <- MCSamples
INVARIANTS TypeOK SumOfItsOwnInputs
