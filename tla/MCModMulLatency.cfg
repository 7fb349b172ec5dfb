SPECIFICATION Spec
CONSTANTS
  LOGW = 2
  LOGQ = 5
  JOIN_SPLIT = 4
  Configs <- MCConfigs
  Samples <- MCSamples
INVARIANTS LatencyIsLAT
