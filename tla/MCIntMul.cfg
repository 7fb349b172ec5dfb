CONSTANTS
  DSP_A_U = 3
  DSP_B_U = 2
  KARATSUBA_THRESHOLD = 3
  Configs <- MCConfigs
  Samples <- MCSamples
SPECIFICATION Spec
INVARIANTS TypeOK ProductOfItsOwnInputs SubproductsMeet
