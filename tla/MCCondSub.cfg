SPECIFICATION Spec
CONSTANTS
  LOGQ = 2
  SUM_W = 5
  MAX_COND_SUB = 4
  NUM_CS = 3
  PowerUp = 0
  pow2 <- MCpow2
INVARIANTS TypeOK Reduced StageInv
