SPECIFICATION FairSpec
CONSTANTS
  Reqs = {r1, r2}
  r1 = r1
  r2 = r2
  None = None
  Configs <- Settings
  DescMax = 3
  desc_blen_max <- BlenMax
  CountMod = 16
INVARIANTS TypeOK ListIsOfOpenCalls CompletedIsMoved DescriptorsAccounted UndisturbedCallsComplete
PROPERTIES FailureIsReal ImplementsCalls EveryCallReturns
CHECK_DEADLOCK FALSE
