SPECIFICATION FairSpec
CONSTANTS
  Configs <- Settings
  Size = 2
  Buffer = 3
  None = None
INVARIANTS TypeOK OkMeansTransferred UndisturbedTestSucceeds
PROPERTIES ResultsReadAfterDone TestEnds
CHECK_DEADLOCK FALSE
