SPECIFICATION Spec
CONSTANTS
  Configs <- SecondRun
  Size = 2
  Buffer = 3
  None = None
INVARIANT OkMeansTransferred
CHECK_DEADLOCK FALSE
