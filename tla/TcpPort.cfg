CONSTANTS
  Sockets = {1, 2}
  ASSOC_MAXIMUM = 2
  Kinds = {"data", "op", "cp", "tx", "state", "hi"}
  MaxFrames = 2
  MaxRx = 1
SPECIFICATION FairSpec
INVARIANTS RightClient ClosedMeansSilent
PROPERTY HandlersReturn
