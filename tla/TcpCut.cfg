CONSTANTS
  Sockets = {1, 2}
  ASSOC_MAXIMUM = 2
  Kinds = {"data"}
  MaxFrames = 1
  MaxRx = 1
SPECIFICATION Spec
INVARIANT FramesUnbroken
