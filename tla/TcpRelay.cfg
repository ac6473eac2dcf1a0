CONSTANTS
  Sockets = {1, 2, 3, 4}
  ASSOC_MAXIMUM = 3
  Kinds = {"data"}
  MaxFrames = 2
  MaxRx = 0
SPECIFICATION Spec
INVARIANTS TypeOK WrappedAfterRaw
PROPERTY IsHub
