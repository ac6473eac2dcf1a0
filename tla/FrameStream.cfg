CONSTANTS
  Radix = 4
  LenLimit = 8
  Hash = 2
  Bang = 3
  CR = 0
  LF = 1
  Payloads <- SmallPayloads
  MaxSent = 2
  MaxStray = 5
SPECIFICATION FewStraySpec
INVARIANTS SynchronisedBetweenFrames ViewStaysInside
PROPERTIES FramesInOrder FramesDelivered
