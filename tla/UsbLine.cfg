CONSTANTS
  BufferSize = 26
  Dlcs = {0, 8}
  Stamps = {TRUE, FALSE}
  MaxFrames = 2
  MaxOwed = 1
SPECIFICATION FairSpec
INVARIANTS NothingInvented LossAccounted
PROPERTY FramesReceived
