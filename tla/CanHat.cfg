CONSTANTS
  Descriptors = {1, 2, 3}
  MaxFrames = 4
  SocketBuffer = 2
  Block = 3
SPECIFICATION BusyBusSpec
INVARIANTS FramesInPlace ReaderOnOwnSocket OnlyFailedOpensLeak
PROPERTIES CloseReturns FramesRead
