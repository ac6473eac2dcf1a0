CONSTANTS
  Headers <- MCHeaders
  Sizes = {0, 1, 7, 8, 9, 16, 23, 41, 300}
  IndexSize = 4
SPECIFICATION Spec
INVARIANTS ShortArrivesUnchanged FrameReported SegmentsHoldMessage
