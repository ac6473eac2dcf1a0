CONSTANTS
  Packets = {1, 2, 3}
  ReadBatch = 2
  MaxTx = 2
  MaxRx = 3
SPECIFICATION InTurnSpec
INVARIANTS
  WakeupPending
  ConfirmedStaysOpen
  TxConserved
  RxConserved
PROPERTIES
  IsPortService
  TxIsFifo
  RxIsFifo
  ClosedOnlyByStop
  HandlersReturn
  TxReported
  RxReported
