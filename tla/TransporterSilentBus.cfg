CONSTANTS
  Packets = {1}
  ReadBatch = 1
  MaxTx = 1
  MaxRx = 1
SPECIFICATION FairSpec
PROPERTY CloseCompletes
