SPECIFICATION Spec
CONSTANTS
  None = None
  StartHeight = 2
  BatchSize = 2
  ReceiptsOf <- BlockReceipts
  Window = 3
  MaxHeight = 3
  MaxReorgs = 1
  MaxFaults = 0
PROPERTIES
  Converges
