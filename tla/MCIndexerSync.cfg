SPECIFICATION Spec
CONSTANTS
  None = None
  StartHeight = 2
  BatchSize = 2
  ReceiptsOf <- BlockReceipts
  Window = 3
  MaxHeight = 4
  MaxReorgs = 2
  MaxFaults = 2
INVARIANTS LogServed TablesReplayed
PROPERTIES RollbackSound FinalKept ConvergesUnlessOvertaken
