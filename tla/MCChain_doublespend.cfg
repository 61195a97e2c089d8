SPECIFICATION Spec
CONSTANTS
  Tx <- Transfers
  Alloc = "alloc"
  Inputs <- TransferInputs
  Outputs <- TransferOutputs
  WellFormed <- Transfers
  Priority <- NoPriority
  Size <- UnitSize
  MaxSize = 2
  Node = {"v", "o"}
  Validator = "v"
  MaxTxPerBlock = 2
  MaxBlockBytes = 10
  MaxEmptyBlocks = 1
  MaxRestarts = 0
INVARIANT
  BlockSpendsOnce
CHECK_DEADLOCK FALSE
