SPECIFICATION DeliverySpec
CONSTANTS
  Tx <- Transfers
  Alloc = "alloc"
  Inputs <- TransferInputs
  Outputs <- TransferOutputs
  WellFormed <- Transfers
  Priority <- NoPriority
  Size <- UnitSize
  MaxSize = 3
  Node = {"v", "o"}
  Validator = "v"
  MaxTxPerBlock = 1
  MaxBlockBytes = 10
  MaxEmptyBlocks = 1
  MaxRestarts = 0
PROPERTIES
  
  NodesCatchUp
CHECK_DEADLOCK FALSE
