SPECIFICATION Spec
CONSTANTS
  Tx <- Transfers
  Alloc = "alloc"
  Inputs <- TransferInputs
  Outputs <- TransferOutputs
  WellFormed <- Transfers
  Priority <- NoPriority
  Size <- UnitSize
  MaxSize = 2
  Node = {"v", "o"}
  Validator = "v"
  MaxTxPerBlock = 2
  MaxBlockBytes = 10
  MaxEmptyBlocks = 1
  MaxRestarts = 1
INVARIANTS
  Agreement
  UtxoIsReplay
  IndexFollowsChain
  ConfirmedOnce
PROPERTIES
  DisjointBlockConserves
  RefinesReplicatedChain
CHECK_DEADLOCK FALSE
