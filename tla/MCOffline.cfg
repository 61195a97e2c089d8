SPECIFICATION FairSpec
CONSTANTS
  alloc = alloc
  pay = pay
  onward = onward
  again = again
  Tx <- Txs
  Own = {pay, onward}
  Foreign = {again}
  Alloc <- alloc
  Inputs <- InputsOf
  Outputs <- OutputsOf
  WellFormed <- Txs
  Priority <- One
  Size <- One
  MaxSize = 4
  Threshold = 1
  Window = 1
  BatchSize = 1
  MaxRetry = 2
  MaxSeq = 2
  MaxFaults = 1
  MaxEmpty = 1
INVARIANTS
  LayersMatchApplied
  PendingIsOnNetwork
PROPERTIES
  SyncGrounds
  PaymentsSettle
