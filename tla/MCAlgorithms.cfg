SPECIFICATION Spec
CONSTANTS
  Key = {"k1", "k2", "k3"}
  Overhead = 1
  PerInput = 1
  PerOutput = 1
  Q = 5
  H = 2
  MaxBits = 3
  ScriptTasks <- Scripts
  MerkleTasks <- Merkles
  BuildTasks <- Builds
  ConflictTasks <- Conflicts
  RangeTasks <- Ranges
  TransferTasks <- Transfers
  RatioTasks <- Ratios
  IdentityTasks <- Identities
  TradeTasks <- Trades
  RuleTasks <- Rules
  CarryTasks <- Carries
  BlockTasks <- MadeBlocks
  MessageTasks <- Messages
  RecordTasks <- Records
  busy = busy
  other = other
  Client = {busy, other}
  Config <- Configs
  Request <- Requests
  Burst = 2
  Cost = 2
  Rate = 1
  Block = 2
  MaxTime = 3
  MaxAsked <- Asking
  HashLen = 2
  Byte = 4
  Radix = 3
  QrMax = 8
  NfcMax = 6
  Now = 7
  Later = 8
INVARIANTS
  ScriptsPayAsPromised
  MerkleProofsExact
  AmountsBalance
  HonestProofsVerify
  RatioDecides
  TravelsUnchanged
  ServedWithinRate
CHECK_DEADLOCK FALSE
