SPECIFICATION Spec
CONSTANTS
  Validators <- TwoValidators
  Node = {"v0", "v1"}
  Faulty = {}
  Body <- Bodies
  Spends <- BodySpends
  Outpoint = {"coin"}
  MaxHeight = 2
  MaxBlocks = 2
  MaxForged = 1
INVARIANTS
  GenuineAgreement
  LedgerExplained
PROPERTIES
  CommitExtendsOrRepeats
CHECK_DEADLOCK FALSE
