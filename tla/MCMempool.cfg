SPECIFICATION Spec
CONSTANTS
  Tx <- SomeTx
  Priority <- SomePriority
  Size <- SomeSize
  MaxSize = 4
  MaxCount = 3
  MaxBytes = 5
INVARIANT
  SelectionJustified
PROPERTIES
  DriftHasCause
  EvictsCheapest
