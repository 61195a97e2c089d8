SPECIFICATION Spec
CONSTANTS
  Params <- BothParams
  FirstParams <- Strict
  Addresses <- TwoAddresses
  Amount = {0, 1, 2, 3}
  NLower = 2
  NUpper = 4
  MaxSigs = 2
  MaxHeight = 3
  MaxLog = 3
INVARIANTS
  SupplyBounded
  AuditExplainsSupply
  LookupFindsActive
PROPERTIES
  PastParamsStable
CHECK_DEADLOCK FALSE
