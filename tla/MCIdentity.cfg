SPECIFICATION Spec
CONSTANTS
  ann = ann
  bob = bob
  a1 = a1
  a2 = a2
  k1 = k1
  k2 = k2
  v1 = v1
  Params <- ParamSets
  Genesis <- GenesisParams
  Did = {ann, bob}
  Anchor = {a1, a2}
  Key = {k1, k2}
  Credential = {v1}
  SubjectOf <- Subjects
  SignedBy <- Signers
  ExpiresAt <- Expiries
  Governors = {ann}
  Bootstrap <- Boot
  Lifetime = 0
  MaxNonce = 2
  MaxTime = 1
  MaxHeight = 1
  MaxSigs = 2
INVARIANTS
  JudgedOnce
  PermissionsAgree
PROPERTIES
  AuthenticatedOnce
CHECK_DEADLOCK FALSE
