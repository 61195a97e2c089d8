SPECIFICATION WalletFairSpec
CONSTANTS
  small = small
  large = large
  one = one
  both = both
  Coin = {small, large}
  Value <- Values
  Payment = {one, both}
  Need <- Needs
  MaxUtxos = 2
  MaxSeq = 1
  MaxFaults = 1
INVARIANTS
  AcceptedTogether
PROPERTIES
  QueuedSettles
CHECK_DEADLOCK FALSE
