SPECIFICATION SalesSpec
CONSTANTS
  seller = seller
  other = other
  Address = {seller, other}
  Rates <- PhiValues
  Amount = {1, 2, 3}
  Account <- Accounts
  First <- FirstAccount
  Window = 2
  Month = 1
  MaxHeight = 4
  MaxSales = 3
  MaxUpdates = 1
INVARIANTS
  UsageIsWindow
  OverdrawnHasCause
CHECK_DEADLOCK FALSE
