SPECIFICATION BookSpec
CONSTANTS
  Accounts = {alice, bob}
  Assets = {equity}
  OrderIds = {1, 2, 3}
  Prices <- MCPrices
  Sizes = {0, 1, 2, 3}
  UnpackLimit = 1
SYMMETRY Symmetry
INVARIANTS
  BookTypeOK
  StoresAgree
  NeverLocked
  BuyersNeverOverpay
PROPERTIES
  FillsBalance
  OffersTradeInPriority
  OnlyTradesRemove
CHECK_DEADLOCK FALSE
