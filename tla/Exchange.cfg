SPECIFICATION ExchangeSpec
CONSTANTS
  Accounts = {root, alice, bob}
  alice = alice
  bob = bob
  Admin = root
  Cash = cash
  Assets = {equity}
  OrderIds = {1, 2}
  Prices <- MCPrices
  Sizes = {0, 1, 2}
  UnpackLimit = 1
  Amounts = {2}
  Modulus = 16
  MaxDebits = 2
SYMMETRY Symmetry
INVARIANTS
  ExchangeTypeOK
  BackedOrders
  FundedBook
PROPERTIES
  ServesTheBook
CHECK_DEADLOCK FALSE
