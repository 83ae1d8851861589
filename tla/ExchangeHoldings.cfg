SPECIFICATION ExchangeSpec
CONSTANTS
  Accounts = {root, alice}
  alice = alice
  bob = bob
  Admin = root
  Cash = cash
  Assets = {equity}
  OrderIds = {1}
  Prices = {1}
  Sizes = {1}
  UnpackLimit = 1
  Amounts = {1}
  Modulus = 16
  MaxDebits = 1
INVARIANTS
  HoldingsAreShares
CHECK_DEADLOCK FALSE
