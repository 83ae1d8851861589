SPECIFICATION ScriptSpec
CONSTANTS
  Accounts = {alice, bob}
  Assets = {equity}
  OrderIds = {1, 2}
  Prices = {1}
  Sizes = {1}
  UnpackLimit = 2
  NoRequest = NoRequest
INVARIANTS
  MarketOrdersMatch
CHECK_DEADLOCK FALSE
