SPECIFICATION BookSpec
CONSTANTS
  Accounts = {alice, bob}
  Assets = {equity}
  OrderIds = {1, 2}
  Prices = {1, 2}
  Sizes = {1}
  UnpackLimit = 2
INVARIANTS
  NeverCrossed
CHECK_DEADLOCK FALSE
