SPECIFICATION ScriptSpec
CONSTANTS
  Accounts = {alice, bob}
  Assets = {equity}
  OrderIds = {1, 2, 3}
  Prices = {1, 2}
  Sizes = {1, 2}
  UnpackLimit = 3
  NoRequest = NoRequest
SYMMETRY Symmetry
INVARIANTS
  ScriptTypeOK
  StoresAgree
  NeverLocked
  BuyersNeverOverpay
PROPERTIES
  RunsAtomically
  KeepsPromises
CHECK_DEADLOCK FALSE
