SPECIFICATION ScriptSpec
CONSTANTS
  Accounts = {alice, bob}
  Assets = {equity}
  OrderIds = {1, 2, 3}
  Prices <- MCPrices
  Sizes = {0, 1, 2}
  UnpackLimit = 1
  NoRequest = NoRequest
SYMMETRY Symmetry
INVARIANTS
  StoresAgree
PROPERTIES
  RunsAtomically
  OnlyAbortsHide
  OnlyAbortsBreakPromises
CHECK_DEADLOCK FALSE
