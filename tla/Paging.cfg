SPECIFICATION PagingSpec
CONSTANTS
  Accounts = {alice, bob}
  Assets = {equity}
  OrderIds = {1, 2, 3, 4}
  Prices = {1}
  Sizes = {1, 2}
  UnpackLimit = 1
  ListpackLimit = 1
  Slots = 2
  Slot <- MCSlot
SYMMETRY Symmetry
INVARIANTS
  PagingTypeOK
  NobodySkipped
  ShownIsReal
