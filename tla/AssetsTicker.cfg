SPECIFICATION AssetsSpec
CONSTANTS
  Batches = {"b1"}
  acme = acme
  one = one
  zeta = zeta
  call = call
  put = put
  Tickers = {acme, one, zeta}
  Numeric <- MCNumeric
  Terms = {call, put}
  Forms <- MCForms
INVARIANTS
  TickerFindsEquity
CHECK_DEADLOCK FALSE
