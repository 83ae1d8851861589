SPECIFICATION FairAssetsSpec
CONSTANTS
  Batches = {"b1", "b2", "b3"}
  acme = acme
  one = one
  zeta = zeta
  call = call
  put = put
  Tickers = {acme, one, zeta}
  Numeric <- MCNumeric
  Terms = {call, put}
  Forms <- MCForms
INVARIANTS
  AssetsTypeOK
  UniqueIds
  CreatedMeansFound
PROPERTIES
  ImplementsCatalogue
  BatchesEnd
CHECK_DEADLOCK FALSE
