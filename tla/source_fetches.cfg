\* The adapters that fetch over HTTP, one to a behaviour.
SPECIFICATION Spec
CONSTANTS
  Adapters = {"web_retailer", "premium_retailer", "ebay", "best_buy", "fake_store"}
  Page <- MCPage
  MaxRetries = 2
  MaxPages = 3
  MaxFetches = 4
  MaxTime = 2
  MinSuccess = 50
  MaxMalformed = 50
  MaxEmpty = 2
  MaxAge = 0
  MinExpected = 1
  MaxHistory = 2
INVARIANTS
  TypeOK
  RequestsBounded
  LedgerAddsUp
  HealthFollows
CHECK_DEADLOCK FALSE
