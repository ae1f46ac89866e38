\* The three DAGs, one to a behaviour, while the warehouse goes on loading.
SPECIFICATION Spec
CONSTANTS
  Dags = {"metrics", "quality", "health", "api"}
  Row <- MCRow
  Source = {"best_buy", "fake_store"}
  Configured = {"fake_store"}
  PageSize = 1
  ListLimit = 2
  Overfetch = 2
  NameRank <- MCNameRank
  Days0 = 2
  MaxReruns = 2
  MinSuccess = 50
  MaxMalformed = 50
  MaxEmpty = 3
  MaxAge = 0
  MinExpected = 0
  MaxHistory = 20
INVARIANTS
  TypeOK
  GreenIsComplete
  CountsCover
  
  PagesComplete
  AnswersAgree
CHECK_DEADLOCK FALSE
