\* Two sources with two events each in two cycles, with every failure.
SPECIFICATION FairSpec
CONSTANTS
  Adapters <- TwoAdapters
  MaxItems = 2
  MaxRetries = 1
  MaxCycles = 2
  MayFail = TRUE
INVARIANTS
  TypeOK
  NothingTwice
  TotalIsHonest
PROPERTIES
  EverySourceTried
  StopObeyed
CHECK_DEADLOCK FALSE
