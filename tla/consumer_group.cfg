\* Two members compete for one partition of two records.
SPECIFICATION FairSpec
CONSTANTS
  c1 = c1
  c2 = c2
  p1 = p1
  p2 = p2
  Consumer = {c1, c2}
  Partition = {p1}
  NoOne = NoOne
  NoRecord = NoRecord
  LogEnd = 2
  MaxAttempts = 2
  Malformed <- MCMalformed
  DlqFailsClosed = FALSE
INVARIANTS
  TypeOK
  NoLoss
  OutcomeSound
PROPERTIES
  ImplementsAtLeastOnce
  Drained
  ShutdownObeyed
