\* The fail-closed sink of the writers meets a record that does not parse.
SPECIFICATION FairSpec
CONSTANTS
  c1 = c1
  c2 = c2
  p1 = p1
  p2 = p2
  Consumer = {c1}
  Partition = {p1}
  NoOne = NoOne
  NoRecord = NoRecord
  LogEnd = 2
  MaxAttempts = 2
  Malformed <- MCMalformed
  DlqFailsClosed = TRUE
PROPERTY
  MalformedIsPassed
