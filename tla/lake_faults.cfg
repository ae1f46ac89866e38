\* Two compactions that may overlap, failing calls and replayed events.
SPECIFICATION Spec
CONSTANTS
  r1 = r1
  r2 = r2
  r3 = r3
  k1 = k1
  k2 = k2
  k3 = k3
  w1 = w1
  w2 = w2
  Record = {r1, r2}
  Key = {k1, k2}
  KeyOf <- MCPairKeyOf
  Worker = {w1, w2}
  MinFiles = 1
  MaxRuns = 2
  MayFail = TRUE
  MayReplay = TRUE
SYMMETRY MCSymmetry
INVARIANTS
  TypeOK
  NoRecordLost
  ReadsComplete
PROPERTY
  ImplementsLakeTable
