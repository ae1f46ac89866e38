\* A compaction fails and runs again.
SPECIFICATION Spec
CONSTANTS
  r1 = r1
  r2 = r2
  r3 = r3
  k1 = k1
  k2 = k2
  k3 = k3
  Record = {r1, r2, r3}
  Key = {k1, k2, k3}
  KeyOf <- MCKeyOf
  w1 = w1
  w2 = w2
  Worker = {w1}
  MinFiles = 2
  MaxRuns = 2
  MayFail = TRUE
  MayReplay = FALSE
INVARIANTS
  OneCopyWhenCompacted
