\* Two payloads without a price under one event id.
SPECIFICATION Spec
CONSTANTS
  i1 = i1
  i2 = i2
  Id = {i1, i2}
  Body = {n1, n2}
  Unpriced = {n1, n2}
  Rejected = {}
  KeepState = FALSE
  MaxBatch = 2
  MaxBatches = 1
SYMMETRY MCSymmetry
INVARIANT
  ConflictsSurfaced
