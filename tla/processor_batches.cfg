\* Batches of up to three messages, priced, unpriced and rejected.
SPECIFICATION Spec
CONSTANTS
  i1 = i1
  i2 = i2
  Id = {i1, i2}
  Body = {b1, n1, x1}
  Unpriced = {n1}
  Rejected = {x1}
  KeepState = FALSE
  MaxBatch = 3
  MaxBatches = 2
SYMMETRY MCSymmetry
INVARIANTS
  TypeOK
  EveryRecordRouted
  SkippedWasPublished
  ConflictsSurfaced
