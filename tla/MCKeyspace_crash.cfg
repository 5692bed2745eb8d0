SPECIFICATION Spec
CONSTANTS
  Key = {k1, k2}
  Value = {v1, e}
  Empty = e
  NoValue = NoValue
  Torn = Torn
  MaxLines = 3
  MaxBatch = 2
SYMMETRY KeySymmetry
INVARIANT TypeOK
INVARIANT LogMirrorsStore
INVARIANT RestartRestoresRecent
INVARIANT SnapshotAgreesWithAof
INVARIANT DirtyTellsTruth
