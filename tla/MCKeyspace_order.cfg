SPECIFICATION Spec
CONSTANTS
  Key = {k1, e}
  Value = {v1, v2}
  Empty = e
  NoValue = NoValue
  Torn = Torn
  MaxLines = 3
  MaxBatch = 2
SYMMETRY ValueSymmetry
INVARIANT LogMirrorsStore
PROPERTY IsDurableMap
