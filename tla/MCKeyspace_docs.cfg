SPECIFICATION Spec
CONSTANTS
  Key = {k1}
  Value = {v1}
  Empty = e
  NoValue = NoValue
  Torn = Torn
  MaxLines = 3
  MaxBatch = 2
INVARIANT CommandsAreLogged
PROPERTY ClearIsDurable
PROPERTY SkipMeansUnchanged
