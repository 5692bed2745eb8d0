SPECIFICATION Spec
CONSTANTS
  Key = {"k1", "k"}
  Value = {"v1", "v"}
  Empty = Empty
  NoValue = NoValue
  Clips <- Unrelated
  Faults = {"tear"}
  MaxPieces = 3
INVARIANT LosesOnlyLastSecond
