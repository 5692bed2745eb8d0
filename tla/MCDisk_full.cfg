SPECIFICATION Spec
CONSTANTS
  Key = {"k1", "k"}
  Value = {"v1", "v"}
  Empty = Empty
  NoValue = NoValue
  Clips <- Unrelated
  Faults = {"dump"}
  MaxPieces = 3
INVARIANT LosesOnlyLastSecond
