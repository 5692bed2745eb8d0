SPECIFICATION Spec
CONSTANTS
  Key = {"k1", "k"}
  Value = {"v1", "v"}
  Empty = Empty
  NoValue = NoValue
  Clips <- Unrelated
  Faults = {}
  MaxPieces = 3
INVARIANT TypeOK
INVARIANT LosesOnlyLastSecond
INVARIANT CleanShutdownLosesNothing
PROPERTY IsDurableMap
