SPECIFICATION Spec
CONSTANTS
  n1 = n1
  n2 = n2
  Thread = {c1}
  Main = main
  Name = {n1, n2}
  NoName = NoName
  Temp <- Apart
  Obj = {o1, o2}
  NoObj = NoObj
  Key = {k1}
  Value = {v1}
  Empty = e
  NoValue = NoValue
  MaxLines = 2
SYMMETRY NameSymmetry
INVARIANT TypeOK
INVARIANT OnlyOverlapsDisagree
INVARIANT LeftMeansKept
INVARIANT OneWriterPerAof
