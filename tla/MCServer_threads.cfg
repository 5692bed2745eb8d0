SPECIFICATION Spec
CONSTANTS
  n1 = n1
  n2 = n2
  Thread = {c1, c2}
  Main = main
  Name = {n1}
  NoName = NoName
  Temp <- Apart
  Obj = {o1, o2}
  NoObj = NoObj
  Key = {k1, k2}
  Value = {v1}
  Empty = e
  NoValue = NoValue
  MaxLines = 1
SYMMETRY NameSymmetry
INVARIANT OnlyOverlapsDisagree
INVARIANT LeftMeansKept
