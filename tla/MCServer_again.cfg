SPECIFICATION Spec
CONSTANTS
  n1 = n1
  n2 = n2
  Thread = {c1}
  Main = main
  Name = {n1}
  NoName = NoName
  Temp <- Apart
  Obj = {o1, o2}
  NoObj = NoObj
  Key = {k1}
  Value = {v1, v2}
  Empty = e
  NoValue = NoValue
  MaxLines = 2
SYMMETRY NameSymmetry
INVARIANT FlushedIsDurable
