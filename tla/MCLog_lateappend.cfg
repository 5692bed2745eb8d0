SPECIFICATION Spec
CONSTANTS
  Thread = {t1, t2}
  Command = {c1, c2}
  MaxAppends = 2
INVARIANT ClosedMeansDurable
