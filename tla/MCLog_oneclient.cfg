SPECIFICATION Spec
CONSTANTS
  Thread = {t1}
  Command = {c1, c2}
  MaxAppends = 4
INVARIANT ClosedMeansDurable
