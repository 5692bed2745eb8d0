SPECIFICATION FairSpec
CONSTANTS
  Thread = {t1, t2}
  Command = {c1, c2}
  MaxAppends = 3
INVARIANT TypeOK
INVARIANT LinesInOrder
PROPERTY CloseReturns
PROPERTY KeepsPromise
